---------------------------- MODULE Stage_proofs ----------------------------
(***************************************************************************)
(* Theorems about a stage, for any number of entries and of calls of       *)
(* RecordMatchScore, and any matches and statuses they are made for.       *)
(*                                                                         *)
(* The argument: a call holds the lock of its match's row, so the sides it *)
(* has read are the sides until it commits, and no two calls are at one    *)
(* match.  It writes the next match only while that is SCHEDULED, and only *)
(* the side that is its own.                                               *)
(*                                                                         *)
(* The seeds: the order for 2^(k+1) places puts a seed of the first half   *)
(* at home, in the pair that stands for its place in the order for 2^k     *)
(* places.  So an entry that strong finds itself, each time it goes on,    *)
(* where the order of the smaller bracket puts it, and its opponent is of  *)
(* the other half.                                                         *)
(*                                                                         *)
(* The pairings: after r rounds every team but the first has moved on by r *)
(* places of an odd circle, so the sum of the places of two teams is that  *)
(* of places opposite each other in exactly one round.                     *)
(*                                                                         *)
(* The tables: two entries meet once, so of two that are level one has     *)
(* beaten the other or their names decide, if they differ, and then Before *)
(* is a strict order; the sort puts each row at its place in it, and two   *)
(* lists of the same rows in one strict order are equal.  The badminton    *)
(* table joins groups of one value of a column, each ranked in its turn,   *)
(* so it ranks by an order made, from the names up, of the columns; two    *)
(* entries are in it both ways only if they share all it looks at.         *)
(***************************************************************************)
EXTENDS Stage, FiniteSetTheorems, WellFoundedInduction, TLAPS

\* match has a row of four columns for each match.  (What the columns hold is the
\* subject of SeedsInv.)
RowsInv ==
    /\ match = [m \in Matches |-> match[m]]
    /\ \A m \in Matches : match[m] =
        [home |-> match[m].home, away |-> match[m].away,
         status |-> match[m].status, winner |-> match[m].winner]

\* A row of m's, with the two sides it has among these rows.
SidesOf(rows, m, row) ==
    row = [home |-> rows[m].home, away |-> rows[m].away,
           status |-> row.status, winner |-> row.winner]

ACall(k, rows) ==
    \/ k = NoCall
    \/ /\ k = [at |-> k.at, of |-> k.of, row |-> k.row]
       /\ k.at \in {"written", "checked"} /\ k.of \in Matches
       /\ SidesOf(rows, k.of, k.row)

\* What a call knows while it has the lock of its match.
CallsInv ==
    /\ call = [c \in Calls |-> call[c]]
    /\ \A c \in Calls : ACall(call[c], match)
    /\ \A c, d \in Calls :
        c # d /\ call[c].at # "idle" /\ call[d].at # "idle" => call[c].of # call[d].of

IInv == RowsInv /\ CallsInv /\ WinnerPlaysOn

-----------------------------------------------------------------------------
(***************************************************************************)
(* The shape of the bracket.                                               *)
(***************************************************************************)

LEMMA MatchIsPair ==
    ASSUME NEW m \in Matches
    PROVE  m = <<m[1], m[2]>> /\ m[1] \in Int /\ m[2] \in Int /\ m[1] >= 1 /\ m[2] >= 1
BY DEF Matches, BracketMatches

LEMMA NextIsLater == ASSUME NEW m \in Matches PROVE NextMatch(m) # m
BY MatchIsPair DEF NextMatch

\* A side of a match has at most one match before it.
LEMMA SideHasOneSource ==
    ASSUME NEW m \in Matches, NEW x \in Matches,
           NextMatch(x) = NextMatch(m), NextSide(x) = NextSide(m)
    PROVE  x = m
<1>1. /\ m = <<m[1], m[2]>> /\ m[1] \in Int /\ m[2] \in Int
      /\ x = <<x[1], x[2]>> /\ x[1] \in Int /\ x[2] \in Int
  BY MatchIsPair
<1>2. x[1] + 1 = m[1] + 1 /\ (x[2] + 1) \div 2 = (m[2] + 1) \div 2
  BY DEF NextMatch
<1>3. x[2] % 2 = m[2] % 2
  BY <1>1 DEF NextSide
<1>4. x[1] = m[1] /\ x[2] = m[2]
  BY <1>1, <1>2, <1>3
<1> QED
  BY <1>1, <1>4

-----------------------------------------------------------------------------
\* The generated bracket: a bye has gone on already, and nothing else is decided.
LEMMA InitIInv == Init => IInv
<1> SUFFICES ASSUME Init PROVE IInv
  OBVIOUS
<1>1. match = [m \in Matches |->
        IF m[1] = 1 THEN FirstMatch(N, m[2]) ELSE LaterMatch(N, m[1], m[2])]
  BY DEF Init, BracketInit, SingleElimination, Matches
<1>2. RowsInv
  BY <1>1 DEF RowsInv, FirstMatch, LaterMatch
<1>3. CallsInv
  BY DEF Init, BracketInit, CallsInv, ACall, NoCall
<1>4. ASSUME NEW m \in Matches, Decided(m), HasNext(m)
      PROVE  match[NextMatch(m)][NextSide(m)] = match[m].winner
  <2>1. m[1] = 1
    BY <1>1, <1>4 DEF Decided, Advancing, LaterMatch
  <2>2. m[2] \in Int /\ NextMatch(m) \in Matches
    BY <1>4, MatchIsPair DEF HasNext
  <2> DEFINE k == (m[2] + 1) \div 2
  <2>3. match[NextMatch(m)] = LaterMatch(N, 2, k)
    BY <1>1, <2>1, <2>2 DEF NextMatch
  <2>4. /\ LaterMatch(N, 2, k).home = FirstMatch(N, 2 * k - 1).winner
        /\ LaterMatch(N, 2, k).away = FirstMatch(N, 2 * k).winner
    BY DEF LaterMatch
  <2>5. match[m].winner = FirstMatch(N, m[2]).winner
    BY <1>1, <2>1
  <2>6. CASE m[2] % 2 = 1
    <3>1. 2 * k - 1 = m[2]
      BY <2>2, <2>6
    <3> QED
      BY <2>3, <2>4, <2>5, <2>6, <3>1 DEF NextSide
  <2>7. CASE m[2] % 2 # 1
    <3>1. 2 * k = m[2]
      BY <2>2, <2>7
    <3> QED
      BY <2>3, <2>4, <2>5, <2>7, <3>1 DEF NextSide
  <2> QED
    BY <2>6, <2>7
<1> QED
  BY <1>2, <1>3, <1>4 DEF IInv, WinnerPlaysOn

-----------------------------------------------------------------------------
(***************************************************************************)
(* The calls.                                                              *)
(***************************************************************************)

\* The steps that change no match leave the matches' facts alone.
LEMMA MatchesAlone == ASSUME RowsInv, WinnerPlaysOn, match' = match PROVE RowsInv' /\ WinnerPlaysOn'
BY DEF RowsInv, WinnerPlaysOn, Decided

\* What is known of a call under way.
LEMMA CallUnderWay ==
    ASSUME NEW k, NEW rows, ACall(k, rows), k.at # "idle"
    PROVE  /\ k.at \in {"written", "checked"} /\ k.of \in Matches /\ SidesOf(rows, k.of, k.row)
           /\ k = [at |-> k.at, of |-> k.of, row |-> k.row]
<1>1. k # NoCall
  BY DEF NoCall
<1> QED
  BY <1>1 DEF ACall

\* What is known of a call stands while its match keeps its sides.
LEMMA CallStands ==
    ASSUME NEW k, NEW rows, NEW next, ACall(k, rows),
           k.at # "idle" => /\ next[k.of].home = rows[k.of].home
                           /\ next[k.of].away = rows[k.of].away
    PROVE  ACall(k, next)
<1>1. CASE k = NoCall
  BY <1>1 DEF ACall
<1>2. CASE k # NoCall
  <2>1. /\ k = [at |-> k.at, of |-> k.of, row |-> k.row]
        /\ k.at \in {"written", "checked"} /\ k.of \in Matches
        /\ SidesOf(rows, k.of, k.row)
    BY <1>2 DEF ACall
  <2>2. SidesOf(next, k.of, k.row)
    BY <2>1 DEF SidesOf
  <2> QED
    BY <2>1, <2>2 DEF ACall
<1> QED
  BY <1>1, <1>2

LEMMA WriteScoreStep ==
    ASSUME IInv, NEW c \in Calls, NEW m \in Recorded, WriteScore(c, m)
    PROVE  IInv'
<1>1. m \in Matches
  BY RecordedAssumption DEF Matches
<1>2. match' = match
  BY DEF WriteScore
<1>3. PICK row : /\ call' = [call EXCEPT ![c] = [at |-> "written", of |-> m, row |-> row]]
                 /\ SidesOf(match, m, row)
  BY DEF WriteScore, SidesOf
<1> DEFINE k == [at |-> "written", of |-> m, row |-> row]
<1>4. \A d \in Calls : call'[d] = IF d = c THEN k ELSE call[d]
  BY <1>3 DEF IInv, CallsInv
<1>5. \A d \in Calls \ {c} : call[d].at # "idle" => call[d].of # m
  BY DEF WriteScore, Locked
<1>6. call' = [d \in Calls |-> call'[d]]
  BY <1>3 DEF IInv, CallsInv
<1>7. \A d \in Calls : ACall(call'[d], match')
  <2>1. ACall(k, match)
    BY <1>1, <1>3 DEF ACall
  <2>2. \A d \in Calls : ACall(call'[d], match)
    BY <1>4, <2>1 DEF IInv, CallsInv
  <2> QED
    BY <1>2, <2>2, CallStands
<1>8. \A d \in Calls \ {c} : call'[d] = call[d] /\ (call[d].at # "idle" => call[d].of # m)
  BY <1>4, <1>5
<1>9. call'[c].of = m
  BY <1>4
<1>10. CallsInv'
  BY <1>6, <1>7, <1>8, <1>9 DEF IInv, CallsInv
<1> QED
  BY <1>2, <1>10, MatchesAlone DEF IInv

LEMMA CheckDownstreamStep == ASSUME IInv, NEW c \in Calls, CheckDownstream(c) PROVE IInv'
<1>1. match' = match /\ call[c].at # "idle" /\ ACall(call[c], match)
  BY DEF CheckDownstream, IInv, CallsInv
<1>2. /\ call[c] = [at |-> call[c].at, of |-> call[c].of, row |-> call[c].row]
      /\ call[c].of \in Matches /\ SidesOf(match, call[c].of, call[c].row)
  BY <1>1, CallUnderWay
<1>3. call' = [d \in Calls |-> call'[d]] /\ \A d \in Calls \ {c} : call'[d] = call[d]
  BY DEF CheckDownstream, IInv, CallsInv
<1>4. \/ call'[c] = NoCall
      \/ call'[c] = [at |-> "checked", of |-> call[c].of, row |-> call[c].row]
  <2>1. [call[c] EXCEPT !.at = "checked"]
            = [at |-> "checked", of |-> call[c].of, row |-> call[c].row]
    BY <1>2
  <2> QED
    BY <2>1 DEF CheckDownstream, IInv, CallsInv
<1>5. ACall(call'[c], match)
  BY <1>2, <1>4 DEF ACall
<1>6. \A d \in Calls : ACall(call'[d], match)
  BY <1>3, <1>5 DEF IInv, CallsInv
<1>7. \A d \in Calls : ACall(call'[d], match')
  BY <1>1, <1>6, CallStands
<1>8. call'[c].at # "idle" => call'[c].of = call[c].of
  BY <1>4 DEF NoCall
<1>9. CallsInv'
  BY <1>1, <1>3, <1>7, <1>8 DEF IInv, CallsInv
<1> QED
  BY <1>1, <1>9, MatchesAlone DEF IInv

LEMMA AbortStep == ASSUME IInv, NEW c \in Calls, Abort(c) PROVE IInv'
<1>1. match' = match /\ \A d \in Calls : call'[d] = IF d = c THEN NoCall ELSE call[d]
  BY DEF Abort, IInv, CallsInv
<1>2. call' = [d \in Calls |-> call'[d]]
  BY DEF Abort, IInv, CallsInv
<1>3. \A d \in Calls : ACall(call'[d], match)
  BY <1>1 DEF IInv, CallsInv, ACall
<1>4. \A d \in Calls : ACall(call'[d], match')
  BY <1>1, <1>3, CallStands
<1>5. CallsInv'
  BY <1>1, <1>2, <1>4 DEF IInv, CallsInv, NoCall
<1> QED
  BY <1>1, <1>5, MatchesAlone DEF IInv

-----------------------------------------------------------------------------
(***************************************************************************)
(* The commit.                                                             *)
(***************************************************************************)

\* What a commit writes: nothing, its match's row, or that and its side of the next.
LEMMA WhatCommitWrites ==
    ASSUME IInv, NEW c \in Calls, Commit(c)
    PROVE  LET m == call[c].of
               n == NextMatch(m)
               row == call[c].row
           IN  /\ m \in Matches
               /\ SidesOf(match, m, row)
               /\ \/ match' = match
                  \/ /\ row.winner = Nobody \/ ~HasNext(m)
                     /\ match' = [match EXCEPT ![m] = row]
                  \/ /\ HasNext(m) /\ row.winner # Nobody
                     /\ match[n].status = "SCHEDULED"
                     /\ \A d \in Calls \ {c} : call[d].at # "idle" => call[d].of # n
                     /\ match' = [match EXCEPT ![m] = row, ![n][NextSide(m)] = row.winner]
<1>1. ACall(call[c], match) /\ call[c].at = "checked"
  BY DEF Commit, IInv, CallsInv
<1>2. call[c].of \in Matches /\ SidesOf(match, call[c].of, call[c].row)
  BY <1>1, CallUnderWay
<1> QED
  BY <1>2 DEF Commit, Advanced, CanAdvance, Locked

LEMMA CommitStep ==
    ASSUME IInv, NEW c \in Calls, Commit(c)
    PROVE  /\ IInv'
           /\ \A x \in Matches :
                match[x].status # "SCHEDULED" =>
                    match'[x].home = match[x].home /\ match'[x].away = match[x].away
<1> DEFINE m == call[c].of
           n == NextMatch(m)
           row == call[c].row
           Kept(x) == match'[x].home = match[x].home /\ match'[x].away = match[x].away
<1>1. /\ m \in Matches
      /\ row = [home |-> match[m].home, away |-> match[m].away,
                status |-> row.status, winner |-> row.winner]
  BY WhatCommitWrites DEF SidesOf
<1>2. n # m
  BY <1>1, NextIsLater
<1>3. /\ match = [x \in Matches |-> match[x]]
      /\ \A x \in Matches : match[x] =
            [home |-> match[x].home, away |-> match[x].away,
             status |-> match[x].status, winner |-> match[x].winner]
  BY DEF IInv, RowsInv
<1>4. /\ call' = [d \in Calls |-> call'[d]]
      /\ \A d \in Calls : call'[d] = IF d = c THEN NoCall ELSE call[d]
  BY DEF Commit, IInv, CallsInv
<1>5. \A d \in Calls \ {c} : call[d].at # "idle" => call[d].of # m
  BY DEF Commit, IInv, CallsInv
\* The matches of the other calls keep their sides, so the calls' facts stand.
<1>6. ASSUME \A d \in Calls \ {c} : call[d].at # "idle" => Kept(call[d].of)
      PROVE  CallsInv'
  <2>1. \A d \in Calls : ACall(call'[d], match')
    <3>1. ASSUME NEW d \in Calls PROVE ACall(call'[d], match')
      <4>1. CASE d = c
        BY <1>4, <4>1 DEF ACall
      <4>2. CASE d # c
        <5>1. /\ call'[d] = call[d] /\ ACall(call[d], match)
              /\ call[d].at # "idle" => Kept(call[d].of)
          BY <1>4, <1>6, <4>2 DEF IInv, CallsInv
        <5>2. ACall(call[d], match')
          BY <5>1, CallStands
        <5> QED
          BY <5>1, <5>2
      <4> QED
        BY <4>1, <4>2
    <3> QED
      BY <3>1
  <2>2. call'[c].at = "idle" /\ \A d \in Calls \ {c} : call'[d] = call[d]
    BY <1>4 DEF NoCall
  <2> QED
    BY <1>4, <2>1, <2>2 DEF IInv, CallsInv
<1>7. CASE match' = match
  <2>1. CallsInv'
    BY <1>6, <1>7
  <2> QED
    BY <1>7, <2>1, MatchesAlone DEF IInv
<1>8. CASE (row.winner = Nobody \/ ~HasNext(m)) /\ match' = [match EXCEPT ![m] = row]
  <2>1. \A x \in Matches : match'[x] = IF x = m THEN row ELSE match[x]
    BY <1>3, <1>8
  <2>2. \A x \in Matches : Kept(x)
    BY <1>1, <2>1
  <2>3. RowsInv'
    BY <1>1, <1>3, <1>8, <2>1 DEF RowsInv
  <2>4. CallsInv'
    <3>1. \A d \in Calls \ {c} : call[d].at # "idle" => call[d].of \in Matches
      BY CallUnderWay DEF IInv, CallsInv
    <3> QED
      BY <1>6, <2>2, <3>1
  <2>5. WinnerPlaysOn'
    <3>1. ASSUME NEW x \in Matches, Decided(x)', HasNext(x)
          PROVE  match'[NextMatch(x)][NextSide(x)] = match'[x].winner
      <4>1. x # m
        BY <1>8, <2>1, <3>1 DEF Decided
      <4>2. NextMatch(x) \in Matches /\ Decided(x) /\ match'[x] = match[x]
        BY <2>1, <3>1, <4>1 DEF HasNext, Decided
      <4>3. match[NextMatch(x)][NextSide(x)] = match[x].winner
        BY <3>1, <4>2 DEF IInv, WinnerPlaysOn
      <4> QED
        BY <2>2, <4>2, <4>3 DEF NextSide
    <3> QED
      BY <3>1 DEF WinnerPlaysOn, HasNext
  <2> QED
    BY <2>2, <2>3, <2>4, <2>5 DEF IInv
<1>9. CASE /\ HasNext(m) /\ row.winner # Nobody
           /\ match[n].status = "SCHEDULED"
           /\ \A d \in Calls \ {c} : call[d].at # "idle" => call[d].of # n
           /\ match' = [match EXCEPT ![m] = row, ![n][NextSide(m)] = row.winner]
  <2>1. n \in Matches
    BY <1>9 DEF HasNext
  <2>2. \A x \in Matches : match'[x] =
            IF x = m THEN row
            ELSE IF x = n THEN [match[n] EXCEPT ![NextSide(m)] = row.winner]
            ELSE match[x]
    BY <1>2, <1>3, <1>9, <2>1
  <2>3. /\ match'[n].status = "SCHEDULED"
        /\ match'[n][NextSide(m)] = row.winner
        /\ \A s \in {"home", "away"} : s # NextSide(m) => match'[n][s] = match[n][s]
        /\ match'[n] = [home |-> match'[n].home, away |-> match'[n].away,
                        status |-> match'[n].status, winner |-> match'[n].winner]
    <3>1. CASE NextSide(m) = "home"
      BY <1>2, <1>3, <1>9, <2>1, <2>2, <3>1
    <3>2. CASE NextSide(m) = "away"
      BY <1>2, <1>3, <1>9, <2>1, <2>2, <3>2
    <3> QED
      BY <3>1, <3>2 DEF NextSide
  <2>4. \A x \in Matches : x # n => Kept(x)
    BY <1>1, <2>2
  <2>5. RowsInv'
    <3>1. match' = [x \in Matches |-> match'[x]]
      BY <1>3, <1>9
    <3> QED
      BY <1>1, <1>3, <2>2, <2>3, <3>1 DEF RowsInv
  <2>6. CallsInv'
    <3>1. \A d \in Calls \ {c} : call[d].at # "idle" => call[d].of \in Matches
      BY CallUnderWay DEF IInv, CallsInv
    <3> QED
      BY <1>6, <1>9, <2>4, <3>1
  <2>7. WinnerPlaysOn'
    <3>1. ASSUME NEW x \in Matches, Decided(x)', HasNext(x)
          PROVE  match'[NextMatch(x)][NextSide(x)] = match'[x].winner
      <4>1. CASE x = m
        BY <1>2, <2>2, <2>3, <4>1
      <4>2. x # n
        BY <2>3, <3>1 DEF Decided, Advancing
      <4>3. CASE x # m
        <5>1. NextMatch(x) \in Matches /\ Decided(x) /\ match'[x] = match[x]
          BY <2>2, <3>1, <4>2, <4>3 DEF HasNext, Decided
        <5>2. match[NextMatch(x)][NextSide(x)] = match[x].winner
          BY <3>1, <5>1 DEF IInv, WinnerPlaysOn
        <5>3. CASE NextMatch(x) = n
          <6>1. NextSide(x) # NextSide(m)
            BY <1>1, <4>3, <5>3, SideHasOneSource
          <6> QED
            BY <2>3, <5>1, <5>2, <5>3, <6>1 DEF NextSide
        <5>4. CASE NextMatch(x) # n
          BY <2>4, <5>1, <5>2, <5>4 DEF NextSide
        <5> QED
          BY <5>3, <5>4
      <4> QED
        BY <4>1, <4>3
    <3> QED
      BY <3>1 DEF WinnerPlaysOn, HasNext
  <2> QED
    BY <1>9, <2>4, <2>5, <2>6, <2>7 DEF IInv
<1>10. \/ match' = match
       \/ (row.winner = Nobody \/ ~HasNext(m)) /\ match' = [match EXCEPT ![m] = row]
       \/ /\ HasNext(m) /\ row.winner # Nobody
          /\ match[n].status = "SCHEDULED"
          /\ \A d \in Calls \ {c} : call[d].at # "idle" => call[d].of # n
          /\ match' = [match EXCEPT ![m] = row, ![n][NextSide(m)] = row.winner]
  BY WhatCommitWrites
<1> QED
  BY <1>7, <1>8, <1>9, <1>10

-----------------------------------------------------------------------------
LEMMA BracketUnchanged == ASSUME IInv, UNCHANGED bracketVars PROVE IInv'
BY DEF bracketVars, IInv, RowsInv, CallsInv, ACall, WinnerPlaysOn, Decided

LEMMA NextStep == IInv /\ [Next]_vars => IInv'
<1> SUFFICES ASSUME IInv, [Next]_vars PROVE IInv'
  OBVIOUS
<1>1. CASE UNCHANGED bracketVars
  BY <1>1, BracketUnchanged
<1>2. CASE BracketNext
  BY <1>2, WriteScoreStep, CheckDownstreamStep, CommitStep, AbortStep DEF BracketNext
<1> QED
  BY <1>1, <1>2 DEF Next, RecordGroupScore, RecordEliminationScore, vars, bracketVars

\* The invariant of the other theorems.
THEOREM InductiveInvariant == Spec => []IInv
BY InitIInv, NextStep, PTL DEF Spec

\* WinnerPlaysOn: whatever results are recorded, corrected and taken back at once, the
\* winner of a decided match is the one that RecordMatchScore has put in the next.
THEOREM WinnersPlayOn == Spec => []WinnerPlaysOn
BY InductiveInvariant, PTL DEF IInv

\* StartedKeepsSides: RecordMatchScore never replaces a player of a match under way.
THEOREM SidesKept == Spec => StartedKeepsSides
<1> DEFINE Keeps == \A m \in Matches :
        match[m].status # "SCHEDULED" /\ match'[m].status # "SCHEDULED" =>
            match'[m].home = match[m].home /\ match'[m].away = match[m].away
<1>1. ASSUME IInv, [Next]_vars PROVE [Keeps]_bracketVars
  <2>1. CASE match' = match
    BY <2>1
  <2>2. CASE \E c \in Calls : Commit(c)
    BY <1>1, <2>2, CommitStep
  <2> QED
    BY <1>1, <2>1, <2>2
    DEF Next, RecordGroupScore, RecordEliminationScore, BracketNext, WriteScore,
        CheckDownstream, Abort, vars, bracketVars
<1> QED
  BY <1>1, InductiveInvariant, PTL DEF Spec, StartedKeepsSides
-----------------------------------------------------------------------------
(***************************************************************************)
(* The order of seeds, for a bracket of any size.  Powers of 2 and orders  *)
(* are functions defined by recursion up to a bound: that they exist, and  *)
(* that those of two bounds agree, makes the recursion hold of PowerOf2    *)
(* and SeedOrder.                                                          *)
(***************************************************************************)

\* A set of natural numbers that is not empty has a least member.
LEMMA Smallest ==
    ASSUME NEW T \in SUBSET Nat, T # {}
    PROVE  \E n \in T : \A k \in T : n <= k
<1> DEFINE R == OpToRel(<, Nat)
<1>1. IsWellFoundedOn(R, Nat)
  BY NatLessThanWellFounded
<1>2. ASSUME NEW n \in Nat, NEW k \in Nat, ~(<<k, n>> \in R) PROVE n <= k
  BY <1>2 DEF OpToRel
<1> HIDE DEF R
<1>3. PICK n \in T : \A k \in T : ~(<<k, n>> \in R)
  BY <1>1, WFMin
<1> QED
  BY <1>2, <1>3

\* What holds of 0 and passes from a number to the next holds of all: the set of those
\* it holds of is given, so that no operator is a parameter.
LEMMA Inductive ==
    ASSUME NEW T \in SUBSET Nat, 0 \in T, \A n \in T : n + 1 \in T
    PROVE  T = Nat
<1> SUFFICES ASSUME Nat \ T # {} PROVE FALSE
  OBVIOUS
<1>1. PICK n \in Nat \ T : \A k \in Nat \ T : n <= k
  BY Smallest
<1>2. n - 1 \in Nat /\ n - 1 < n
  BY <1>1
<1>3. n - 1 \in T
  BY <1>1, <1>2
<1> QED
  BY <1>1, <1>3

-----------------------------------------------------------------------------
\* The powers of 2 up to n.
IsPowers(f, n) == f = [i \in 0..n |-> IF i = 0 THEN 1 ELSE 2 * f[i - 1]]

LEMMA PowersExist == \A n \in Nat : \E f : IsPowers(f, n)
<1> DEFINE T == {n \in Nat : \E f : IsPowers(f, n)}
<1>1. 0 \in T
  <2> DEFINE f == [i \in 0..0 |-> 1]
  <2>1. IsPowers(f, 0)
    BY DEF IsPowers
  <2> QED
    BY <2>1
<1>2. ASSUME NEW n \in T PROVE n + 1 \in T
  <2>1. n \in Nat /\ n + 1 \in Nat
    OBVIOUS
  <2>2. PICK f : IsPowers(f, n)
    OBVIOUS
  <2> DEFINE g == [i \in 0..n + 1 |-> IF i = n + 1 THEN 2 * f[n] ELSE f[i]]
  <2>3. ASSUME NEW i \in 0..n + 1 PROVE g[i] = IF i = 0 THEN 1 ELSE 2 * g[i - 1]
    <3>1. CASE i = n + 1
      <4>1. i # 0 /\ i - 1 = n /\ n \in 0..n + 1 /\ n # n + 1
        BY <2>1, <3>1
      <4> QED
        BY <3>1, <4>1
    <3>2. CASE i # n + 1
      <4>1. i \in 0..n /\ (i # 0 => i - 1 \in 0..n + 1 /\ i - 1 # n + 1 /\ i - 1 \in 0..n)
        BY <2>1, <3>2
      <4>2. f[i] = IF i = 0 THEN 1 ELSE 2 * f[i - 1]
        BY <2>2, <4>1 DEF IsPowers
      <4> QED
        BY <3>2, <4>1, <4>2
    <3> QED
      BY <3>1, <3>2
  <2>4. g = [i \in 0..n + 1 |-> g[i]]
    OBVIOUS
  <2> HIDE DEF g
  <2>5. IsPowers(g, n + 1)
    BY <2>3, <2>4 DEF IsPowers
  <2> QED
    BY <2>1, <2>5
<1> HIDE DEF T
<1>3. T = Nat
  <2>1. T \in SUBSET Nat
    BY DEF T
  <2> QED
    BY <1>1, <1>2, <2>1, Inductive
<1> QED
  BY <1>3 DEF T

\* Two of them agree as far as both go.
LEMMA PowersAgree ==
    ASSUME NEW f, NEW g, NEW n \in Nat, NEW m \in Nat, IsPowers(f, n), IsPowers(g, m)
    PROVE  \A i \in Nat : i <= n /\ i <= m => f[i] = g[i] /\ f[i] \in Nat
<1> DEFINE T == {i \in Nat : i <= n /\ i <= m => f[i] = g[i] /\ f[i] \in Nat}
<1>1. ASSUME NEW i \in Nat, i <= n, i <= m
      PROVE  /\ f[i] = IF i = 0 THEN 1 ELSE 2 * f[i - 1]
             /\ g[i] = IF i = 0 THEN 1 ELSE 2 * g[i - 1]
  BY <1>1 DEF IsPowers
<1>2. 0 \in T
  BY <1>1
<1>3. ASSUME NEW i \in T PROVE i + 1 \in T
  <2>1. i \in Nat /\ i + 1 \in Nat /\ i + 1 # 0 /\ (i + 1) - 1 = i
    OBVIOUS
  <2>2. ASSUME i + 1 <= n, i + 1 <= m PROVE f[i + 1] = g[i + 1] /\ f[i + 1] \in Nat
    <3>1. i <= n /\ i <= m
      BY <2>1, <2>2
    <3>2. f[i] = g[i] /\ f[i] \in Nat
      BY <3>1
    <3>3. f[i + 1] = 2 * f[i] /\ g[i + 1] = 2 * g[i]
      BY <1>1, <2>1, <2>2
    <3> QED
      BY <3>2, <3>3
  <2> QED
    BY <2>1, <2>2
<1> HIDE DEF T
<1>4. T = Nat
  <2>1. T \in SUBSET Nat
    BY DEF T
  <2> QED
    BY <1>2, <1>3, <2>1, Inductive
<1> QED
  BY <1>4 DEF T

\* PowerOf2 is what its name says.
LEMMA PowerSteps ==
    /\ PowerOf2(0) = 1
    /\ \A k \in Nat : PowerOf2(k) \in Nat /\ PowerOf2(k + 1) = 2 * PowerOf2(k)
<1> DEFINE power(k) == CHOOSE f : IsPowers(f, k)
<1>1. ASSUME NEW k \in Nat PROVE IsPowers(power(k), k) /\ PowerOf2(k) = power(k)[k]
  <2>1. IsPowers(power(k), k)
    BY PowersExist
  <2> QED
    BY <2>1 DEF PowerOf2, IsPowers
<1> HIDE DEF power
<1>2. PowerOf2(0) = 1
  <2>1. 0 \in 0..0
    OBVIOUS
  <2> QED
    BY <1>1, <2>1 DEF IsPowers
<1>3. ASSUME NEW k \in Nat PROVE PowerOf2(k) \in Nat /\ PowerOf2(k + 1) = 2 * PowerOf2(k)
  <2>1. k + 1 \in Nat /\ k <= k /\ k <= k + 1 /\ k + 1 \in 0..k + 1 /\ k + 1 # 0 /\ (k + 1) - 1 = k
    OBVIOUS
  <2>2. /\ IsPowers(power(k), k) /\ PowerOf2(k) = power(k)[k]
        /\ IsPowers(power(k + 1), k + 1) /\ PowerOf2(k + 1) = power(k + 1)[k + 1]
    BY <1>1, <2>1
  <2>3. power(k)[k] = power(k + 1)[k] /\ power(k)[k] \in Nat
    BY <2>1, <2>2, PowersAgree
  <2>4. power(k + 1)[k + 1] = 2 * power(k + 1)[k]
    BY <2>1, <2>2 DEF IsPowers
  <2> QED
    BY <2>2, <2>3, <2>4
<1> QED
  BY <1>2, <1>3

\* A power of 2 exceeds its exponent, and grows with it.
LEMMA PowerGrows ==
    /\ \A k \in Nat : PowerOf2(k) > k
    /\ \A j, k \in Nat : j <= k => PowerOf2(j) <= PowerOf2(k)
<1>1. /\ PowerOf2(0) = 1
      /\ \A k \in Nat : PowerOf2(k) \in Nat /\ PowerOf2(k + 1) = 2 * PowerOf2(k)
  BY PowerSteps
<1> DEFINE T == {k \in Nat : PowerOf2(k) > k}
<1>2. T = Nat
  <2>1. T \in SUBSET Nat /\ 0 \in T
    BY <1>1
  <2>2. ASSUME NEW k \in T PROVE k + 1 \in T
    <3>1. /\ PowerOf2(k) \in Nat /\ PowerOf2(k) > k
          /\ PowerOf2(k + 1) = 2 * PowerOf2(k) /\ k + 1 \in Nat
      BY <1>1
    <3> QED
      BY <3>1
  <2> HIDE DEF T
  <2> QED
    BY <2>1, <2>2, Inductive
<1>3. ASSUME NEW j \in Nat PROVE \A k \in Nat : j <= k => PowerOf2(j) <= PowerOf2(k)
  <2> DEFINE U == {k \in Nat : j <= k => PowerOf2(j) <= PowerOf2(k)}
  <2>1. U \in SUBSET Nat /\ 0 \in U
    BY <1>1
  <2>2. ASSUME NEW k \in U PROVE k + 1 \in U
    <3>1. /\ PowerOf2(j) \in Nat /\ PowerOf2(k) \in Nat
          /\ PowerOf2(k + 1) = 2 * PowerOf2(k) /\ k + 1 \in Nat
      BY <1>1
    <3>2. CASE j <= k
      BY <3>1, <3>2
    <3>3. CASE ~(j <= k)
      <4>1. j <= k + 1 => j = k + 1
        BY <3>3
      <4> QED
        BY <3>1, <4>1
    <3> QED
      BY <3>2, <3>3
  <2>3. U = Nat
    <3> HIDE DEF U
    <3> QED
      BY <2>1, <2>2, Inductive
  <2> QED
    BY <2>3
<1> QED
  BY <1>2, <1>3

\* GenerateSingleElimination finds a number of rounds with a place for every entry.
LEMMA RoundsExist == Rounds(N) \in 1..N /\ PowerOf2(Rounds(N)) >= N
<1> DEFINE T == {k \in 1..N : PowerOf2(k) >= N}
<1>1. N \in Nat /\ N \in 1..N
  BY EntriesAssumption
<1>2. T \in SUBSET Nat /\ N \in T
  <2>1. PowerOf2(N) > N /\ PowerOf2(N) \in Nat
    BY <1>1, PowerGrows, PowerSteps
  <2> QED
    BY <1>1, <2>1
<1>3. PICK k \in T : \A j \in T : k <= j
  <2> HIDE DEF T
  <2> QED
    BY <1>2, Smallest
<1>4. ASSUME NEW j \in 1..k - 1 PROVE PowerOf2(j) < N
  <2>1. j \in 1..N /\ ~(k <= j) /\ j \in Nat
    BY <1>1, <1>3, <1>4
  <2>2. j \notin T
    <3> HIDE DEF T
    <3> QED
      BY <1>3, <2>1
  <2>3. PowerOf2(j) \in Nat
    BY <2>1, PowerSteps
  <2> QED
    BY <1>1, <2>1, <2>2, <2>3
<1>5. \E l \in 1..N : PowerOf2(l) >= N /\ \A j \in 1..l - 1 : PowerOf2(j) < N
  BY <1>3, <1>4
<1> QED
  BY <1>5 DEF Rounds

-----------------------------------------------------------------------------
\* The order of seeds for 2^j places, from the one for half as many.
NextOrder(order, j) ==
    [i \in 1..PowerOf2(j) |->
        LET v == order[(i + 1) \div 2]
        IN  IF i % 2 = 1 THEN v ELSE PowerOf2(j) + 1 - v]

\* The orders for brackets of up to n rounds.
AreOrders(f, n) == f = [j \in 1..n |-> IF j = 1 THEN <<1, 2>> ELSE NextOrder(f[j - 1], j)]

LEMMA OrdersExist == \A n \in Nat : \E f : AreOrders(f, n)
<1> DEFINE T == {n \in Nat : \E f : AreOrders(f, n)}
<1>1. 0 \in T
  <2> DEFINE f == [j \in 1..0 |-> 1]
  <2>1. AreOrders(f, 0)
    BY DEF AreOrders
  <2> QED
    BY <2>1
<1>2. ASSUME NEW n \in T PROVE n + 1 \in T
  <2>1. n \in Nat /\ n + 1 \in Nat
    OBVIOUS
  <2>2. PICK f : AreOrders(f, n)
    OBVIOUS
  <2> DEFINE first == IF n = 0 THEN <<1, 2>> ELSE NextOrder(f[n], n + 1)
             g == [j \in 1..n + 1 |-> IF j = n + 1 THEN first ELSE f[j]]
  <2>3. ASSUME NEW j \in 1..n + 1
        PROVE  g[j] = IF j = 1 THEN <<1, 2>> ELSE NextOrder(g[j - 1], j)
    <3>1. CASE j = n + 1
      <4>1. n # 0 => j # 1 /\ j - 1 = n /\ n \in 1..n + 1 /\ n # n + 1
        BY <2>1, <3>1
      <4>2. n = 0 => j = 1
        BY <3>1
      <4>3. n # 0 => g[n] = f[n]
        BY <4>1
      <4>4. g[j] = first
        BY <3>1
      <4> QED
        BY <3>1, <4>1, <4>2, <4>3, <4>4
    <3>2. CASE j # n + 1
      <4>1. j \in 1..n /\ (j # 1 => j - 1 \in 1..n + 1 /\ j - 1 # n + 1 /\ j - 1 \in 1..n)
        BY <2>1, <3>2
      <4>2. f[j] = IF j = 1 THEN <<1, 2>> ELSE NextOrder(f[j - 1], j)
        BY <2>2, <4>1 DEF AreOrders
      <4>3. g[j] = f[j] /\ (j # 1 => g[j - 1] = f[j - 1])
        BY <3>2, <4>1
      <4> QED
        BY <4>2, <4>3
    <3> QED
      BY <3>1, <3>2
  <2>4. g = [j \in 1..n + 1 |-> g[j]]
    OBVIOUS
  <2> HIDE DEF g
  <2>5. AreOrders(g, n + 1)
    BY <2>3, <2>4 DEF AreOrders
  <2> QED
    BY <2>1, <2>5
<1> HIDE DEF T
<1>3. T = Nat
  <2>1. T \in SUBSET Nat
    BY DEF T
  <2> QED
    BY <1>1, <1>2, <2>1, Inductive
<1> QED
  BY <1>3 DEF T

LEMMA OrdersAgree ==
    ASSUME NEW f, NEW g, NEW n \in Nat, NEW m \in Nat, AreOrders(f, n), AreOrders(g, m)
    PROVE  \A j \in Nat : j >= 1 /\ j <= n /\ j <= m => f[j] = g[j]
<1> DEFINE T == {j \in Nat : j >= 1 /\ j <= n /\ j <= m => f[j] = g[j]}
<1>1. ASSUME NEW j \in Nat, j >= 1, j <= n, j <= m
      PROVE  /\ f[j] = IF j = 1 THEN <<1, 2>> ELSE NextOrder(f[j - 1], j)
             /\ g[j] = IF j = 1 THEN <<1, 2>> ELSE NextOrder(g[j - 1], j)
  <2>1. j \in 1..n /\ j \in 1..m
    BY <1>1
  <2> QED
    BY <2>1, Zenon DEF AreOrders
<1>2. 0 \in T
  OBVIOUS
<1>3. ASSUME NEW j \in T PROVE j + 1 \in T
  <2>1. j \in Nat /\ j + 1 \in Nat /\ j + 1 >= 1 /\ (j + 1) - 1 = j
    OBVIOUS
  <2>2. ASSUME j + 1 <= n, j + 1 <= m PROVE f[j + 1] = g[j + 1]
    <3>1. j <= n /\ j <= m
      BY <2>1, <2>2
    <3>2. CASE j = 0
      BY <1>1, <2>1, <2>2, <3>2
    <3>3. CASE j # 0
      <4>1. f[j] = g[j] /\ j + 1 # 1
        BY <2>1, <3>1, <3>3
      <4> QED
        BY <1>1, <2>1, <2>2, <4>1
    <3> QED
      BY <3>2, <3>3
  <2> QED
    BY <2>1, <2>2
<1> HIDE DEF T
<1>4. T = Nat
  <2>1. T \in SUBSET Nat
    BY DEF T
  <2> QED
    BY <1>2, <1>3, <2>1, Inductive
<1> QED
  BY <1>4 DEF T

\* bracketSeedOrder by its recursion.
LEMMA SeedOrderSteps ==
    /\ SeedOrder(1) = <<1, 2>>
    /\ \A k \in Nat : k >= 1 => SeedOrder(k + 1) = NextOrder(SeedOrder(k), k + 1)
<1> DEFINE orders(k) == CHOOSE f : AreOrders(f, k)
<1>1. ASSUME NEW k \in Nat PROVE AreOrders(orders(k), k) /\ SeedOrder(k) = orders(k)[k]
  <2>1. AreOrders(orders(k), k)
    BY OrdersExist
  <2> QED
    BY <2>1 DEF SeedOrder, AreOrders, NextOrder
<1> HIDE DEF orders
<1>2. SeedOrder(1) = <<1, 2>>
  <2>1. 1 \in 1..1 /\ 1 \in Nat
    OBVIOUS
  <2>2. AreOrders(orders(1), 1) /\ SeedOrder(1) = orders(1)[1]
    BY <1>1, <2>1
  <2>3. \A f : AreOrders(f, 1) => f[1] = <<1, 2>>
    BY <2>1, Zenon DEF AreOrders
  <2> QED
    BY <2>2, <2>3
<1>3. ASSUME NEW k \in Nat, k >= 1 PROVE SeedOrder(k + 1) = NextOrder(SeedOrder(k), k + 1)
  <2>1. k + 1 \in Nat /\ k <= k /\ k <= k + 1 /\ k + 1 \in 1..k + 1 /\ k + 1 # 1 /\ (k + 1) - 1 = k
    BY <1>3
  <2>2. /\ AreOrders(orders(k), k) /\ SeedOrder(k) = orders(k)[k]
        /\ AreOrders(orders(k + 1), k + 1) /\ SeedOrder(k + 1) = orders(k + 1)[k + 1]
    BY <1>1, <2>1
  <2>3. orders(k)[k] = orders(k + 1)[k]
    BY <1>3, <2>1, <2>2, OrdersAgree
  <2>4. orders(k + 1)[k + 1] = NextOrder(orders(k + 1)[k], k + 1)
    BY <2>1, <2>2 DEF AreOrders
  <2> QED
    BY <2>2, <2>3, <2>4
<1> QED
  BY <1>2, <1>3

\* Every place has a seed.
LEMMA SeedOrderRange ==
    \A k \in Nat : k >= 1 => SeedOrder(k) \in [1..PowerOf2(k) -> 1..PowerOf2(k)]
<1> DEFINE T == {k \in Nat : k >= 1 => SeedOrder(k) \in [1..PowerOf2(k) -> 1..PowerOf2(k)]}
<1>1. T \in SUBSET Nat /\ 0 \in T
  OBVIOUS
<1>2. ASSUME NEW k \in T PROVE k + 1 \in T
  <2>1. k \in Nat /\ k + 1 \in Nat
    OBVIOUS
  <2>2. CASE k = 0
    <3>1. PowerOf2(1) = 2
      BY PowerSteps
    <3>2. <<1, 2>> \in [1..2 -> 1..2]
      OBVIOUS
    <3>3. k + 1 = 1
      BY <2>2
    <3>4. SeedOrder(1) \in [1..PowerOf2(1) -> 1..PowerOf2(1)]
      BY <3>1, <3>2, SeedOrderSteps, Zenon
    <3> QED
      BY <2>1, <3>3, <3>4, Zenon
  <2>3. CASE k # 0
    <3> DEFINE p == PowerOf2(k)
               s == SeedOrder(k)
    <3>1. /\ p \in Nat /\ PowerOf2(k + 1) = 2 * p /\ s \in [1..p -> 1..p]
          /\ SeedOrder(k + 1) = NextOrder(s, k + 1)
      <4>1. k >= 1
        BY <2>1, <2>3
      <4>2. s \in [1..p -> 1..p]
        BY <4>1, Zenon
      <4> QED
        BY <2>1, <4>1, <4>2, PowerSteps, SeedOrderSteps
    <3> HIDE DEF p, s
    <3>2. ASSUME NEW i \in 1..2 * p
          PROVE  (IF i % 2 = 1 THEN s[(i + 1) \div 2]
                  ELSE 2 * p + 1 - s[(i + 1) \div 2]) \in 1..2 * p
      <4>1. (i + 1) \div 2 \in 1..p
        BY <3>1
      <4>2. s[(i + 1) \div 2] \in 1..p
        BY <3>1, <4>1
      <4>3. \A v \in 1..p : v \in 1..2 * p /\ 2 * p + 1 - v \in 1..2 * p
        BY <3>1
      <4> QED
        BY <4>2, <4>3, Zenon
    <3>3. NextOrder(s, k + 1) \in [1..2 * p -> 1..2 * p]
      BY <3>1, <3>2 DEF NextOrder
    <3> QED
      BY <3>1, <3>3
  <2> QED
    BY <2>2, <2>3
<1> HIDE DEF T
<1>3. T = Nat
  BY <1>1, <1>2, Inductive
<1> QED
  BY <1>3 DEF T

\* Of the two seeds of a match the stronger, of the first half, is at home, and has the
\* place in the order of half the size that the winner goes on to.
LEMMA StrongerAtHome ==
    ASSUME NEW k \in Nat, k >= 1, NEW i \in 1..PowerOf2(k + 1),
           SeedOrder(k + 1)[i] <= PowerOf2(k)
    PROVE  i % 2 = 1 /\ SeedOrder(k + 1)[i] = SeedOrder(k)[(i + 1) \div 2]
<1> DEFINE p == PowerOf2(k)
           s == SeedOrder(k)
<1>1. /\ p \in Nat /\ PowerOf2(k + 1) = 2 * p /\ s \in [1..p -> 1..p]
      /\ SeedOrder(k + 1) = NextOrder(s, k + 1)
  BY PowerSteps, SeedOrderSteps, SeedOrderRange
<1> HIDE DEF p, s
<1>2. (i + 1) \div 2 \in 1..p /\ i \in Nat
  BY <1>1
<1>3. s[(i + 1) \div 2] \in 1..p
  BY <1>1, <1>2
<1>4. SeedOrder(k + 1)[i] = IF i % 2 = 1 THEN s[(i + 1) \div 2] ELSE 2 * p + 1 - s[(i + 1) \div 2]
  BY <1>1 DEF NextOrder
<1>5. ASSUME NEW v \in 1..p, 2 * p + 1 - v <= p PROVE FALSE
  BY <1>1, <1>5
<1>6. SeedOrder(k + 1)[i] <= p
  BY DEF p
<1>7. i % 2 = 1
  BY <1>3, <1>4, <1>5, <1>6
<1> QED
  BY <1>4, <1>7 DEF s

-----------------------------------------------------------------------------
(***************************************************************************)
(* The seeds in the bracket.                                               *)
(***************************************************************************)

\* An entry e in place i of round r.  If it is so strong that it should still be there
\* in the next round, it is where the order of seeds for the places of r puts it.
WellPlaced(e, r, i) ==
    LET k == Rounds(N) - r + 1
    IN  /\ e \in Entries \cup {Nobody}
        /\ e \in 1..PowerOf2(k) => e = SeedOrder(k)[i]

GoodRow(row, m) ==
    /\ WellPlaced(row.home, m[1], 2 * m[2] - 1) /\ WellPlaced(row.away, m[1], 2 * m[2])
    /\ row.status \in AllStatuses /\ row.winner \in Entries \cup {Nobody}

\* While every winner was a side of its match, the rows of the bracket are good.
SeedsInv == sidesWin => \A m \in Matches : GoodRow(match[m], m)

LEMMA PlaceOfMatch ==
    ASSUME NEW m \in Matches
    PROVE  /\ m = <<m[1], m[2]>> /\ m[1] \in 1..Rounds(N) /\ m[2] \in 1..PowerOf2(Rounds(N) - m[1])
           /\ Rounds(N) \in Nat /\ Rounds(N) - m[1] \in Nat /\ PowerOf2(Rounds(N) - m[1]) \in Nat
<1>1. m = <<m[1], m[2]>> /\ m[1] \in 1..Rounds(N) /\ m[2] \in 1..PowerOf2(Rounds(N) - m[1])
  BY DEF Matches, BracketMatches
<1>2. Rounds(N) \in Nat
  BY RoundsExist, EntriesAssumption
<1>3. Rounds(N) - m[1] \in Nat
  BY <1>1, <1>2
<1> QED
  BY <1>1, <1>2, <1>3, PowerSteps

\* Whoever goes on from the places of a match is well placed in the next round.
LEMMA MovesUp ==
    ASSUME NEW r \in Nat, 1 <= r, r < Rounds(N), NEW x \in 1..PowerOf2(Rounds(N) - r),
           NEW i \in {2 * x - 1, 2 * x}, NEW e, WellPlaced(e, r, i)
    PROVE  WellPlaced(e, r + 1, x)
<1> DEFINE k == Rounds(N) - r
<1>1. /\ k \in Nat /\ k >= 1 /\ k + 1 \in Nat
      /\ Rounds(N) - r + 1 = k + 1 /\ Rounds(N) - (r + 1) + 1 = k
  BY RoundsExist, EntriesAssumption
<1>2. /\ PowerOf2(k) \in Nat /\ PowerOf2(k + 1) = 2 * PowerOf2(k)
      /\ x \in 1..PowerOf2(k)
  BY <1>1, PowerSteps
<1>3. /\ e \in Entries \cup {Nobody}
      /\ e \in 1..PowerOf2(k + 1) => e = SeedOrder(k + 1)[i]
  BY <1>1, Zenon DEF WellPlaced
<1> HIDE DEF k
<1>4. i \in 1..PowerOf2(k + 1) /\ x \in Nat
  BY <1>2
<1>5. ASSUME e \in 1..PowerOf2(k) PROVE e = SeedOrder(k)[x]
  <2>1. e \in 1..PowerOf2(k + 1) /\ e <= PowerOf2(k)
    BY <1>2, <1>5
  <2>2. e = SeedOrder(k + 1)[i]
    BY <1>3, <2>1
  <2>3. i % 2 = 1 /\ e = SeedOrder(k)[(i + 1) \div 2]
    BY <1>1, <1>4, <2>1, <2>2, StrongerAtHome
  <2>4. (i + 1) \div 2 = x
    BY <1>4, <2>3
  <2> QED
    BY <2>3, <2>4
<1>6. WellPlaced(e, r + 1, x) <=> /\ e \in Entries \cup {Nobody}
                                  /\ e \in 1..PowerOf2(k) => e = SeedOrder(k)[x]
  BY <1>1, Zenon DEF WellPlaced
<1> QED
  BY <1>3, <1>5, <1>6

LEMMA NobodyWellPlaced == ASSUME NEW r, NEW i PROVE WellPlaced(Nobody, r, i)
BY DEF WellPlaced, Nobody

\* The seeds of round 1 are where the order puts them, and those with a bye have moved up.
LEMMA InitSeeds == Init => \A m \in Matches : GoodRow(match[m], m)
<1> SUFFICES ASSUME Init PROVE \A m \in Matches : GoodRow(match[m], m)
  OBVIOUS
<1> DEFINE K == Rounds(N)
<1>1. match = [m \in Matches |->
        IF m[1] = 1 THEN FirstMatch(N, m[2]) ELSE LaterMatch(N, m[1], m[2])]
  BY DEF Init, BracketInit, SingleElimination, Matches
<1>2. /\ K \in Nat /\ K >= 1 /\ K - 1 \in Nat /\ N \in Nat /\ K - 1 + 1 = K
      /\ PowerOf2(K - 1) \in Nat /\ PowerOf2(K) = 2 * PowerOf2(K - 1)
      /\ SeedOrder(K) \in [1..PowerOf2(K) -> 1..PowerOf2(K)]
  <2>1. K \in Nat /\ K >= 1 /\ K - 1 \in Nat /\ N \in Nat /\ K - 1 + 1 = K
    BY RoundsExist, EntriesAssumption
  <2> HIDE DEF K
  <2>2. PowerOf2(K - 1) \in Nat /\ PowerOf2(K - 1 + 1) = 2 * PowerOf2(K - 1)
    BY <2>1, PowerSteps
  <2> QED
    BY <2>1, <2>2, SeedOrderRange
<1>3. ASSUME NEW x \in 1..PowerOf2(K - 1)
      PROVE  /\ WellPlaced(FirstMatch(N, x).home, 1, 2 * x - 1)
             /\ WellPlaced(FirstMatch(N, x).away, 1, 2 * x)
             /\ FirstMatch(N, x).winner \in {Nobody, FirstMatch(N, x).home}
             /\ FirstMatch(N, x).status \in AllStatuses
  <2>1. 2 * x - 1 \in 1..PowerOf2(K) /\ 2 * x \in 1..PowerOf2(K)
    BY <1>2
  <2>2. ASSUME NEW i \in 1..PowerOf2(K) PROVE WellPlaced(Seeded(N, SeedOrder(K)[i]), 1, i)
    <3>1. SeedOrder(K)[i] \in Nat /\ SeedOrder(K)[i] >= 1
      BY <1>2
    <3>2. WellPlaced(Seeded(N, SeedOrder(K)[i]), 1, i) <=>
            LET e == Seeded(N, SeedOrder(K)[i])
            IN  e \in Entries \cup {Nobody} /\ (e \in 1..PowerOf2(K) => e = SeedOrder(K)[i])
      BY <1>2, Zenon DEF WellPlaced
    <3> HIDE DEF K
    <3> QED
      BY <1>2, <3>1, <3>2 DEF Seeded, Entries, Nobody
  <2>3. /\ FirstMatch(N, x).home = Seeded(N, SeedOrder(K)[2 * x - 1])
        /\ FirstMatch(N, x).away = Seeded(N, SeedOrder(K)[2 * x])
        /\ FirstMatch(N, x).winner \in {Nobody, FirstMatch(N, x).home}
        /\ FirstMatch(N, x).status \in AllStatuses
    BY DEF FirstMatch, AllStatuses
  <2> QED
    BY <2>1, <2>2, <2>3
<1>4. ASSUME NEW m \in Matches PROVE GoodRow(match[m], m)
  <2>1. /\ m[1] \in 1..K /\ m[2] \in 1..PowerOf2(K - m[1]) /\ K - m[1] \in Nat
        /\ PowerOf2(K - m[1]) \in Nat
    BY PlaceOfMatch
  <2>2. CASE m[1] = 1
    <3>1. m[2] \in 1..PowerOf2(K - 1) /\ match[m] = FirstMatch(N, m[2])
      BY <1>1, <2>1, <2>2
    <3>2. match[m].home \in Entries \cup {Nobody}
      BY <1>3, <3>1 DEF WellPlaced
    <3> QED
      BY <1>3, <2>2, <3>1, <3>2 DEF GoodRow
  <2>3. CASE m[1] = 2
    <3>1. /\ match[m].home = FirstMatch(N, 2 * m[2] - 1).winner
          /\ match[m].away = FirstMatch(N, 2 * m[2]).winner
          /\ match[m].status = "SCHEDULED" /\ match[m].winner = Nobody
      BY <1>1, <2>3 DEF LaterMatch
    <3>2. ASSUME NEW x \in 1..PowerOf2(K - 1) PROVE WellPlaced(FirstMatch(N, x).winner, 2, x)
      <4>1. CASE FirstMatch(N, x).winner = Nobody
        BY <4>1, NobodyWellPlaced
      <4>2. CASE FirstMatch(N, x).winner = FirstMatch(N, x).home
        <5>1. 1 \in Nat /\ 1 <= 1 /\ 1 < K /\ 1 + 1 = 2
          BY <1>2, <2>1, <2>3
        <5>2. WellPlaced(FirstMatch(N, x).home, 1 + 1, x)
          BY <1>3, <5>1, MovesUp
        <5> QED
          BY <4>2, <5>1, <5>2
      <4> QED
        BY <1>3, <4>1, <4>2
    <3>3. 2 * m[2] - 1 \in 1..PowerOf2(K - 1) /\ 2 * m[2] \in 1..PowerOf2(K - 1)
      <4>1. K - m[1] + 1 = K - 1
        BY <1>2, <2>3
      <4>2. PowerOf2(K - m[1] + 1) = 2 * PowerOf2(K - m[1])
        BY <2>1, PowerSteps
      <4> QED
        BY <2>1, <4>1, <4>2
    <3> QED
      BY <2>3, <3>1, <3>2, <3>3 DEF GoodRow, AllStatuses
  <2>4. CASE m[1] # 1 /\ m[1] # 2
    <3>1. /\ match[m].home = Nobody /\ match[m].away = Nobody
          /\ match[m].status = "SCHEDULED" /\ match[m].winner = Nobody
      BY <1>1, <2>4 DEF LaterMatch
    <3> QED
      BY <3>1, NobodyWellPlaced DEF GoodRow, AllStatuses
  <2> QED
    BY <2>2, <2>3, <2>4
<1> QED
  BY <1>4

\* The rows and the calls have their types, whomever a call names.
LEMMA WriteScoreTypes ==
    ASSUME IInv, BracketTypeOK, NEW c \in Calls, NEW m \in Recorded, WriteScore(c, m)
    PROVE  BracketTypeOK'
<1>1. /\ m \in Matches /\ match[m] \in Rows
      /\ match[m] = [home |-> match[m].home, away |-> match[m].away,
                     status |-> match[m].status, winner |-> match[m].winner]
  BY RecordedAssumption DEF Matches, BracketTypeOK, IInv, RowsInv
<1>2. match[m].home \in Players /\ match[m].away \in Players /\ Nobody \in Players
  BY <1>1 DEF Rows, Players
<1>3. PICK row \in Rows :
        call' = [call EXCEPT ![c] = [at |-> "written", of |-> m, row |-> row]]
  <2>1. PICK s \in Statuses, lead \in {"home", "away", "draw"},
             named \in Named \cup {match[m].home, match[m].away, Nobody} :
        call' = [call EXCEPT ![c] = [at |-> "written", of |-> m,
            row |-> [home |-> match[m].home, away |-> match[m].away, status |-> s,
                winner |-> IF s \in Advancing
                           THEN WinEntry(match[m], named, lead) ELSE Nobody]]]
    BY DEF WriteScore
  <2>2. WinEntry(match[m], named, lead) \in Players
    BY <1>2 DEF WinEntry, Players
  <2>3. s \in AllStatuses
    BY StatusesAssumption
  <2> DEFINE w == IF s \in Advancing THEN WinEntry(match[m], named, lead) ELSE Nobody
             r == [home |-> match[m].home, away |-> match[m].away, status |-> s, winner |-> w]
  <2>4. w \in Players
    BY <1>2, <2>2
  <2>5. r \in Rows
    <3> HIDE DEF w
    <3> QED
      BY <1>2, <2>3, <2>4 DEF Rows
  <2> QED
    BY <2>1, <2>5
<1> DEFINE k == [at |-> "written", of |-> m, row |-> row]
<1>4. \A d \in Calls : call'[d] = IF d = c THEN k ELSE call[d]
  BY <1>3 DEF IInv, CallsInv
<1> QED
  BY <1>4 DEF BracketTypeOK, WriteScore

LEMMA OtherTypes ==
    ASSUME IInv, BracketTypeOK, NEW c \in Calls, CheckDownstream(c) \/ Abort(c)
    PROVE  BracketTypeOK'
<1>1. match' = match /\ sidesWin' = sidesWin /\ call[c].at # "idle" /\ ACall(call[c], match)
  BY DEF CheckDownstream, Abort, IInv, CallsInv
<1>2. /\ call[c] = [at |-> call[c].at, of |-> call[c].of, row |-> call[c].row]
      /\ call[c] # NoCall
  BY <1>1, CallUnderWay DEF NoCall
<1>3. call[c].of \in Recorded /\ call[c].row \in Rows
  BY <1>2 DEF BracketTypeOK
<1>4. \A d \in Calls \ {c} : call'[d] = call[d]
  BY DEF CheckDownstream, Abort, IInv, CallsInv
<1>5. \/ call'[c] = NoCall
      \/ call'[c] = [at |-> "checked", of |-> call[c].of, row |-> call[c].row]
  <2>1. [call[c] EXCEPT !.at = "checked"]
            = [at |-> "checked", of |-> call[c].of, row |-> call[c].row]
    BY <1>2
  <2> QED
    BY <2>1 DEF CheckDownstream, Abort, IInv, CallsInv
<1> QED
  BY <1>1, <1>3, <1>4, <1>5 DEF BracketTypeOK

LEMMA CommitTypes == ASSUME IInv, BracketTypeOK, NEW c \in Calls, Commit(c) PROVE BracketTypeOK'
<1> DEFINE m == call[c].of
           n == NextMatch(m)
           row == call[c].row
<1>1. m \in Matches /\ row \in Rows
  <2>1. call[c] # NoCall
    BY DEF Commit, NoCall
  <2> QED
    BY <2>1, WhatCommitWrites DEF BracketTypeOK
<1>2. /\ \A d \in Calls : call'[d] = NoCall \/ call'[d] = call[d]
      /\ sidesWin' \in BOOLEAN
  BY DEF Commit, IInv, CallsInv, BracketTypeOK
<1>3. match = [x \in Matches |-> match[x]] /\ match \in [Matches -> Rows]
  BY DEF IInv, RowsInv, BracketTypeOK
<1>4. \/ match' = match
      \/ match' = [match EXCEPT ![m] = row]
      \/ n \in Matches /\ match' = [match EXCEPT ![m] = row, ![n][NextSide(m)] = row.winner]
  BY WhatCommitWrites DEF HasNext
<1> HIDE DEF m, n, row
<1>5. CASE match' = [match EXCEPT ![m] = row]
  <2>1. match' \in [Matches -> Rows]
    BY <1>1, <1>3, <1>5
  <2> QED
    BY <1>2, <2>1 DEF BracketTypeOK
<1>6. CASE n \in Matches /\ match' = [match EXCEPT ![m] = row, ![n][NextSide(m)] = row.winner]
  <2>1. [match EXCEPT ![m] = row][n] \in Rows
    BY <1>1, <1>3, <1>6
  <2>2. \A r \in Rows : [r EXCEPT ![NextSide(m)] = row.winner] \in Rows
    <3>1. NextSide(m) \in {"home", "away"} /\ row.winner \in Players
      BY <1>1 DEF NextSide, Rows
    <3> HIDE DEF NextSide
    <3> QED
      BY <3>1 DEF Rows
  <2>3. match' \in [Matches -> Rows]
    BY <1>1, <1>3, <1>6, <2>1, <2>2
  <2> QED
    BY <1>2, <2>3 DEF BracketTypeOK
<1> QED
  BY <1>2, <1>4, <1>5, <1>6 DEF BracketTypeOK

LEMMA NextTypes == IInv /\ BracketTypeOK /\ [Next]_vars => BracketTypeOK'
<1> SUFFICES ASSUME IInv, BracketTypeOK, [Next]_vars PROVE BracketTypeOK'
  OBVIOUS
<1>1. CASE UNCHANGED bracketVars
  BY <1>1 DEF bracketVars, BracketTypeOK
<1>2. CASE BracketNext
  BY <1>2, WriteScoreTypes, OtherTypes, CommitTypes DEF BracketNext
<1> QED
  BY <1>1, <1>2 DEF Next, RecordGroupScore, RecordEliminationScore, vars, bracketVars

\* The generated rows and no calls have their types.
LEMMA InitTypes == Init => BracketTypeOK
<1> SUFFICES ASSUME Init PROVE BracketTypeOK
  OBVIOUS
<1>1. RowsInv
  BY InitIInv DEF IInv
<1>2. ASSUME NEW m \in Matches PROVE match[m] \in Rows
  <2>1. match[m] = [home |-> match[m].home, away |-> match[m].away,
                    status |-> match[m].status, winner |-> match[m].winner]
    BY <1>1 DEF RowsInv
  <2>2. /\ match[m].home \in Players /\ match[m].away \in Players
        /\ match[m].status \in AllStatuses /\ match[m].winner \in Players
    BY InitSeeds DEF GoodRow, WellPlaced, Players
  <2> QED
    BY <2>1, <2>2 DEF Rows
<1>3. match \in [Matches -> Rows]
  BY <1>1, <1>2 DEF RowsInv
<1> QED
  BY <1>3 DEF Init, BracketInit, BracketTypeOK

\* A commit whose winner is a side of its match leaves the seeds where the order puts them.
LEMMA CommitSeeds ==
    ASSUME IInv, BracketTypeOK, SeedsInv, NEW c \in Calls, Commit(c)
    PROVE  SeedsInv'
<1> SUFFICES ASSUME sidesWin, call[c].row.winner \in {call[c].row.home, call[c].row.away, Nobody}
             PROVE  \A x \in Matches : GoodRow(match'[x], x)
  BY DEF Commit, SeedsInv, GoodRow, WellPlaced
<1> DEFINE m == call[c].of
           n == NextMatch(m)
           row == call[c].row
<1>1. m \in Matches /\ SidesOf(match, m, row) /\ GoodRow(match[m], m)
  BY WhatCommitWrites DEF SeedsInv
<1>2. /\ row.home = match[m].home /\ row.away = match[m].away
      /\ row.status \in AllStatuses /\ row.winner \in {Nobody, match[m].home, match[m].away}
  <2>1. call[c] # NoCall
    BY DEF Commit, NoCall
  <2>2. row \in Rows
    BY <2>1 DEF BracketTypeOK
  <2> QED
    BY <1>1, <2>2 DEF SidesOf, Rows
<1>3. GoodRow(row, m)
  BY <1>1, <1>2 DEF GoodRow, WellPlaced
<1>5. match = [x \in Matches |-> match[x]]
  BY DEF IInv, RowsInv
<1> HIDE DEF m, n, row
<1>6. ASSUME match' = [match EXCEPT ![m] = row] PROVE \A x \in Matches : GoodRow(match'[x], x)
  <2>1. \A x \in Matches : match'[x] = IF x = m THEN row ELSE match[x]
    BY <1>5, <1>6
  <2> QED
    BY <1>3, <2>1 DEF SeedsInv
<1>7. ASSUME n \in Matches, row.winner # Nobody,
             match' = [match EXCEPT ![m] = row, ![n][NextSide(m)] = row.winner]
      PROVE  \A x \in Matches : GoodRow(match'[x], x)
  <2>1. n # m
    BY <1>1, NextIsLater DEF n
  <2>2. \A x \in Matches : match'[x] =
            IF x = m THEN row
            ELSE IF x = n THEN [match[n] EXCEPT ![NextSide(m)] = row.winner]
            ELSE match[x]
    BY <1>1, <1>5, <1>7, <2>1
  <2>3. /\ m[1] \in Nat /\ 1 <= m[1] /\ m[1] < Rounds(N) /\ m[2] \in 1..PowerOf2(Rounds(N) - m[1])
        /\ n[1] = m[1] + 1 /\ n[2] = (m[2] + 1) \div 2 /\ m[2] \in Nat
    <3>1. n[1] = m[1] + 1 /\ n[2] = (m[2] + 1) \div 2
      BY DEF n, NextMatch
    <3>2. /\ m[1] \in 1..Rounds(N) /\ m[2] \in 1..PowerOf2(Rounds(N) - m[1])
          /\ n[1] \in 1..Rounds(N) /\ Rounds(N) \in Nat /\ PowerOf2(Rounds(N) - m[1]) \in Nat
      BY <1>1, <1>7, PlaceOfMatch
    <3> QED
      BY <3>1, <3>2
  <2>4. WellPlaced(row.winner, n[1], m[2])
    <3>1. WellPlaced(match[m].home, m[1], 2 * m[2] - 1) /\ WellPlaced(match[m].away, m[1], 2 * m[2])
      BY <1>1 DEF GoodRow
    <3>2. row.winner = match[m].home => WellPlaced(row.winner, m[1] + 1, m[2])
      BY <2>3, <3>1, MovesUp
    <3>3. row.winner = match[m].away => WellPlaced(row.winner, m[1] + 1, m[2])
      BY <2>3, <3>1, MovesUp
    <3> QED
      BY <1>2, <1>7, <2>3, <3>2, <3>3
  <2>5. GoodRow(match'[n], n)
    <3>1. match'[n] = [match[n] EXCEPT ![NextSide(m)] = row.winner]
      BY <1>7, <2>1, <2>2
    <3>2. /\ match[n] = [home |-> match[n].home, away |-> match[n].away,
                         status |-> match[n].status, winner |-> match[n].winner]
          /\ GoodRow(match[n], n)
      BY <1>7 DEF IInv, RowsInv, SeedsInv
    <3>3. CASE m[2] % 2 = 1
      <4>1. /\ match'[n].home = row.winner /\ match'[n].away = match[n].away
            /\ match'[n].status = match[n].status /\ match'[n].winner = match[n].winner
        BY <3>1, <3>2, <3>3 DEF NextSide
      <4>2. 2 * n[2] - 1 = m[2]
        BY <2>3, <3>3
      <4> QED
        BY <2>4, <3>2, <4>1, <4>2 DEF GoodRow
    <3>4. CASE m[2] % 2 # 1
      <4>1. /\ match'[n].away = row.winner /\ match'[n].home = match[n].home
            /\ match'[n].status = match[n].status /\ match'[n].winner = match[n].winner
        BY <3>1, <3>2, <3>4 DEF NextSide
      <4>2. 2 * n[2] = m[2]
        BY <2>3, <3>4
      <4> QED
        BY <2>4, <3>2, <4>1, <4>2 DEF GoodRow
    <3> QED
      BY <3>3, <3>4
  <2> QED
    BY <1>3, <2>2, <2>5 DEF SeedsInv
<1>8. \/ match' = match
      \/ match' = [match EXCEPT ![m] = row]
      \/ /\ n \in Matches /\ row.winner # Nobody
         /\ match' = [match EXCEPT ![m] = row, ![n][NextSide(m)] = row.winner]
  BY WhatCommitWrites DEF m, n, row, HasNext
<1>9. \A x \in Matches : GoodRow(match'[x], x)
  BY <1>6, <1>7, <1>8 DEF SeedsInv
<1> QED
  BY <1>9

LEMMA NextSeeds == IInv /\ BracketTypeOK /\ SeedsInv /\ [Next]_vars => SeedsInv'
<1> SUFFICES ASSUME IInv, BracketTypeOK, SeedsInv, [Next]_vars PROVE SeedsInv'
  OBVIOUS
<1>1. CASE UNCHANGED <<match, sidesWin>>
  BY <1>1 DEF SeedsInv, GoodRow, WellPlaced
<1>2. CASE BracketNext
  BY <1>1, <1>2, CommitSeeds DEF BracketNext, WriteScore, CheckDownstream, Abort
<1> QED
  BY <1>1, <1>2 DEF Next, RecordGroupScore, RecordEliminationScore, vars, bracketVars

\* The types of the rows and of the calls under way, with the invariant they need.
THEOREM BracketTypes == Spec => []BracketTypeOK
BY InitTypes, NextTypes, InductiveInvariant, PTL DEF Spec

\* Every entry is well placed, whichever side has won each match on the way.
THEOREM SeedsInvariant == Spec => []SeedsInv
<1>1. Init => SeedsInv
  BY InitSeeds DEF SeedsInv
<1> QED
  BY <1>1, NextSeeds, BracketTypes, InductiveInvariant, PTL DEF Spec

\* SeedsMeetLate: in the bracket of GenerateSingleElimination for any number of entries
\* two of the first 2^j seeds meet only when 2^j are left, whichever side wins each
\* match on the way, and as long as no call of RecordMatchScore advances another entry.
THEOREM SeedsKeptApart == Spec => []SeedsMeetLate
<1>1. SeedsInv => SeedsMeetLate
  <2> SUFFICES ASSUME SeedsInv, sidesWin, NEW m \in Matches, NEW j \in 1..Rounds(N),
                      match[m].home \in 1..PowerOf2(j), match[m].away \in 1..PowerOf2(j),
                      ~(m[1] > Rounds(N) - j)
               PROVE  FALSE
    BY DEF SeedsMeetLate
  <2> DEFINE k == Rounds(N) - m[1]
             away == match[m].away
  <2>1. /\ m[1] \in 1..Rounds(N) /\ m[2] \in 1..PowerOf2(k) /\ Rounds(N) \in Nat
        /\ k \in Nat /\ PowerOf2(k) \in Nat
    BY PlaceOfMatch
  <2>2. k >= j /\ k >= 1 /\ j \in Nat /\ k + 1 \in Nat /\ Rounds(N) - m[1] + 1 = k + 1
    BY <2>1
  <2>3. /\ PowerOf2(j) \in Nat /\ PowerOf2(j) <= PowerOf2(k)
        /\ PowerOf2(k + 1) = 2 * PowerOf2(k)
    BY <2>1, <2>2, PowerGrows, PowerSteps
  <2>4. away \in 1..PowerOf2(k + 1) => away = SeedOrder(k + 1)[2 * m[2]]
    BY <2>2, Zenon DEF SeedsInv, GoodRow, WellPlaced
  <2>5. away \in 1..PowerOf2(j)
    OBVIOUS
  <2> HIDE DEF k, away
  <2>6. away \in 1..PowerOf2(k + 1) /\ away <= PowerOf2(k)
    BY <2>1, <2>3, <2>5
  <2>7. 2 * m[2] \in 1..PowerOf2(k + 1) /\ (2 * m[2]) % 2 = 0
    BY <2>1, <2>3
  <2> QED
    BY <2>1, <2>2, <2>4, <2>6, <2>7, StrongerAtHome
<1> QED
  BY <1>1, SeedsInvariant, PTL

\* The types of the stage's tables and of the calls under way.
THEOREM TypeCorrect == Spec => []TypeOK
<1> DEFINE GroupOK == /\ stageType \in {"GROUP_ROUND_ROBIN", "SINGLE_ELIMINATION"}
                      /\ results \in [GroupFixtures -> Results \cup {NotCompleted}]
<1>2. Init => GroupOK
  BY DEF Init
<1>3. GroupOK /\ [Next]_vars => GroupOK'
  BY DEF Next, RecordGroupScore, RecordEliminationScore, vars
<1>4. GroupOK /\ BracketTypeOK => TypeOK
  BY DEF TypeOK
<1> QED
  BY <1>2, <1>3, <1>4, BracketTypes, PTL DEF Spec
-----------------------------------------------------------------------------
(***************************************************************************)
(* The pairings of a group.                                                *)
(***************************************************************************)

\* The teams with the dummy: an even number of them.
LEMMA TeamsShape ==
    ASSUME NEW n \in Nat, n >= 2
    PROVE  \E h \in Nat : /\ h >= 1 /\ Len(Teams(n)) = 2 * h /\ DOMAIN Teams(n) = 1..2 * h
                          /\ n \in {2 * h, 2 * h - 1}
                          /\ \A i \in 1..2 * h : Teams(n)[i] = IF i <= n THEN i ELSE Nobody
<1> DEFINE h == (n + 1) \div 2
           size == IF n % 2 = 1 THEN n + 1 ELSE n
<1>1. h \in Nat /\ h >= 1 /\ size = 2 * h /\ n \in {2 * h, 2 * h - 1} /\ size \in Nat
  OBVIOUS
<1>2. Teams(n) = [i \in 1..size |-> IF i <= n THEN i ELSE Nobody]
  BY DEF Teams
<1> HIDE DEF h, size
<1>3. Teams(n) \in Seq(Nat) /\ Len(Teams(n)) = size
  <2>1. Teams(n) \in [1..size -> Nat]
    BY <1>2 DEF Nobody
  <2> QED
    BY <1>1, <2>1
<1> QED
  BY <1>1, <1>2, <1>3

\* The places of the teams in the first n rounds, starting with t.
IsCircle(f, t, n) == f = [r \in 1..n |-> IF r = 1 THEN t ELSE Rotate(f[r - 1])]

LEMMA CirclesExist == \A n \in Nat : \A t : \E f : IsCircle(f, t, n)
<1> SUFFICES ASSUME NEW t PROVE \A n \in Nat : \E f : IsCircle(f, t, n)
  OBVIOUS
<1> DEFINE T == {n \in Nat : \E f : IsCircle(f, t, n)}
<1>1. 0 \in T
  <2> DEFINE f == [j \in 1..0 |-> 1]
  <2>1. IsCircle(f, t, 0)
    BY DEF IsCircle
  <2> QED
    BY <2>1
<1>2. ASSUME NEW n \in T PROVE n + 1 \in T
  <2>1. n \in Nat /\ n + 1 \in Nat
    OBVIOUS
  <2>2. PICK f : IsCircle(f, t, n)
    OBVIOUS
  <2> DEFINE first == IF n = 0 THEN t ELSE Rotate(f[n])
             g == [j \in 1..n + 1 |-> IF j = n + 1 THEN first ELSE f[j]]
  <2>3. ASSUME NEW j \in 1..n + 1
        PROVE  g[j] = IF j = 1 THEN t ELSE Rotate(g[j - 1])
    <3>1. CASE j = n + 1
      <4>1. n # 0 => j # 1 /\ j - 1 = n /\ n \in 1..n + 1 /\ n # n + 1
        BY <2>1, <3>1
      <4>2. n = 0 => j = 1
        BY <3>1
      <4>3. n # 0 => g[n] = f[n]
        BY <4>1
      <4>4. g[j] = first
        BY <3>1
      <4> QED
        BY <3>1, <4>1, <4>2, <4>3, <4>4
    <3>2. CASE j # n + 1
      <4>1. j \in 1..n /\ (j # 1 => j - 1 \in 1..n + 1 /\ j - 1 # n + 1 /\ j - 1 \in 1..n)
        BY <2>1, <3>2
      <4>2. f[j] = IF j = 1 THEN t ELSE Rotate(f[j - 1])
        BY <2>2, <4>1 DEF IsCircle
      <4>3. g[j] = f[j] /\ (j # 1 => g[j - 1] = f[j - 1])
        BY <3>2, <4>1
      <4> QED
        BY <4>2, <4>3
    <3> QED
      BY <3>1, <3>2
  <2>4. g = [j \in 1..n + 1 |-> g[j]]
    OBVIOUS
  <2> HIDE DEF g
  <2>5. IsCircle(g, t, n + 1)
    BY <2>3, <2>4 DEF IsCircle
  <2> QED
    BY <2>1, <2>5
<1> HIDE DEF T
<1>3. T = Nat
  <2>1. T \in SUBSET Nat
    BY DEF T
  <2> QED
    BY <1>1, <1>2, <2>1, Inductive
<1> QED
  BY <1>3 DEF T

\* The circle by its recursion.
LEMMA CircleSteps ==
    ASSUME NEW n \in Nat
    PROVE  /\ Circle(n)[1] = Teams(n)
           /\ \A r \in 2..n + 1 : Circle(n)[r] = Rotate(Circle(n)[r - 1])
<1> DEFINE f == CHOOSE f : IsCircle(f, Teams(n), n + 1)
<1>1. n + 1 \in Nat /\ 1 \in 1..n + 1 /\ \A r \in 2..n + 1 : r \in 1..n + 1 /\ r # 1
  OBVIOUS
<1>2. IsCircle(f, Teams(n), n + 1)
  BY <1>1, CirclesExist
<1>3. Circle(n) = f
  BY DEF Circle, IsCircle
<1> HIDE DEF f
<1>4. \A r \in 1..n + 1 : f[r] = IF r = 1 THEN Teams(n) ELSE Rotate(f[r - 1])
  BY <1>2, Zenon DEF IsCircle
<1> QED
  BY <1>1, <1>3, <1>4

\* The team that is at place i in round r, of 2h teams: all but the first go round.
TeamAt(h, r, i) ==
    IF i = 1 THEN 1 ELSE IF i - (r - 1) >= 2 THEN i - (r - 1) ELSE i - (r - 1) + (2 * h - 1)

\* Where everybody is, without recursion.
LEMMA CircleAt ==
    ASSUME NEW n \in Nat, n >= 2, NEW h \in Nat, h >= 1,
           Len(Teams(n)) = 2 * h, DOMAIN Teams(n) = 1..2 * h, n \in {2 * h, 2 * h - 1}
    PROVE  \A r \in 1..2 * h - 1 :
              Circle(n)[r] = [i \in 1..2 * h |-> Teams(n)[TeamAt(h, r, i)]]
<1> DEFINE t == Teams(n)
           c == Circle(n)
           Closed(r) == c[r] = [i \in 1..2 * h |-> t[TeamAt(h, r, i)]]
           T == {k \in Nat : k + 1 \in 1..2 * h - 1 => Closed(k + 1)}
<1>1. c[1] = t /\ \A r \in 2..2 * h - 1 : c[r] = Rotate(c[r - 1])
  BY CircleSteps
<1>2. t = [i \in 1..2 * h |-> t[i]]
  BY DEF Teams
<1> HIDE DEF t, c
<1>3. T \in SUBSET Nat /\ 0 \in T
  <2>1. \A i \in 1..2 * h : TeamAt(h, 1, i) = i
    BY DEF TeamAt
  <2>2. Closed(1)
    BY <1>1, <1>2, <2>1
  <2> QED
    BY <2>2
<1>4. ASSUME NEW k \in T PROVE k + 1 \in T
  <2> SUFFICES ASSUME k + 1 + 1 \in 1..2 * h - 1 PROVE Closed(k + 1 + 1)
    OBVIOUS
  <2> DEFINE r == k + 1
             p == c[r]
  <2>1. /\ k \in Nat /\ r \in 1..2 * h - 1 /\ r + 1 \in 2..2 * h - 1
        /\ r \in Nat /\ (r + 1) - 1 = r /\ h >= 2
    OBVIOUS
  <2>2. p = [i \in 1..2 * h |-> t[TeamAt(h, r, i)]]
    BY <2>1
  <2>3. c[r + 1] = Rotate(p)
    BY <1>1, <2>1
  <2> HIDE DEF p, r
  <2>4. DOMAIN p = 1..2 * h /\ Len(p) = 2 * h
    BY <2>2
  <2>5. Rotate(p) = [i \in 1..2 * h |->
            IF i = 1 THEN p[1] ELSE IF i = 2 THEN p[2 * h] ELSE p[i - 1]]
    BY <2>4 DEF Rotate
  <2>6. ASSUME NEW i \in 1..2 * h
        PROVE  (IF i = 1 THEN p[1] ELSE IF i = 2 THEN p[2 * h] ELSE p[i - 1])
                  = t[TeamAt(h, r + 1, i)]
    <3>1. CASE i = 1
      <4>1. p[1] = t[TeamAt(h, r, 1)]
        BY <2>1, <2>2
      <4> QED
        BY <3>1, <4>1 DEF TeamAt
    <3>2. CASE i = 2
      <4>1. p[2 * h] = t[TeamAt(h, r, 2 * h)]
        BY <2>1, <2>2
      <4>2. TeamAt(h, r, 2 * h) = TeamAt(h, r + 1, 2)
        BY <2>1 DEF TeamAt
      <4> QED
        BY <3>2, <4>1, <4>2
    <3>3. CASE i # 1 /\ i # 2
      <4>1. i - 1 \in 1..2 * h /\ i - 1 # 1
        BY <3>3
      <4>2. p[i - 1] = t[TeamAt(h, r, i - 1)]
        BY <2>2, <4>1
      <4>3. TeamAt(h, r, i - 1) = TeamAt(h, r + 1, i)
        BY <2>1, <3>3, <4>1 DEF TeamAt
      <4> QED
        BY <3>3, <4>2, <4>3
    <3> QED
      BY <3>1, <3>2, <3>3
  <2>7. Closed(r + 1)
    BY <2>3, <2>5, <2>6
  <2> QED
    BY <2>7 DEF r
<1>5. T = Nat
  <2> HIDE DEF T
  <2> QED
    BY <1>3, <1>4, Inductive
<1> SUFFICES ASSUME NEW r \in 1..2 * h - 1 PROVE Closed(r)
  BY DEF t, c
<1>6. r - 1 \in Nat /\ (r - 1) + 1 = r
  OBVIOUS
<1>7. r - 1 \in T
  BY <1>5, <1>6
<1> QED
  BY <1>6, <1>7

\* The place of team a in round r.
PlaceOf(h, r, a) ==
    IF a = 1 THEN 1 ELSE IF a + (r - 1) <= 2 * h THEN a + (r - 1)
    ELSE a + (r - 1) - (2 * h - 1)

LEMMA PlaceAndTeam ==
    ASSUME NEW h \in Nat, h >= 1, NEW r \in 1..2 * h - 1, NEW i \in 1..2 * h, NEW a \in 1..2 * h
    PROVE  /\ TeamAt(h, r, i) \in 1..2 * h /\ PlaceOf(h, r, a) \in 1..2 * h
           /\ TeamAt(h, r, i) = a <=> PlaceOf(h, r, a) = i
BY DEF TeamAt, PlaceOf

\* Two teams sit opposite each other in one round: half way between them is an end of
\* the circle then.
LEMMA OppositeOnce ==
    ASSUME NEW h \in Nat, h >= 1, NEW a \in 1..2 * h, NEW b \in 1..2 * h, a < b
    PROVE  /\ \E r \in 1..2 * h - 1 : PlaceOf(h, r, a) + PlaceOf(h, r, b) = 2 * h + 1
           /\ \A r, s \in 1..2 * h - 1 :
                /\ PlaceOf(h, r, a) + PlaceOf(h, r, b) = 2 * h + 1
                /\ PlaceOf(h, s, a) + PlaceOf(h, s, b) = 2 * h + 1
                => r = s
<1>1. \E r \in 1..2 * h - 1 : PlaceOf(h, r, a) + PlaceOf(h, r, b) = 2 * h + 1
  <2>1. CASE a = 1
    <3>1. 2 * h - b + 1 \in 1..2 * h - 1
      BY <2>1
    <3>2. PlaceOf(h, 2 * h - b + 1, a) + PlaceOf(h, 2 * h - b + 1, b) = 2 * h + 1
      BY <2>1 DEF PlaceOf
    <3> QED
      BY <3>1, <3>2
  <2>2. CASE a # 1 /\ (a + b) % 2 = 0
    <3>1. PICK m \in Nat : a + b = 2 * m
      <4>1. a + b = 2 * ((a + b) \div 2) /\ (a + b) \div 2 \in Nat
        BY <2>2
      <4> QED
        BY <4>1
    <3>2. 2 * h - m + 1 \in 1..2 * h - 1
      BY <2>2, <3>1
    <3>3. PlaceOf(h, 2 * h - m + 1, a) + PlaceOf(h, 2 * h - m + 1, b) = 2 * h + 1
      BY <2>2, <3>1, <3>2 DEF PlaceOf
    <3> QED
      BY <3>2, <3>3
  <2>3. CASE a # 1 /\ (a + b) % 2 = 1
    <3>1. PICK m \in Nat : a + b = 2 * m + 1
      <4>1. a + b = 2 * ((a + b) \div 2) + 1 /\ (a + b) \div 2 \in Nat
        BY <2>3
      <4> QED
        BY <4>1
    <3>2. CASE m <= h
      <4>1. h - m + 1 \in 1..2 * h - 1
        BY <2>3, <3>1, <3>2
      <4>2. PlaceOf(h, h - m + 1, a) + PlaceOf(h, h - m + 1, b) = 2 * h + 1
        BY <2>3, <3>1, <3>2, <4>1 DEF PlaceOf
      <4> QED
        BY <4>1, <4>2
    <3>3. CASE m > h
      <4>1. 3 * h - m \in 1..2 * h - 1
        BY <2>3, <3>1, <3>3
      <4>2. PlaceOf(h, 3 * h - m, a) + PlaceOf(h, 3 * h - m, b) = 2 * h + 1
        BY <2>3, <3>1, <3>3, <4>1 DEF PlaceOf
      <4> QED
        BY <4>1, <4>2
    <3> QED
      BY <3>1, <3>2, <3>3
  <2>4. (a + b) % 2 \in {0, 1}
    OBVIOUS
  <2> QED
    BY <2>1, <2>2, <2>3, <2>4
<1>2. ASSUME NEW r \in 1..2 * h - 1, NEW s \in 1..2 * h - 1,
             PlaceOf(h, r, a) + PlaceOf(h, r, b) = 2 * h + 1,
             PlaceOf(h, s, a) + PlaceOf(h, s, b) = 2 * h + 1
      PROVE  r = s
  BY <1>2 DEF PlaceOf
<1> QED
  BY <1>1, <1>2

\* The two teams of a fixture.
Sides(f) == {f.home, f.away}

\* GenerateRoundRobin: any two of n entries meet once, and nobody plays twice in a round.
LEMMA RoundRobinIsFair ==
    ASSUME NEW n \in Nat, n >= 2
    PROVE  /\ \A a, b \in 1..n : a # b => Cardinality(Meetings(RoundRobin(n), a, b)) = 1
           /\ \A f, g \in RoundRobin(n) :
                f # g /\ f.round = g.round => Sides(f) \cap Sides(g) = {}
<1>1. PICK h \in Nat : /\ h >= 1 /\ Len(Teams(n)) = 2 * h /\ DOMAIN Teams(n) = 1..2 * h
                       /\ n \in {2 * h, 2 * h - 1}
                       /\ \A i \in 1..2 * h : Teams(n)[i] = IF i <= n THEN i ELSE Nobody
  BY TeamsShape
<1> DEFINE t == Teams(n)
           rounds == 1..2 * h - 1
           places == 1..h
           Facing(i) == 2 * h + 1 - i
           fix(r, i) == FixtureAt(Circle(n)[r], r, i)
           Team(r, i) == t[TeamAt(h, r, i)]
<1>2. /\ (2 * h) \div 2 = h /\ \A i \in places : i \in 1..2 * h /\ Facing(i) \in 1..2 * h
  BY <1>1
<1>3. /\ h \in Nat /\ h >= 1
       /\ \A r \in rounds, i, a \in 1..2 * h :
            /\ TeamAt(h, r, i) \in 1..2 * h /\ PlaceOf(h, r, a) \in 1..2 * h
            /\ TeamAt(h, r, i) = a <=> PlaceOf(h, r, a) = i
  <2>1. h \in Nat /\ h >= 1
    BY <1>1
  <2> QED
    BY <2>1, PlaceAndTeam
<1>4. \A a \in 1..n : a \in 1..2 * h /\ \A i \in 1..2 * h : t[i] = a <=> i = a
  BY <1>1 DEF Nobody
<1>5. RoundRobin(n) = {f \in {fix(r, i) : r \in rounds, i \in places} :
                        f.home # Nobody /\ f.away # Nobody}
  BY <1>1, <1>2 DEF RoundRobin
<1>6. ASSUME NEW r \in rounds, NEW i \in places
      PROVE  /\ fix(r, i).round = r /\ fix(r, i).place = i
             /\ Sides(fix(r, i)) = {Team(r, i), Team(r, Facing(i))}
  <2>1. Circle(n)[r] = [j \in 1..2 * h |-> t[TeamAt(h, r, j)]]
    BY <1>1, CircleAt
  <2>2. Len(Circle(n)[r]) = 2 * h
    <3>1. \A j \in 1..2 * h : t[TeamAt(h, r, j)] \in Nat
      <4>1. \A j \in 1..2 * h : t[j] \in Nat
        BY <1>1 DEF Nobody
      <4> QED
        BY <1>3, <4>1
    <3>2. Circle(n)[r] \in [1..2 * h -> Nat]
      BY <2>1, <3>1
    <3> QED
      BY <3>2
  <2>3. Circle(n)[r][i] = Team(r, i) /\ Circle(n)[r][Facing(i)] = Team(r, Facing(i))
    BY <1>2, <2>1
  <2> HIDE DEF Team
  <2> QED
    BY <2>2, <2>3 DEF FixtureAt, Sides
<1>7. ASSUME NEW r \in rounds, NEW i \in 1..2 * h, NEW a \in 1..n
      PROVE  Team(r, i) = a <=> i = PlaceOf(h, r, a)
  <2>1. /\ a \in 1..2 * h /\ TeamAt(h, r, i) \in 1..2 * h
        /\ TeamAt(h, r, i) = a <=> PlaceOf(h, r, a) = i
    BY <1>3, <1>4
  <2> QED
    BY <1>4, <2>1
<1>8. ASSUME NEW f \in RoundRobin(n)
      PROVE  \E r \in rounds, i \in places : f = fix(r, i)
  BY <1>5
<1> HIDE DEF t, fix, Team
<1>9. ASSUME NEW a \in 1..n, NEW b \in 1..n, a < b
      PROVE  Cardinality(Meetings(RoundRobin(n), a, b)) = 1
  <2>1. a \in 1..2 * h /\ b \in 1..2 * h
    BY <1>1
  \* The fixture of the round r at the place i is theirs when they sit opposite there.
  <2>2. ASSUME NEW r \in rounds, NEW i \in places
        PROVE  Sides(fix(r, i)) = {a, b} <=> {i, Facing(i)} = {PlaceOf(h, r, a), PlaceOf(h, r, b)}
    <3>1. /\ Team(r, i) = a <=> i = PlaceOf(h, r, a)
          /\ Team(r, i) = b <=> i = PlaceOf(h, r, b)
          /\ Team(r, Facing(i)) = a <=> Facing(i) = PlaceOf(h, r, a)
          /\ Team(r, Facing(i)) = b <=> Facing(i) = PlaceOf(h, r, b)
      BY <1>2, <1>7
    <3>2. Sides(fix(r, i)) = {Team(r, i), Team(r, Facing(i))}
      BY <1>6
    <3>3. a # b
      BY <1>9
    <3>4. PlaceOf(h, r, a) # PlaceOf(h, r, b)
      BY <1>3, <2>1, <2>2, <3>3
    <3> HIDE DEF Facing
    <3> QED
      BY <3>1, <3>2, <3>3, <3>4
  <2>3. PICK r \in rounds : PlaceOf(h, r, a) + PlaceOf(h, r, b) = 2 * h + 1
    BY <1>1, <1>9, <2>1, OppositeOnce
  <2>4. PICK i \in places : {i, Facing(i)} = {PlaceOf(h, r, a), PlaceOf(h, r, b)}
    <3>1. PlaceOf(h, r, a) \in 1..2 * h /\ PlaceOf(h, r, b) \in 1..2 * h
      BY <1>1, <2>1, PlaceAndTeam
    <3>2. \A p, q \in 1..2 * h : p + q = 2 * h + 1 =>
            q = Facing(p) /\ p = Facing(q) /\ (p \in places \/ q \in places)
      BY <1>1
    <3> HIDE DEF Facing, places
    <3> QED
      BY <2>3, <3>1, <3>2
  <2>5. Sides(fix(r, i)) = {a, b}
    BY <2>2, <2>4
  <2>6. fix(r, i) \in RoundRobin(n)
    <3>1. fix(r, i).home \in {a, b} /\ fix(r, i).away \in {a, b}
      BY <2>5 DEF Sides
    <3> QED
      BY <1>5, <3>1 DEF Nobody
  <2>7. ASSUME NEW f \in RoundRobin(n), Sides(f) = {a, b} PROVE f = fix(r, i)
    <3>1. PICK s \in rounds, j \in places : f = fix(s, j)
      BY <1>8
    <3>2. {j, Facing(j)} = {PlaceOf(h, s, a), PlaceOf(h, s, b)}
      BY <2>2, <2>7, <3>1
    <3>3. PlaceOf(h, s, a) + PlaceOf(h, s, b) = 2 * h + 1
      <4>1. j + Facing(j) = 2 * h + 1 /\ Facing(j) + j = 2 * h + 1 /\ j # Facing(j)
        BY <1>1
      <4> HIDE DEF Facing
      <4> QED
        BY <3>2, <4>1
    <3>4. s = r
      BY <1>1, <1>9, <2>1, <2>3, <3>3, OppositeOnce
    <3>5. j = i
      <4>1. {j, Facing(j)} = {i, Facing(i)}
        BY <2>4, <3>2, <3>4
      <4>2. \A p, q \in places : p # Facing(q)
        BY <1>1
      <4> HIDE DEF Facing, places
      <4> QED
        BY <4>1, <4>2
    <3> QED
      BY <3>1, <3>4, <3>5
  <2>8. Meetings(RoundRobin(n), a, b) = {fix(r, i)}
    BY <2>5, <2>6, <2>7 DEF Meetings, Sides
  <2> QED
    BY <2>8, FS_Singleton
<1>10. ASSUME NEW a \in 1..n, NEW b \in 1..n, a # b
      PROVE  Cardinality(Meetings(RoundRobin(n), a, b)) = 1
  <2>1. Meetings(RoundRobin(n), a, b) = Meetings(RoundRobin(n), b, a)
    <3>1. {a, b} = {b, a}
      OBVIOUS
    <3> QED
      BY <3>1, Zenon DEF Meetings
  <2>2. a < b \/ b < a
    BY <1>10
  <2> QED
    BY <1>9, <2>1, <2>2
<1>11. ASSUME NEW f \in RoundRobin(n), NEW g \in RoundRobin(n), f # g, f.round = g.round
      PROVE  Sides(f) \cap Sides(g) = {}
  <2>1. PICK r \in rounds, i \in places : f = fix(r, i)
    BY <1>8
  <2>2. PICK s \in rounds, j \in places : g = fix(s, j)
    BY <1>8
  <2>3. s = r /\ i # j
    BY <1>6, <1>11, <2>1, <2>2
  <2>4. SUFFICES ASSUME NEW a \in Sides(f) \cap Sides(g) PROVE FALSE
    OBVIOUS
  <2>5. a \in 1..n
    <3>1. f.home # Nobody /\ f.away # Nobody
      BY <1>5
    <3>2. PICK p \in 1..2 * h : a = Team(r, p)
      BY <1>2, <1>6, <2>1, <2>4
    <3>3. TeamAt(h, r, p) \in 1..2 * h
      BY <1>1, PlaceAndTeam
    <3>4. a # Nobody
      BY <2>4, <3>1 DEF Sides
    <3> QED
      BY <1>1, <3>2, <3>3, <3>4 DEF Team, t
  <2>6. PlaceOf(h, r, a) \in {i, Facing(i)} /\ PlaceOf(h, r, a) \in {j, Facing(j)}
    <3>1. a \in {Team(r, i), Team(r, Facing(i))} /\ a \in {Team(r, j), Team(r, Facing(j))}
      BY <1>6, <2>1, <2>2, <2>3, <2>4
    <3> QED
      BY <1>2, <1>7, <2>5, <3>1
  <2>7. {i, Facing(i)} \cap {j, Facing(j)} = {}
    BY <1>1, <2>3
  <2> QED
    BY <2>6, <2>7
<1> QED
  BY <1>10, <1>11

\* EveryPairMeetsOnce: the circle method of GenerateRoundRobin, for groups of every size.
THEOREM PairsMeetOnce == Spec => []EveryPairMeetsOnce
<1>1. EveryPairMeetsOnce
  <2>1. ASSUME NEW n \in {GroupSize, GroupSize + 1} PROVE n \in Nat /\ n >= 2
    BY GroupSizeAssumption
  <2> QED
    BY <2>1, RoundRobinIsFair DEF EveryPairMeetsOnce, Sides
<1> QED
  BY <1>1, PTL

-----------------------------------------------------------------------------
(***************************************************************************)
(* The sort of a table, by columns of integers.                            *)
(***************************************************************************)

\* n columns of integers.
IntColumns(columns, n) ==
    /\ n \in Nat /\ DOMAIN columns = 1..n
    /\ \A k \in 1..n, e \in GroupEntries : columns[k][e] \in Int

\* What Before says, without a minimum: the first column that differs, or none does.
Level(columns, n, a, b) == \A k \in 1..n : columns[k][a] = columns[k][b]
Higher(columns, n, a, b) ==
    \E k \in 1..n : /\ columns[k][a] > columns[k][b]
                    /\ \A j \in 1..k - 1 : columns[j][a] = columns[j][b]
Favoured(a, b) == Beat(a, b) \/ (~Beat(b, a) /\ Name[a] < Name[b])

LEMMA AheadByColumns ==
    ASSUME NEW columns, NEW n, IntColumns(columns, n),
           NEW a \in GroupEntries, NEW b \in GroupEntries, NEW otherwise \in BOOLEAN
    PROVE  /\ Ahead(columns, a, b, otherwise) <=>
                \/ Higher(columns, n, a, b)
                \/ Level(columns, n, a, b) /\ otherwise
           /\ Level(columns, n, a, b) \/ Higher(columns, n, a, b) \/ Higher(columns, n, b, a)
<1> DEFINE differ == {k \in DOMAIN columns : columns[k][a] # columns[k][b]}
<1>1. differ \in SUBSET Nat /\ (differ = {} <=> Level(columns, n, a, b))
  BY DEF IntColumns, Level
<1>2. CASE differ = {}
  <2>1. Ahead(columns, a, b, otherwise) <=> otherwise
    BY <1>2 DEF Ahead
  <2>2. ~Higher(columns, n, a, b)
    BY <1>1, <1>2 DEF Level, Higher, IntColumns
  <2> QED
    BY <1>1, <1>2, <2>1, <2>2
<1>3. CASE differ # {}
  <2> DEFINE least == Min(differ)
  <2>1. least \in differ /\ \A k \in differ : least <= k
    <3> HIDE DEF differ
    <3>1. \E k \in differ : \A j \in differ : k <= j
      BY <1>1, <1>3, Smallest
    <3> QED
      BY <3>1 DEF Min
  <2>2. Ahead(columns, a, b, otherwise) <=> columns[least][a] > columns[least][b]
    BY <1>3 DEF Ahead
  <2> HIDE DEF least
  <2>3. /\ least \in 1..n /\ columns[least][a] # columns[least][b]
        /\ columns[least][a] \in Int /\ columns[least][b] \in Int
    BY <2>1 DEF IntColumns
  <2>4. \A j \in 1..least - 1 : columns[j][a] = columns[j][b]
    BY <2>1, <2>3 DEF IntColumns
  <2>5. \A k \in 1..n : columns[k][a] # columns[k][b] => least <= k
    BY <2>1 DEF IntColumns
  <2>6. Higher(columns, n, a, b) <=> columns[least][a] > columns[least][b]
    <3>1. ASSUME Higher(columns, n, a, b) PROVE columns[least][a] > columns[least][b]
      <4>1. PICK k \in 1..n : /\ columns[k][a] > columns[k][b]
                              /\ \A j \in 1..k - 1 : columns[j][a] = columns[j][b]
        BY <3>1 DEF Higher
      <4>2. columns[k][a] \in Int /\ columns[k][b] \in Int /\ columns[k][a] # columns[k][b]
        BY <4>1 DEF IntColumns
      <4>3. least <= k /\ ~(least \in 1..k - 1)
        BY <2>3, <2>5, <4>1, <4>2
      <4>4. least = k
        BY <2>3, <4>3 DEF IntColumns
      <4> QED
        BY <4>1, <4>4
    <3> QED
      BY <2>3, <2>4, <3>1 DEF Higher
  <2>7. columns[least][b] > columns[least][a] => Higher(columns, n, b, a)
    BY <2>3, <2>4 DEF Higher
  <2> QED
    BY <1>1, <1>3, <2>2, <2>3, <2>6, <2>7
<1> QED
  BY <1>2, <1>3

LEMMA BeforeByColumns ==
    ASSUME NEW columns, NEW n, IntColumns(columns, n),
           NEW a \in GroupEntries, NEW b \in GroupEntries
    PROVE  /\ Before(columns, a, b) <=>
                \/ Higher(columns, n, a, b)
                \/ Level(columns, n, a, b) /\ Favoured(a, b)
           /\ Level(columns, n, a, b) \/ Higher(columns, n, a, b) \/ Higher(columns, n, b, a)
<1> DEFINE otherwise == Favoured(a, b)
<1>1. otherwise \in BOOLEAN
  BY DEF Favoured, Beat
<1>2. Before(columns, a, b) <=> Ahead(columns, a, b, otherwise)
  BY DEF Before, Favoured
<1> HIDE DEF otherwise
<1>3. /\ Before(columns, a, b) <=>
            \/ Higher(columns, n, a, b)
            \/ Level(columns, n, a, b) /\ otherwise
      /\ Level(columns, n, a, b) \/ Higher(columns, n, a, b) \/ Higher(columns, n, b, a)
  BY <1>1, <1>2, AheadByColumns
<1> QED
  BY <1>3 DEF otherwise

\* A strict order of the entries, of which any two are in it one way or the other.
StrictOrder(before) ==
    /\ \A a, b \in GroupEntries : a # b => (<<a, b>> \in before <=> <<b, a>> \notin before)
    /\ \A a, b, c \in GroupEntries :
        a # b /\ b # c /\ a # c /\ <<a, b>> \in before /\ <<b, c>> \in before =>
            <<a, c>> \in before

LEMMA HigherIsStrict ==
    ASSUME NEW columns, NEW n, IntColumns(columns, n),
           NEW a \in GroupEntries, NEW b \in GroupEntries, NEW c \in GroupEntries
    PROVE  /\ Higher(columns, n, a, b) => ~Higher(columns, n, b, a) /\ ~Level(columns, n, a, b)
           /\ Higher(columns, n, a, b) /\ Higher(columns, n, b, c) => Higher(columns, n, a, c)
           /\ Level(columns, n, a, b) /\ Higher(columns, n, b, c) => Higher(columns, n, a, c)
           /\ Higher(columns, n, a, b) /\ Level(columns, n, b, c) => Higher(columns, n, a, c)
<1>1. \A k \in 1..n : /\ columns[k][a] \in Int /\ columns[k][b] \in Int
                      /\ columns[k][c] \in Int /\ k \in Int
  BY DEF IntColumns
<1>2. ASSUME Higher(columns, n, a, b)
      PROVE  ~Higher(columns, n, b, a) /\ ~Level(columns, n, a, b)
  <2>1. PICK k \in 1..n : /\ columns[k][a] > columns[k][b]
                          /\ \A j \in 1..k - 1 : columns[j][a] = columns[j][b]
    BY <1>2 DEF Higher
  <2>2. ASSUME NEW l \in 1..n, columns[l][b] > columns[l][a],
               \A j \in 1..l - 1 : columns[j][b] = columns[j][a]
        PROVE  FALSE
    <3>1. l \notin 1..k - 1 /\ k \notin 1..l - 1
      BY <1>1, <2>1, <2>2
    <3>2. l = k
      BY <1>1, <3>1
    <3> QED
      BY <1>1, <2>1, <2>2, <3>2
  <2> QED
    BY <1>1, <2>1, <2>2 DEF Higher, Level
<1>3. ASSUME Higher(columns, n, a, b), Higher(columns, n, b, c) PROVE Higher(columns, n, a, c)
  <2>1. PICK k \in 1..n : /\ columns[k][a] > columns[k][b]
                          /\ \A j \in 1..k - 1 : columns[j][a] = columns[j][b]
    BY <1>3 DEF Higher
  <2>2. PICK l \in 1..n : /\ columns[l][b] > columns[l][c]
                          /\ \A j \in 1..l - 1 : columns[j][b] = columns[j][c]
    BY <1>3 DEF Higher
  <2> DEFINE first == IF k <= l THEN k ELSE l
  <2>3. /\ first \in 1..n /\ first <= k /\ first <= l
        /\ \A j \in 1..first - 1 : j \in 1..k - 1 /\ j \in 1..l - 1
    BY <1>1
  <2>4. \A j \in 1..first - 1 : columns[j][a] = columns[j][c]
    BY <2>1, <2>2, <2>3
  <2>5. columns[first][a] > columns[first][c]
    <3>1. CASE k < l
      <4>1. k \in 1..l - 1
        BY <1>1, <3>1
      <4> QED
        BY <1>1, <2>1, <2>2, <3>1, <4>1
    <3>2. CASE l < k
      <4>1. l \in 1..k - 1
        BY <1>1, <3>2
      <4> QED
        BY <1>1, <2>1, <2>2, <3>2, <4>1
    <3>3. CASE k = l
      BY <1>1, <2>1, <2>2, <3>3
    <3> QED
      BY <1>1, <3>1, <3>2, <3>3
  <2> QED
    BY <2>3, <2>4, <2>5 DEF Higher
<1>4. ASSUME NEW k \in 1..n, NEW j \in 1..k - 1 PROVE j \in 1..n
  BY <1>1 DEF IntColumns
<1>5. Level(columns, n, a, b) /\ Higher(columns, n, b, c) => Higher(columns, n, a, c)
  BY <1>4 DEF Level, Higher
<1>6. Higher(columns, n, a, b) /\ Level(columns, n, b, c) => Higher(columns, n, a, c)
  BY <1>4 DEF Level, Higher
<1> QED
  BY <1>2, <1>3, <1>5, <1>6

-----------------------------------------------------------------------------
ResultsOK == results \in [GroupFixtures -> Results \cup {NotCompleted}]

\* The result of a completed match is one of those recorded: numbers.
LEMMA CompletedIsRecorded ==
    ASSUME ResultsOK, NEW e \in GroupEntries, NEW f \in MatchesOf(e)
    PROVE  /\ f \in GroupFixtures
           /\ Own(e, f) \in Int /\ Other(e, f) \in Int /\ Rally(e, f) \in Int
<1>1. f \in GroupFixtures /\ results[f].completed
  BY DEF MatchesOf
<1>2. results[f] \in Results
  BY <1>1 DEF ResultsOK, NotCompleted
<1>3. results[f].home \in Nat /\ results[f].away \in Nat /\ results[f].rally \in Int
  BY <1>2, ResultsAssumption
<1> QED
  BY <1>1, <1>3 DEF Own, Other, Rally

\* A group has finitely many matches.
LEMMA FixturesFinite == IsFiniteSet(GroupFixtures)
<1>1. PICK h \in Nat : Len(Teams(GroupSize)) = 2 * h
  <2>1. GroupSize \in Nat /\ GroupSize >= 2
    BY GroupSizeAssumption
  <2> QED
    BY <2>1, TeamsShape
<1> DEFINE c == Circle(GroupSize)
           pairs == (1..2 * h - 1) \X (1..h)
           drawn == {FixtureAt(c[r], r, i) : r \in 1..2 * h - 1, i \in 1..h}
           draw == [p \in pairs |-> FixtureAt(c[p[1]], p[1], p[2])]
<1>2. IsFiniteSet(pairs)
  <2>1. 1 \in Int /\ 2 * h - 1 \in Int /\ h \in Int
    OBVIOUS
  <2> QED
    BY <2>1, FS_Interval, FS_Product
<1>3. draw \in Surjection(pairs, drawn)
  <2> HIDE DEF c
  <2>1. \A r \in 1..2 * h - 1, i \in 1..h :
           <<r, i>> \in pairs /\ draw[<<r, i>>] = FixtureAt(c[r], r, i)
    OBVIOUS
  <2>2. draw = [p \in pairs |-> draw[p]] /\ \A p \in pairs : draw[p] \in drawn
    OBVIOUS
  <2>3. \A x \in drawn : \E r \in 1..2 * h - 1, i \in 1..h : x = FixtureAt(c[r], r, i)
    OBVIOUS
  <2> HIDE DEF pairs, drawn, draw
  <2>4. draw \in [pairs -> drawn] /\ \A x \in drawn : \E p \in pairs : draw[p] = x
    <3>1. draw \in [pairs -> drawn]
      BY <2>2
    <3>2. ASSUME NEW x \in drawn PROVE \E p \in pairs : draw[p] = x
      <4>1. PICK r \in 1..2 * h - 1, i \in 1..h : x = FixtureAt(c[r], r, i)
        BY <2>3
      <4>2. <<r, i>> \in pairs /\ draw[<<r, i>>] = x
        BY <2>1, <4>1
      <4> QED
        BY <4>2
    <3> QED
      BY <3>1, <3>2
  <2> QED
    BY <2>4 DEF Surjection
<1>4. IsFiniteSet(drawn)
  <2> HIDE DEF pairs, drawn, draw
  <2> QED
    BY <1>2, <1>3, FS_Surjection
<1>5. GroupFixtures \in SUBSET drawn
  <2>1. (2 * h) \div 2 = h
    OBVIOUS
  <2> QED
    BY <1>1, <2>1 DEF GroupFixtures, RoundRobin
<1> QED
  BY <1>4, <1>5, FS_Subset

\* Two entries meet once, so they cannot both have beaten the other.
LEMMA BeatsOneWay ==
    ASSUME ResultsOK, NEW a \in GroupEntries, NEW b \in GroupEntries, a # b, Beat(a, b)
    PROVE  ~Beat(b, a)
<1> SUFFICES ASSUME Beat(b, a) PROVE FALSE
  OBVIOUS
<1>1. PICK f \in MatchesOf(a) \cap MatchesOf(b) : Own(a, f) > Own(b, f)
  BY DEF Beat
<1>2. PICK g \in MatchesOf(a) \cap MatchesOf(b) : Own(b, g) > Own(a, g)
  BY DEF Beat
<1>3. f = g
  <2> DEFINE met == Meetings(GroupFixtures, a, b)
  <2>1. GroupSize \in Nat /\ GroupSize >= 2 /\ a \in 1..GroupSize /\ b \in 1..GroupSize
    BY GroupSizeAssumption DEF GroupEntries
  <2>2. Cardinality(met) = 1
    BY <2>1, RoundRobinIsFair DEF GroupFixtures
  <2>3. f \in met /\ g \in met
    BY <1>1, <1>2 DEF MatchesOf, Meetings
  <2>4. IsFiniteSet(met)
    <3>1. met \in SUBSET GroupFixtures
      BY DEF Meetings
    <3> HIDE DEF met
    <3> QED
      BY <3>1, FixturesFinite, FS_Subset
  <2> HIDE DEF met
  <2>5. PICK x : met = {x}
    BY <2>2, <2>4, FS_Singleton
  <2> QED
    BY <2>3, <2>5
<1>4. Own(a, f) \in Int /\ Own(b, f) \in Int
  BY <1>1, CompletedIsRecorded
<1> QED
  BY <1>1, <1>2, <1>3, <1>4

\* A name has a place in the alphabet.
LEMMA NameIsInt == \A e \in GroupEntries : Name[e] \in Int
  BY NamesAssumption DEF GroupEntries

\* Unless three entries are level, or two of one name, Before is a strict order.
LEMMA BeforeIsStrict ==
    ASSUME ResultsOK, NEW columns, NEW n, IntColumns(columns, n),
           NoThreeLevel(columns), NoTwins(columns)
    PROVE  StrictOrder(Ranking(columns))
<1>1. ASSUME NEW a \in GroupEntries, NEW b \in GroupEntries, a # b, Level(columns, n, a, b)
      PROVE  Favoured(a, b) <=> ~Favoured(b, a)
  <2>1. Name[a] \in Int /\ Name[b] \in Int
    BY NameIsInt
  <2>2. \A k \in DOMAIN columns : columns[k][a] = columns[k][b]
    BY <1>1 DEF Level, IntColumns
  <2>3. Name[a] # Name[b] \/ Beat(a, b) \/ Beat(b, a)
    BY <1>1, <2>2 DEF NoTwins
  <2>4. Beat(a, b) => ~Beat(b, a)
    BY <1>1, BeatsOneWay
  <2> QED
    BY <2>1, <2>3, <2>4 DEF Favoured
<1>2. ASSUME NEW a \in GroupEntries, NEW b \in GroupEntries
      PROVE  Level(columns, n, a, b) <=> Level(columns, n, b, a)
  BY DEF Level
<1>3. ASSUME NEW a \in GroupEntries, NEW b \in GroupEntries, NEW c \in GroupEntries,
             a # b, b # c, a # c, Level(columns, n, a, b), Level(columns, n, b, c)
      PROVE  FALSE
  <2> DEFINE three == {a, b, c}
  <2>1. three \in SUBSET GroupEntries /\ Cardinality(three) = 3
    <3>1. IsFiniteSet({a, b}) /\ Cardinality({a, b}) = 2
      <4>1. {a, b} = {a} \cup {b} /\ b \notin {a}
        BY <1>3
      <4>2. IsFiniteSet({a}) /\ Cardinality({a}) = 1
        BY FS_Singleton
      <4>3. IsFiniteSet({a} \cup {b}) /\ Cardinality({a} \cup {b}) = Cardinality({a}) + 1
        BY <4>1, <4>2, FS_AddElement
      <4> QED
        BY <4>1, <4>2, <4>3
    <3>2. three = {a, b} \cup {c} /\ c \notin {a, b}
      BY <1>3
    <3>3. Cardinality(three) = Cardinality({a, b}) + 1
      BY <3>1, <3>2, FS_AddElement
    <3> QED
      BY <3>1, <3>3
  <2>2. \A k \in DOMAIN columns, x, y \in three : columns[k][x] = columns[k][y]
    BY <1>3 DEF Level, IntColumns
  <2> HIDE DEF three
  <2> QED
    BY <2>1, <2>2 DEF NoThreeLevel
<1>4. ASSUME NEW a \in GroupEntries, NEW b \in GroupEntries, a # b
      PROVE  Before(columns, a, b) <=> ~Before(columns, b, a)
  BY <1>1, <1>2, <1>4, BeforeByColumns, HigherIsStrict
<1>5. ASSUME NEW a \in GroupEntries, NEW b \in GroupEntries, NEW c \in GroupEntries,
             a # b, b # c, a # c, Before(columns, a, b), Before(columns, b, c)
      PROVE  Before(columns, a, c)
  <2>1. /\ Higher(columns, n, a, b) \/ Level(columns, n, a, b)
        /\ Higher(columns, n, b, c) \/ Level(columns, n, b, c)
    BY <1>5, BeforeByColumns
  <2>2. Higher(columns, n, a, c)
    BY <1>3, <1>5, <2>1, HigherIsStrict
  <2> QED
    BY <2>2, BeforeByColumns
<1> QED
  BY <1>4, <1>5 DEF StrictOrder, Ranking

-----------------------------------------------------------------------------
\* k different entries, of which each goes before the later ones.
IsTable(before, t, k) ==
    /\ t \in [1..k -> GroupEntries]
    /\ \A i, j \in 1..k : i < j => t[i] # t[j] /\ <<t[i], t[j]>> \in before

\* A sort by before leaves of two rows the one above that below allows there: below has
\* every pair of before, one of a pair that before leaves undecided, and is transitive.
SortsInto(before, below) ==
    /\ \A a, b \in GroupEntries : a # b =>
        /\ <<a, b>> \in before => <<a, b>> \in below
        /\ <<b, a>> \notin before => <<a, b>> \in below
    /\ \A a, b, c \in GroupEntries :
        a # b /\ b # c /\ a # c /\ <<a, b>> \in below /\ <<b, c>> \in below =>
            <<a, c>> \in below

\* The m members of S, each once.
IsRows(g, m, S) ==
    /\ m \in Nat /\ g \in [1..m -> S]
    /\ \A i, j \in 1..m : g[i] = g[j] => i = j
    /\ \A e \in S : \E i \in 1..m : g[i] = e

LEMMA RowsCount ==
    ASSUME NEW S, NEW m, NEW g, IsRows(g, m, S)
    PROVE  /\ IsFiniteSet(S) /\ Cardinality(S) = m
           /\ g \in Seq(S) /\ Len(g) = m /\ DOMAIN g = 1..m
<1>1. m \in Nat /\ g \in [1..m -> S]
  BY DEF IsRows
<1>2. g \in Bijection(1..m, S)
  BY DEF IsRows, Bijection, Injection, Surjection, IsInjective
<1>3. IsFiniteSet(1..m) /\ Cardinality(1..m) = m
  BY <1>1, FS_Interval
<1>4. IsFiniteSet(S) /\ Cardinality(S) = m
  BY <1>2, <1>3, FS_Bijection DEF ExistsBijection
<1> QED
  BY <1>1, <1>4

\* As many different members of S as it has are all of them.
LEMMA RowsOfAll ==
    ASSUME NEW S, IsFiniteSet(S), NEW t \in [1..Cardinality(S) -> S],
           \A i, j \in 1..Cardinality(S) : t[i] = t[j] => i = j
    PROVE  IsRows(t, Cardinality(S), S)
<1> DEFINE m == Cardinality(S)
<1>1. m \in Nat
  BY FS_CardinalityType
<1>2. IsFiniteSet(1..m) /\ Cardinality(1..m) = m
  BY <1>1, FS_Interval
<1>3. t \in Injection(1..m, S)
  BY DEF Injection, IsInjective
<1>4. t \in Surjection(1..m, S)
  BY <1>2, <1>3, FS_Injection
<1> QED
  BY <1>1, <1>4 DEF IsRows, Surjection

\* Two tables of the same entries are the same: neither can be the first to have a
\* different entry at a place.
LEMMA TablesAgree ==
    ASSUME NEW S \in SUBSET GroupEntries, NEW n,
           NEW before, \A a, b \in S : a # b /\ <<a, b>> \in before => <<b, a>> \notin before,
           NEW t, IsTable(before, t, n), IsRows(t, n, S),
           NEW u, IsTable(before, u, n), IsRows(u, n, S)
    PROVE  t = u
<1> DEFINE T == {k \in 1..n : t[k] # u[k]}
<1>1. n \in Nat /\ t \in [1..n -> S] /\ u \in [1..n -> S]
  BY DEF IsRows
<1> SUFFICES ASSUME t # u PROVE FALSE
  OBVIOUS
<1>2. T # {}
  <2>1. t = [i \in 1..n |-> t[i]] /\ u = [i \in 1..n |-> u[i]]
    BY <1>1
  <2> QED
    BY <2>1
<1>3. PICK k \in T : \A j \in T : k <= j
  <2>1. T \in SUBSET Nat
    BY <1>1
  <2> HIDE DEF T
  <2> QED
    BY <1>2, <2>1, Smallest
<1>4. /\ k \in 1..n /\ t[k] # u[k] /\ t[k] \in S /\ u[k] \in S
      /\ \A i \in 1..n : i < k => t[i] = u[i]
  BY <1>1, <1>3
<1>5. \A e \in S : (\E i \in 1..n : t[i] = e) /\ (\E i \in 1..n : u[i] = e)
  BY DEF IsRows
<1>6. PICK i \in 1..n : t[i] = u[k]
  BY <1>4, <1>5
<1>7. PICK j \in 1..n : u[j] = t[k]
  BY <1>4, <1>5
<1>8. ASSUME NEW x \in 1..n, NEW y \in 1..n, x # y PROVE t[x] # t[y] /\ u[x] # u[y]
  BY <1>8 DEF IsRows
<1>9. k < i /\ k < j
  <2>1. ~(i < k) /\ ~(j < k)
    <3>1. i < k => u[i] = u[k] /\ i # k
      BY <1>1, <1>4, <1>6
    <3>2. j < k => t[j] = t[k] /\ j # k
      BY <1>1, <1>4, <1>7
    <3> QED
      BY <1>4, <1>8, <3>1, <3>2
  <2>2. i # k /\ j # k
    BY <1>4, <1>6, <1>7
  <2> QED
    BY <1>1, <1>4, <2>1, <2>2
<1>10. <<t[k], u[k]>> \in before /\ <<u[k], t[k]>> \in before
  BY <1>4, <1>6, <1>7, <1>9 DEF IsTable
<1> QED
  BY <1>4, <1>10

\* The rows of s that a new one goes after, and the place it is given.
NotAfter(before, s, x) == {k \in DOMAIN s : <<x, s[k]>> \notin before}
PlaceFor(before, s, x) == 1 + Max({0} \cup NotAfter(before, s, x))

LEMMA PlaceForRow ==
    ASSUME NEW before, NEW k \in Nat, NEW s, DOMAIN s = 1..k, NEW x
    PROVE  LET p == PlaceFor(before, s, x)
           IN  /\ p \in 1..k + 1
               /\ p > 1 => <<x, s[p - 1]>> \notin before
               /\ \A i \in 1..k : i >= p => <<x, s[i]>> \in before
<1> DEFINE S == {0} \cup NotAfter(before, s, x)
           Below == {k - i : i \in S}
<1>1. S \in SUBSET (0..k) /\ 0 \in S
  BY DEF NotAfter
<1>2. \E m \in S : \A i \in S : m >= i
  <2> HIDE DEF S
  <2>1. Below \in SUBSET Nat /\ Below # {}
    BY <1>1
  <2>2. PICK b \in Below : \A c \in Below : b <= c
    <3> HIDE DEF Below
    <3> QED
      BY <2>1, Smallest
  <2>3. PICK m \in S : b = k - m
    OBVIOUS
  <2>4. ASSUME NEW i \in S PROVE m >= i
    <3>1. m \in Int /\ i \in Int
      BY <1>1
    <3>2. k - i \in Below
      OBVIOUS
    <3>3. k - m <= k - i
      BY <2>2, <2>3, <3>2
    <3> QED
      BY <3>1, <3>3
  <2> QED
    BY <2>4
<1> DEFINE most == Max(S)
<1>3. most \in S /\ \A i \in S : most >= i
  <2> HIDE DEF S
  <2> QED
    BY <1>2 DEF Max
<1>4. PlaceFor(before, s, x) = 1 + most
  BY DEF PlaceFor
<1> HIDE DEF most
<1>5. most \in 0..k /\ (most > 0 => <<x, s[most]>> \notin before)
  BY <1>1, <1>3 DEF NotAfter
<1>6. ASSUME NEW i \in 1..k, i >= 1 + most PROVE <<x, s[i]>> \in before
  <2>1. ~(most >= i)
    BY <1>5, <1>6
  <2>2. i \notin S
    BY <1>3, <2>1
  <2> QED
    BY <2>2 DEF NotAfter
<1> QED
  BY <1>4, <1>5, <1>6

\* The rows of s with x at the place p.
Inserted(s, k, p, x) ==
    [i \in 1..k + 1 |-> IF i < p THEN s[i] ELSE IF i = p THEN x ELSE s[i - 1]]

LEMMA InsertAtPlace ==
    ASSUME NEW k \in Nat, NEW s \in [1..k -> GroupEntries], NEW x \in GroupEntries,
           NEW p \in 1..k + 1
    PROVE  InsertAt(s, p, x) = Inserted(s, k, p, x)
<1>1. s \in Seq(GroupEntries) /\ Len(s) = k
  OBVIOUS
<1> DEFINE head == SubSeq(s, 1, p - 1)
           tail == SubSeq(s, p, k)
<1>2. /\ head \in Seq(GroupEntries) /\ Len(head) = p - 1
      /\ \A i \in 1..p - 1 : head[i] = s[i]
  BY <1>1
<1>3. /\ tail \in Seq(GroupEntries) /\ Len(tail) = k - p + 1
      /\ \A i \in 1..k - p + 1 : tail[i] = s[p + i - 1]
  BY <1>1
<1> HIDE DEF head, tail
<1> DEFINE front == head \o <<x>>
<1>4. /\ front \in Seq(GroupEntries) /\ Len(front) = p
      /\ \A i \in 1..p : front[i] = IF i < p THEN s[i] ELSE x
  BY <1>2
<1> HIDE DEF front
<1> DEFINE all == front \o tail
<1>5. /\ all \in Seq(GroupEntries) /\ Len(all) = k + 1
      /\ \A i \in 1..k + 1 : all[i] = IF i <= p THEN front[i] ELSE tail[i - p]
  <2>1. all \in Seq(GroupEntries) /\ Len(all) = Len(front) + Len(tail)
    BY <1>3, <1>4
  <2>2. Len(all) = k + 1
    BY <1>3, <1>4, <2>1
  <2>3. ASSUME NEW i \in 1..k + 1
        PROVE  all[i] = IF i <= Len(front) THEN front[i] ELSE tail[i - Len(front)]
    BY <1>3, <1>4, <2>1, <2>2
  <2> QED
    BY <1>4, <2>1, <2>2, <2>3
<1>6. InsertAt(s, p, x) = all
  BY <1>1 DEF InsertAt, front, head, tail
<1> HIDE DEF all
<1>7. ASSUME NEW i \in 1..k + 1
      PROVE  all[i] = IF i < p THEN s[i] ELSE IF i = p THEN x ELSE s[i - 1]
  <2>1. CASE i <= p
    BY <1>4, <1>5, <2>1
  <2>2. CASE ~(i <= p)
    <3>1. i - p \in 1..k - p + 1 /\ p + (i - p) - 1 = i - 1
      BY <2>2
    <3>2. tail[i - p] = s[i - 1]
      BY <1>3, <3>1
    <3> QED
      BY <1>5, <2>2, <3>2
  <2> QED
    BY <2>1, <2>2
<1>8. all = [i \in 1..k + 1 |-> all[i]]
  BY <1>5
<1> QED
  BY <1>6, <1>7, <1>8 DEF Inserted

\* A row that goes into a table in its place leaves a table.
LEMMA InsertKeepsTable ==
    ASSUME NEW before, NEW below, SortsInto(before, below),
           NEW k \in Nat, NEW s, IsTable(below, s, k),
           NEW x \in GroupEntries, \A i \in 1..k : s[i] # x
    PROVE  LET t == InsertAt(s, PlaceFor(before, s, x), x)
           IN  /\ IsTable(below, t, k + 1)
               /\ \A i \in 1..k + 1 : t[i] = x \/ \E j \in 1..k : t[i] = s[j]
<1> DEFINE p == PlaceFor(before, s, x)
           t == Inserted(s, k, p, x)
<1>1. s \in [1..k -> GroupEntries] /\ DOMAIN s = 1..k
  BY DEF IsTable
<1>2. /\ p \in 1..k + 1
      /\ p > 1 => <<x, s[p - 1]>> \notin before
      /\ \A i \in 1..k : i >= p => <<x, s[i]>> \in before
  BY <1>1, PlaceForRow
<1>3. InsertAt(s, p, x) = t
  <2> HIDE DEF p
  <2> QED
    BY <1>1, <1>2, InsertAtPlace
<1> HIDE DEF p
<1>4. ASSUME NEW i \in 1..k + 1
      PROVE  /\ i < p => i \in 1..k /\ t[i] = s[i]
             /\ i = p => t[i] = x
             /\ i > p => i - 1 \in 1..k /\ i - 1 >= p /\ t[i] = s[i - 1]
  BY <1>2 DEF Inserted
<1>5. t = [i \in 1..k + 1 |-> t[i]]
  BY DEF Inserted
<1> HIDE DEF t
<1>6. ASSUME NEW i \in 1..k + 1
      PROVE  t[i] \in GroupEntries /\ (t[i] = x \/ \E j \in 1..k : t[i] = s[j])
  BY <1>1, <1>2, <1>4
<1>7. ASSUME NEW i \in 1..k, i < p PROVE <<s[i], x>> \in below
  <2>1. p > 1 /\ p - 1 \in 1..k /\ i <= p - 1
    BY <1>2, <1>7
  <2>2. <<s[p - 1], x>> \in below
    <3>1. s[p - 1] \in GroupEntries /\ s[p - 1] # x /\ <<x, s[p - 1]>> \notin before
      BY <1>1, <1>2, <2>1
    <3> QED
      BY <3>1 DEF SortsInto
  <2>3. CASE i = p - 1
    BY <2>2, <2>3
  <2>4. CASE i < p - 1
    <3>1. s[i] # s[p - 1] /\ <<s[i], s[p - 1]>> \in below
      BY <2>1, <2>4 DEF IsTable
    <3>2. s[i] \in GroupEntries /\ s[p - 1] \in GroupEntries /\ s[i] # x /\ s[p - 1] # x
      BY <1>1, <2>1
    <3> QED
      BY <2>2, <3>1, <3>2 DEF SortsInto
  <2> QED
    BY <1>2, <2>1, <2>3, <2>4
<1>8. ASSUME NEW i \in 1..k + 1, NEW j \in 1..k + 1, i < j
      PROVE  t[i] # t[j] /\ <<t[i], t[j]>> \in below
  <2>1. ASSUME NEW a \in 1..k, NEW b \in 1..k, a < b
        PROVE  s[a] # s[b] /\ <<s[a], s[b]>> \in below
    BY <2>1 DEF IsTable
  <2>2. CASE j < p
    <3>1. i \in 1..k /\ j \in 1..k /\ t[i] = s[i] /\ t[j] = s[j]
      BY <1>2, <1>4, <1>8, <2>2
    <3> QED
      BY <1>8, <2>1, <3>1
  <2>3. CASE j = p
    <3>1. i \in 1..k /\ i < p /\ t[i] = s[i] /\ t[j] = x
      BY <1>2, <1>4, <1>8, <2>3
    <3> QED
      BY <1>7, <3>1
  <2>4. CASE j > p /\ i < p
    <3>1. /\ i \in 1..k /\ j - 1 \in 1..k /\ i < j - 1
          /\ t[i] = s[i] /\ t[j] = s[j - 1]
      BY <1>2, <1>4, <2>4
    <3> QED
      BY <2>1, <3>1
  <2>5. CASE i = p
    <3>1. j - 1 \in 1..k /\ j - 1 >= p /\ t[j] = s[j - 1] /\ t[i] = x
      BY <1>2, <1>4, <1>8, <2>5
    <3>2. s[j - 1] \in GroupEntries /\ s[j - 1] # x /\ <<x, s[j - 1]>> \in before
      BY <1>1, <1>2, <3>1
    <3>3. <<x, s[j - 1]>> \in below
      BY <3>2 DEF SortsInto
    <3> QED
      BY <3>1, <3>2, <3>3
  <2>6. CASE i > p
    <3>1. /\ i - 1 \in 1..k /\ j - 1 \in 1..k /\ i - 1 < j - 1
          /\ t[i] = s[i - 1] /\ t[j] = s[j - 1]
      BY <1>2, <1>4, <1>8, <2>6
    <3> QED
      BY <2>1, <3>1
  <2> QED
    BY <1>2, <2>2, <2>3, <2>4, <2>5, <2>6
<1>9. IsTable(below, t, k + 1)
  BY <1>5, <1>6, <1>8 DEF IsTable
<1> QED
  BY <1>3, <1>6, <1>9 DEF p

-----------------------------------------------------------------------------
\* The rows that Sort has sorted after each of the first n steps.
InsertBy(before, s, x) == InsertAt(s, PlaceFor(before, s, x), x)
IsSorting(f, before, order, n) ==
    f = [k \in 0..n |-> IF k = 0 THEN <<>> ELSE InsertBy(before, f[k - 1], order[k])]

LEMMA SortingsExist ==
    ASSUME NEW before, NEW order
    PROVE  \A n \in Nat : \E f : IsSorting(f, before, order, n)
<1> DEFINE T == {n \in Nat : \E f : IsSorting(f, before, order, n)}
<1>1. 0 \in T
  <2> DEFINE f == [k \in 0..0 |-> <<>>]
  <2>1. IsSorting(f, before, order, 0)
    BY DEF IsSorting
  <2> QED
    BY <2>1
<1>2. ASSUME NEW n \in T PROVE n + 1 \in T
  <2>1. n \in Nat /\ n + 1 \in Nat
    OBVIOUS
  <2>2. PICK f : IsSorting(f, before, order, n)
    OBVIOUS
  <2> DEFINE g == [k \in 0..n + 1 |-> IF k = n + 1 THEN InsertBy(before, f[n], order[n + 1])
                                      ELSE f[k]]
  <2>3. ASSUME NEW k \in 0..n + 1
        PROVE  g[k] = IF k = 0 THEN <<>> ELSE InsertBy(before, g[k - 1], order[k])
    <3>1. CASE k = n + 1
      <4>1. k # 0 /\ k - 1 = n /\ n \in 0..n + 1 /\ n # n + 1
        BY <2>1, <3>1
      <4>2. g[n] = f[n] /\ g[k] = InsertBy(before, f[n], order[k])
        BY <3>1, <4>1
      <4> QED
        BY <4>1, <4>2
    <3>2. CASE k # n + 1
      <4>1. k \in 0..n /\ (k # 0 => k - 1 \in 0..n + 1 /\ k - 1 # n + 1 /\ k - 1 \in 0..n)
        BY <2>1, <3>2
      <4>2. f[k] = IF k = 0 THEN <<>> ELSE InsertBy(before, f[k - 1], order[k])
        BY <2>2, <4>1 DEF IsSorting
      <4>3. g[k] = f[k] /\ (k # 0 => g[k - 1] = f[k - 1])
        BY <3>2, <4>1
      <4> QED
        BY <4>2, <4>3
    <3> QED
      BY <3>1, <3>2
  <2>4. g = [k \in 0..n + 1 |-> g[k]]
    OBVIOUS
  <2> HIDE DEF g
  <2>5. IsSorting(g, before, order, n + 1)
    BY <2>3, <2>4 DEF IsSorting
  <2> QED
    BY <2>1, <2>5
<1> HIDE DEF T
<1>3. T = Nat
  <2>1. T \in SUBSET Nat
    BY DEF T
  <2> QED
    BY <1>1, <1>2, <2>1, Inductive
<1> QED
  BY <1>3 DEF T

\* Whatever rows it is given, Sort answers a table of them.
LEMMA SortMakesTable ==
    ASSUME NEW before, NEW below, SortsInto(before, below),
           NEW S \in SUBSET GroupEntries, NEW n, NEW order, IsRows(order, n, S)
    PROVE  IsTable(below, Sort(order, before), n) /\ IsRows(Sort(order, before), n, S)
<1> DEFINE f == CHOOSE f : IsSorting(f, before, order, n)
<1>1. /\ n \in Nat /\ order \in [1..n -> S] /\ Len(order) = n
      /\ IsFiniteSet(S) /\ Cardinality(S) = n
  <2>1. n \in Nat /\ order \in [1..n -> S]
    BY DEF IsRows
  <2> QED
    BY <2>1, RowsCount
<1>2. IsSorting(f, before, order, n)
  BY <1>1, SortingsExist
<1>3. Sort(order, before) = f[n]
  BY <1>1 DEF Sort, Insert, IsSorting, InsertBy, PlaceFor, NotAfter
<1> HIDE DEF f
<1>4. \A k \in 0..n : f[k] = IF k = 0 THEN <<>> ELSE InsertBy(before, f[k - 1], order[k])
  BY <1>2, Zenon DEF IsSorting
<1> DEFINE Sorted(k) == /\ IsTable(below, f[k], k)
                        /\ \A i \in 1..k : \E j \in 1..k : f[k][i] = order[j]
           T == {k \in Nat : k <= n => Sorted(k)}
<1>5. 0 \in T
  <2>1. f[0] = <<>>
    BY <1>1, <1>4
  <2>2. 1..0 = {} /\ <<>> \in [{} -> GroupEntries]
    OBVIOUS
  <2>3. IsTable(below, <<>>, 0)
    BY <2>2 DEF IsTable
  <2> QED
    BY <2>1, <2>2, <2>3
<1>6. ASSUME NEW k \in T PROVE k + 1 \in T
  <2> SUFFICES ASSUME k + 1 <= n PROVE Sorted(k + 1)
    OBVIOUS
  <2>1. k \in Nat /\ k <= n /\ k + 1 \in 1..n /\ k + 1 \in 0..n /\ k + 1 # 0 /\ k + 1 - 1 = k
    BY <1>1
  <2>2. Sorted(k)
    BY <2>1
  <2> DEFINE x == order[k + 1]
  <2>3. f[k + 1] = InsertAt(f[k], PlaceFor(before, f[k], x), x)
    <3>1. f[k + 1] = InsertBy(before, f[k + 1 - 1], order[k + 1])
      BY <1>4, <2>1
    <3> QED
      BY <2>1, <3>1, Zenon DEF InsertBy
  <2>4. x \in GroupEntries /\ \A i \in 1..k : f[k][i] # x
    <3>1. \A j \in 1..k : order[j] # x
      BY <1>1, <2>1 DEF IsRows
    <3> QED
      BY <1>1, <2>1, <2>2, <3>1
  <2> HIDE DEF x
  <2>5. /\ IsTable(below, f[k + 1], k + 1)
        /\ \A i \in 1..k + 1 : f[k + 1][i] = x \/ \E j \in 1..k : f[k + 1][i] = f[k][j]
    BY <2>1, <2>2, <2>3, <2>4, InsertKeepsTable
  <2>6. ASSUME NEW i \in 1..k + 1 PROVE \E j \in 1..k + 1 : f[k + 1][i] = order[j]
    <3>1. k + 1 \in 1..k + 1 /\ \A j \in 1..k : j \in 1..k + 1
      BY <2>1
    <3> QED
      BY <2>2, <2>5, <3>1 DEF x
  <2> QED
    BY <2>5, <2>6
<1>7. T = Nat
  <2>1. T \in SUBSET Nat
    OBVIOUS
  <2> HIDE DEF T
  <2> QED
    BY <1>5, <1>6, <2>1, Inductive
<1>8. Sorted(n)
  BY <1>1, <1>7
<1>9. f[n] \in [1..n -> S] /\ \A i, j \in 1..n : f[n][i] = f[n][j] => i = j
  <2>1. f[n] = [i \in 1..n |-> f[n][i]]
    BY <1>8 DEF IsTable
  <2>2. \A i \in 1..n : f[n][i] \in S
    BY <1>1, <1>8
  <2>3. \A i, j \in 1..n : i < j => f[n][i] # f[n][j]
    BY <1>8 DEF IsTable
  <2>4. \A i, j \in 1..n : i # j => i < j \/ j < i
    BY <1>1
  <2>5. \A i, j \in 1..n : f[n][i] = f[n][j] => i = j
    BY <2>3, <2>4
  <2>6. f[n] \in [1..n -> S]
    BY <2>1, <2>2
  <2> QED
    BY <2>5, <2>6
<1>10. IsRows(f[n], n, S)
  BY <1>1, <1>9, RowsOfAll
<1> QED
  BY <1>3, <1>8, <1>10

LEMMA OrderIsRows == ASSUME NEW o \in Orders PROVE IsRows(o, GroupSize, GroupEntries)
<1>1. GroupSize \in Nat /\ GroupEntries = 1..GroupSize
  BY GroupSizeAssumption DEF GroupEntries
<1>2. IsFiniteSet(GroupEntries) /\ Cardinality(GroupEntries) = GroupSize
  BY <1>1, FS_Interval
<1>3. /\ o \in [1..GroupSize -> GroupEntries]
      /\ \A i, j \in 1..GroupSize : o[i] = o[j] => i = j
  BY <1>1 DEF Orders
<1> QED
  BY <1>2, <1>3, RowsOfAll

\* All orders of the rows give one table.
LEMMA OneTable ==
    ASSUME NEW before, StrictOrder(before)
    PROVE  Cardinality({Sort(o, before) : o \in Orders}) = 1
<1> DEFINE tables == {Sort(o, before) : o \in Orders}
<1>1. AnOrder \in Orders
  BY DEF AnOrder, Orders
<1>2. \A a, b \in GroupEntries : a # b /\ <<a, b>> \in before => <<b, a>> \notin before
  BY DEF StrictOrder
<1>3. ASSUME NEW o \in Orders
      PROVE  /\ IsTable(before, Sort(o, before), GroupSize)
             /\ IsRows(Sort(o, before), GroupSize, GroupEntries)
  <2>1. IsRows(o, GroupSize, GroupEntries)
    BY OrderIsRows
  <2>2. SortsInto(before, before)
    BY DEF SortsInto, StrictOrder
  <2> QED
    BY <2>1, <2>2, SortMakesTable
<1>4. \A o \in Orders : Sort(o, before) = Sort(AnOrder, before)
  BY <1>1, <1>2, <1>3, TablesAgree
<1>5. tables = {Sort(AnOrder, before)}
  BY <1>1, <1>4
<1> QED
  BY <1>5, FS_Singleton

-----------------------------------------------------------------------------
(***************************************************************************)
(* The columns are integers.                                               *)
(***************************************************************************)

\* The sum of g over each subset of S.
IsSum(sum, S, g) ==
    sum = [s \in SUBSET S |-> IF s = {} THEN 0
                              ELSE g[CHOOSE x \in s : TRUE] + sum[s \ {CHOOSE x \in s : TRUE}]]

\* The same of the subsets of at most n members.
SumsTo(sum, S, g, n) ==
    \A s \in SUBSET S : Cardinality(s) <= n =>
        sum[s] = IF s = {} THEN 0
                 ELSE g[CHOOSE x \in s : TRUE] + sum[s \ {CHOOSE x \in s : TRUE}]

LEMMA OneFewer ==
    ASSUME NEW S, IsFiniteSet(S), NEW s \in SUBSET S, s # {}
    PROVE  LET x == CHOOSE x \in s : TRUE
           IN  /\ x \in s /\ s \ {x} \in SUBSET S
               /\ Cardinality(s) \in Nat /\ Cardinality(s \ {x}) = Cardinality(s) - 1
<1> DEFINE x == CHOOSE x \in s : TRUE
<1>1. x \in s
  OBVIOUS
<1> HIDE DEF x
<1>2. IsFiniteSet(s)
  BY FS_Subset
<1>3. Cardinality(s) \in Nat /\ Cardinality(s \ {x}) = Cardinality(s) - 1
  BY <1>1, <1>2, FS_CardinalityType, FS_RemoveElement
<1> QED
  BY <1>1, <1>3 DEF x

LEMMA SumExists == ASSUME NEW S, IsFiniteSet(S), NEW g PROVE \E sum : IsSum(sum, S, g)
<1> DEFINE Rest(s) == s \ {CHOOSE x \in s : TRUE}
           Value(sum, s) == IF s = {} THEN 0 ELSE g[CHOOSE x \in s : TRUE] + sum[Rest(s)]
           T == {n \in Nat : \E sum : SumsTo(sum, S, g, n)}
<1>1. ASSUME NEW s \in SUBSET S
      PROVE  /\ Cardinality(s) \in Nat /\ (Cardinality(s) = 0 <=> s = {})
             /\ s # {} => Rest(s) \in SUBSET S /\ Cardinality(Rest(s)) = Cardinality(s) - 1
  <2>1. IsFiniteSet(s)
    BY FS_Subset
  <2> QED
    BY <2>1, OneFewer, FS_CardinalityType, FS_EmptySet
<1>2. 0 \in T
  <2> DEFINE sum == [s \in SUBSET S |-> 0]
  <2>1. SumsTo(sum, S, g, 0)
    <3>1. ASSUME NEW s \in SUBSET S, Cardinality(s) <= 0 PROVE s = {}
      <4>1. Cardinality(s) \in Nat /\ (Cardinality(s) = 0 => s = {})
        BY <1>1
      <4> QED
        BY <3>1, <4>1
    <3>2. \A s \in SUBSET S : sum[s] = 0
      OBVIOUS
    <3> HIDE DEF sum
    <3>3. ASSUME NEW s \in SUBSET S, Cardinality(s) <= 0 PROVE sum[s] = Value(sum, s)
      BY <3>1, <3>2, <3>3
    <3> QED
      BY <3>3 DEF SumsTo
  <2> QED
    BY <2>1
<1>3. ASSUME NEW n \in T PROVE n + 1 \in T
  <2>1. n \in Nat /\ n + 1 \in Nat
    OBVIOUS
  <2>2. PICK sum : SumsTo(sum, S, g, n)
    OBVIOUS
  <2>3. \A s \in SUBSET S : Cardinality(s) <= n => sum[s] = Value(sum, s)
    BY <2>2 DEF SumsTo
  <2> DEFINE more == [s \in SUBSET S |-> IF Cardinality(s) = n + 1 THEN Value(sum, s) ELSE sum[s]]
  <2>4. ASSUME NEW s \in SUBSET S, Cardinality(s) <= n + 1
        PROVE  more[s] = Value(more, s)
    <3>1. s # {} => more[Rest(s)] = sum[Rest(s)]
      <4> SUFFICES ASSUME s # {} PROVE more[Rest(s)] = sum[Rest(s)]
        OBVIOUS
      <4>1. Rest(s) \in SUBSET S /\ Cardinality(Rest(s)) # n + 1
        BY <1>1, <2>1, <2>4
      <4> HIDE DEF Rest, Value
      <4> QED
        BY <4>1
    <3>2. more[s] = Value(sum, s)
      <4>1. CASE Cardinality(s) = n + 1
        <5> HIDE DEF Value
        <5> QED
          BY <4>1
      <4>2. CASE Cardinality(s) # n + 1
        <5>1. Cardinality(s) <= n
          <6>1. Cardinality(s) \in Nat
            BY <1>1
          <6> QED
            BY <2>1, <2>4, <4>2, <6>1
        <5>2. sum[s] = Value(sum, s)
          BY <2>3, <5>1
        <5> HIDE DEF Value
        <5> QED
          BY <4>2, <5>2
      <4> QED
        BY <4>1, <4>2
    <3> HIDE DEF more, Rest
    <3> QED
      BY <3>1, <3>2
  <2> HIDE DEF more
  <2>5. SumsTo(more, S, g, n + 1)
    BY <2>4 DEF SumsTo
  <2> QED
    BY <2>1, <2>5
<1> HIDE DEF T
<1>4. T = Nat
  <2>1. T \in SUBSET Nat
    BY DEF T
  <2> QED
    BY <1>2, <1>3, <2>1, Inductive
<1>5. PICK sum : SumsTo(sum, S, g, Cardinality(S))
  BY <1>1, <1>4 DEF T
<1> DEFINE all == [s \in SUBSET S |-> sum[s]]
<1>6. ASSUME NEW s \in SUBSET S PROVE all[s] = Value(all, s)
  <2>1. Cardinality(s) <= Cardinality(S)
    BY FS_Subset
  <2>2. sum[s] = Value(sum, s)
    BY <1>5, <2>1 DEF SumsTo
  <2>3. all[s] = sum[s] /\ (s # {} => all[Rest(s)] = sum[Rest(s)])
    BY <1>1
  <2> HIDE DEF all
  <2> QED
    BY <2>2, <2>3
<1>7. all = [s \in SUBSET S |-> all[s]]
  OBVIOUS
<1> HIDE DEF all
<1>8. IsSum(all, S, g)
  BY <1>6, <1>7 DEF IsSum
<1> QED
  BY <1>8

LEMMA SumIsInt ==
    ASSUME NEW S, IsFiniteSet(S), NEW g, \A x \in S : g[x] \in Int,
           NEW sum, IsSum(sum, S, g)
    PROVE  sum[S] \in Int
<1> DEFINE Rest(s) == s \ {CHOOSE x \in s : TRUE}
           T == {n \in Nat : \A s \in SUBSET S : Cardinality(s) = n => sum[s] \in Int}
<1>1. ASSUME NEW s \in SUBSET S
      PROVE  /\ Cardinality(s) \in Nat /\ (Cardinality(s) = 0 <=> s = {})
             /\ s # {} => /\ Rest(s) \in SUBSET S /\ Cardinality(Rest(s)) = Cardinality(s) - 1
                          /\ g[CHOOSE x \in s : TRUE] \in Int
  <2>1. IsFiniteSet(s)
    BY FS_Subset
  <2> QED
    BY <2>1, OneFewer, FS_CardinalityType, FS_EmptySet
<1>2. ASSUME NEW s \in SUBSET S
      PROVE  sum[s] = IF s = {} THEN 0 ELSE g[CHOOSE x \in s : TRUE] + sum[Rest(s)]
  BY Zenon DEF IsSum
<1>3. 0 \in T
  <2>1. \A s \in SUBSET S : Cardinality(s) = 0 => s = {}
    BY <1>1
  <2>2. sum[{}] = 0
    BY <1>2
  <2> QED
    BY <2>1, <2>2
<1>4. ASSUME NEW n \in T PROVE n + 1 \in T
  <2>1. n \in Nat
    OBVIOUS
  <2>2. ASSUME NEW s \in SUBSET S, Cardinality(s) = n + 1 PROVE sum[s] \in Int
    <3>1. s # {} /\ Rest(s) \in SUBSET S /\ Cardinality(Rest(s)) = n
      BY <1>1, <2>1, <2>2
    <3>2. sum[Rest(s)] \in Int
      BY <3>1
    <3> HIDE DEF Rest
    <3> QED
      BY <1>1, <1>2, <3>1, <3>2
  <2> QED
    BY <2>1, <2>2
<1> HIDE DEF T
<1>5. T = Nat
  <2>1. T \in SUBSET Nat
    BY DEF T
  <2> QED
    BY <1>3, <1>4, <2>1, Inductive
<1> QED
  BY <1>1, <1>5 DEF T

LEMMA MatchesFinite == ASSUME NEW e \in GroupEntries PROVE IsFiniteSet(MatchesOf(e))
<1>1. MatchesOf(e) \in SUBSET GroupFixtures
  BY DEF MatchesOf
<1> QED
  BY <1>1, FixturesFinite, FS_Subset

\* Wins and draws are counted, goals and differences summed.
LEMMA CountsAreInt ==
    ASSUME NEW e \in GroupEntries, NEW win \in Int, NEW draw \in Int
    PROVE  Wins[e] \in Int /\ Points(win, draw)[e] \in Int
<1> DEFINE won == {f \in MatchesOf(e) : Own(e, f) > Other(e, f)}
           drawn == {f \in MatchesOf(e) : Own(e, f) = Other(e, f)}
<1>1. won \in SUBSET MatchesOf(e) /\ drawn \in SUBSET MatchesOf(e)
  OBVIOUS
<1>2. Wins[e] = Cardinality(won) /\ Draws[e] = Cardinality(drawn)
  BY DEF Wins, Draws
<1>3. Points(win, draw)[e] = win * Wins[e] + draw * Draws[e]
  BY DEF Points
<1> HIDE DEF won, drawn
<1>4. Cardinality(won) \in Nat /\ Cardinality(drawn) \in Nat
  <2>1. IsFiniteSet(won) /\ IsFiniteSet(drawn)
    BY <1>1, MatchesFinite, FS_Subset
  <2> QED
    BY <2>1, FS_CardinalityType
<1> QED
  BY <1>2, <1>3, <1>4

LEMMA GoalsForIsInt == ASSUME ResultsOK, NEW e \in GroupEntries PROVE GoalsFor[e] \in Int
<1> DEFINE S == MatchesOf(e)
           g == [f \in S |-> Own(e, f)]
           Sums(sum) ==
              sum = [s \in SUBSET S |-> IF s = {} THEN 0
                        ELSE Own(e, CHOOSE x \in s : TRUE) + sum[s \ {CHOOSE x \in s : TRUE}]]
           it == CHOOSE sum : Sums(sum)
<1>1. GoalsFor[e] = it[S]
  BY DEF GoalsFor, MapThenSumSet, MapThenFoldSet
<1>2. \A x \in S : g[x] = Own(e, x) /\ g[x] \in Int
  BY CompletedIsRecorded
<1>3. ASSUME NEW s \in SUBSET S, s # {}
      PROVE  g[CHOOSE x \in s : TRUE] = Own(e, CHOOSE x \in s : TRUE)
  BY <1>2, <1>3
<1> HIDE DEF S, g
<1>4. ASSUME NEW sum PROVE Sums(sum) <=> IsSum(sum, S, g)
  BY <1>3 DEF IsSum
<1> HIDE DEF Sums
<1>5. IsFiniteSet(S)
  BY MatchesFinite DEF S
<1>6. IsSum(it, S, g)
  BY <1>4, <1>5, SumExists
<1> HIDE DEF it
<1> QED
  BY <1>1, <1>2, <1>5, <1>6, SumIsInt

LEMMA DifferenceIsInt == ASSUME ResultsOK, NEW e \in GroupEntries PROVE Difference[e] \in Int
<1> DEFINE S == MatchesOf(e)
           g == [f \in S |-> Own(e, f) - Other(e, f)]
           Gap(f) == Own(e, f) - Other(e, f)
           Sums(sum) ==
              sum = [s \in SUBSET S |-> IF s = {} THEN 0
                        ELSE Gap(CHOOSE x \in s : TRUE) + sum[s \ {CHOOSE x \in s : TRUE}]]
           it == CHOOSE sum : Sums(sum)
<1>1. Difference[e] = it[S]
  BY DEF Difference, MapThenSumSet, MapThenFoldSet
<1>2. \A x \in S : g[x] = Gap(x) /\ g[x] \in Int
  BY CompletedIsRecorded
<1>3. ASSUME NEW s \in SUBSET S, s # {}
      PROVE  g[CHOOSE x \in s : TRUE] = Gap(CHOOSE x \in s : TRUE)
  BY <1>2, <1>3
<1> HIDE DEF S, g, Gap
<1>4. ASSUME NEW sum PROVE Sums(sum) <=> IsSum(sum, S, g)
  BY <1>3 DEF IsSum
<1> HIDE DEF Sums
<1>5. IsFiniteSet(S)
  BY MatchesFinite DEF S
<1>6. IsSum(it, S, g)
  BY <1>4, <1>5, SumExists
<1> HIDE DEF it
<1> QED
  BY <1>1, <1>2, <1>5, <1>6, SumIsInt

LEMMA RallyDifferenceIsInt ==
    ASSUME ResultsOK, NEW e \in GroupEntries
    PROVE  RallyDifference[e] \in Int
<1> DEFINE S == MatchesOf(e)
           g == [f \in S |-> Rally(e, f)]
           Sums(sum) ==
              sum = [s \in SUBSET S |-> IF s = {} THEN 0
                        ELSE Rally(e, CHOOSE x \in s : TRUE) + sum[s \ {CHOOSE x \in s : TRUE}]]
           it == CHOOSE sum : Sums(sum)
<1>1. RallyDifference[e] = it[S]
  BY DEF RallyDifference, MapThenSumSet, MapThenFoldSet
<1>2. \A x \in S : g[x] = Rally(e, x) /\ g[x] \in Int
  BY CompletedIsRecorded
<1>3. ASSUME NEW s \in SUBSET S, s # {}
      PROVE  g[CHOOSE x \in s : TRUE] = Rally(e, CHOOSE x \in s : TRUE)
  BY <1>2, <1>3
<1> HIDE DEF S, g
<1>4. ASSUME NEW sum PROVE Sums(sum) <=> IsSum(sum, S, g)
  BY <1>3 DEF IsSum
<1> HIDE DEF Sums
<1>5. IsFiniteSet(S)
  BY MatchesFinite DEF S
<1>6. IsSum(it, S, g)
  BY <1>4, <1>5, SumExists
<1> HIDE DEF it
<1> QED
  BY <1>1, <1>2, <1>5, <1>6, SumIsInt

LEMMA ColumnsAreInt ==
    ASSUME ResultsOK
    PROVE  /\ IntColumns(FootballColumns, 3)
           /\ IntColumns(PointsColumns(WinPoints, DrawPoints), 2)
<1>1. ASSUME NEW e \in GroupEntries
      PROVE  /\ Points(3, 1)[e] \in Int /\ Wins[e] \in Int
             /\ Points(WinPoints, DrawPoints)[e] \in Int
  <2>1. 3 \in Int /\ 1 \in Int /\ WinPoints \in Int /\ DrawPoints \in Int
    BY PointsAssumption
  <2>2. Points(3, 1)[e] \in Int /\ Wins[e] \in Int
    BY <2>1, CountsAreInt
  <2>3. Points(WinPoints, DrawPoints)[e] \in Int
    BY <2>1, CountsAreInt
  <2> QED
    BY <2>2, <2>3
<1>2. \A e \in GroupEntries : Difference[e] \in Int /\ GoalsFor[e] \in Int
  BY DifferenceIsInt, GoalsForIsInt
<1> QED
  BY <1>1, <1>2 DEF IntColumns, FootballColumns, PointsColumns

\* The tables of CalculateFootballStandings and CalculatePointsStandings do not depend on
\* the order in which Go's map yields the rows, for a group of any size and any results,
\* unless on every column three entries are level, or two of one name that neither won
\* against the other: for those the tables do depend on it.
THEOREM TablesAreStable == Spec => []TablesStable
<1>1. TypeOK => TablesStable
  <2> SUFFICES ASSUME ResultsOK PROVE TablesStable
    BY DEF TypeOK, ResultsOK
  <2> DEFINE football == FootballColumns
             points == PointsColumns(WinPoints, DrawPoints)
  <2>1. \A o : /\ FootballTable(o) = Sort(o, Ranking(football))
               /\ PointsTable(WinPoints, DrawPoints, o) = Sort(o, Ranking(points))
    BY DEF FootballTable, PointsTable
  <2>2. IntColumns(football, 3) /\ IntColumns(points, 2)
    BY ColumnsAreInt
  <2> HIDE DEF football, points
  <2>3. /\ NoThreeLevel(football) /\ NoTwins(football) =>
              Cardinality({Sort(o, Ranking(football)) : o \in Orders}) = 1
        /\ NoThreeLevel(points) /\ NoTwins(points) =>
              Cardinality({Sort(o, Ranking(points)) : o \in Orders}) = 1
    BY <2>2, BeforeIsStrict, OneTable
  <2>4. /\ {FootballTable(o) : o \in Orders} = {Sort(o, Ranking(football)) : o \in Orders}
        /\ {PointsTable(WinPoints, DrawPoints, o) : o \in Orders} =
              {Sort(o, Ranking(points)) : o \in Orders}
    BY <2>1
  <2> QED
    BY <2>3, <2>4 DEF TablesStable, football, points
<1> QED
  BY <1>1, TypeCorrect, PTL

-----------------------------------------------------------------------------
(***************************************************************************)
(* The badminton table: rows in groups level on a column, and the groups   *)
(* joined again once each has been ranked.                                 *)
(***************************************************************************)

\* The rows of a group after each of the first n steps of Buckets.
IsKept(f, g, place, column, v, n) ==
    f = [k \in 0..n |-> IF k = 0 THEN <<>>
                        ELSE IF place[column[g[k]]] = v THEN Append(f[k - 1], g[k])
                        ELSE f[k - 1]]

LEMMA KeptExists ==
    ASSUME NEW g, NEW place, NEW column, NEW v
    PROVE  \A n \in Nat : \E f : IsKept(f, g, place, column, v, n)
<1> DEFINE Kept(f, k) == IF place[column[g[k]]] = v THEN Append(f[k - 1], g[k]) ELSE f[k - 1]
           T == {n \in Nat : \E f : IsKept(f, g, place, column, v, n)}
<1>1. 0 \in T
  <2> DEFINE f == [k \in 0..0 |-> <<>>]
  <2>1. IsKept(f, g, place, column, v, 0)
    BY DEF IsKept
  <2> QED
    BY <2>1
<1>2. ASSUME NEW n \in T PROVE n + 1 \in T
  <2>1. n \in Nat /\ n + 1 \in Nat
    OBVIOUS
  <2>2. PICK f : IsKept(f, g, place, column, v, n)
    OBVIOUS
  <2> DEFINE last == IF place[column[g[n + 1]]] = v THEN Append(f[n], g[n + 1]) ELSE f[n]
             h == [k \in 0..n + 1 |-> IF k = n + 1 THEN last ELSE f[k]]
  <2>3. ASSUME NEW k \in 0..n + 1
        PROVE  h[k] = IF k = 0 THEN <<>> ELSE Kept(h, k)
    <3>1. CASE k = n + 1
      <4>1. k # 0 /\ k - 1 = n /\ n \in 0..n + 1 /\ n # n + 1
        BY <2>1, <3>1
      <4>2. h[n] = f[n] /\ h[k] = last
        BY <3>1, <4>1
      <4> QED
        BY <3>1, <4>1, <4>2
    <3>2. CASE k # n + 1
      <4>1. k \in 0..n /\ (k # 0 => k - 1 \in 0..n + 1 /\ k - 1 # n + 1 /\ k - 1 \in 0..n)
        BY <2>1, <3>2
      <4>2. f[k] = IF k = 0 THEN <<>> ELSE Kept(f, k)
        BY <2>2, <4>1 DEF IsKept
      <4>3. h[k] = f[k] /\ (k # 0 => h[k - 1] = f[k - 1])
        BY <3>2, <4>1
      <4> QED
        BY <4>2, <4>3
    <3> QED
      BY <3>1, <3>2
  <2>4. h = [k \in 0..n + 1 |-> h[k]]
    OBVIOUS
  <2> HIDE DEF h
  <2>5. IsKept(h, g, place, column, v, n + 1)
    BY <2>3, <2>4 DEF IsKept
  <2> QED
    BY <2>1, <2>5
<1> HIDE DEF T
<1>3. T = Nat
  <2>1. T \in SUBSET Nat
    BY DEF T
  <2> QED
    BY <1>1, <1>2, <2>1, Inductive
<1> QED
  BY <1>3 DEF T

LEMMA NoRows == IsRows(<<>>, 0, {})
<1>1. 1..0 = {} /\ <<>> \in [{} -> {}]
  OBVIOUS
<1> QED
  BY <1>1 DEF IsRows

LEMMA OneMoreRow ==
    ASSUME NEW S, NEW m, NEW s, IsRows(s, m, S), NEW x, x \notin S
    PROVE  IsRows(Append(s, x), m + 1, S \cup {x})
<1> DEFINE t == Append(s, x)
           U == S \cup {x}
<1>1. m \in Nat /\ s \in [1..m -> S] /\ s \in Seq(S) /\ Len(s) = m
  BY RowsCount DEF IsRows
<1>2. s \in Seq(U) /\ x \in U
  BY <1>1
<1>3. t \in Seq(U) /\ Len(t) = m + 1 /\ t[m + 1] = x /\ \A i \in 1..m : t[i] = s[i]
  BY <1>1, <1>2
<1> HIDE DEF t
<1>4. \A i \in 1..m + 1 : i \in 1..m \/ i = m + 1
  BY <1>1
<1>5. t \in [1..m + 1 -> U] /\ m + 1 \in Nat
  BY <1>1, <1>3
<1>6. \A i, j \in 1..m + 1 : t[i] = t[j] => i = j
  BY <1>1, <1>3, <1>4 DEF IsRows
<1>7. \A e \in U : \E i \in 1..m + 1 : t[i] = e
  <2>1. m + 1 \in 1..m + 1 /\ \A i \in 1..m : i \in 1..m + 1
    BY <1>1
  <2> QED
    BY <1>3, <2>1 DEF IsRows
<1> HIDE DEF U
<1>8. IsRows(t, m + 1, U)
  BY <1>5, <1>6, <1>7 DEF IsRows
<1> QED
  BY <1>8 DEF t, U

\* A group has the rows at its place.
LEMMA KeptIsRows ==
    ASSUME NEW S, NEW m, NEW g, IsRows(g, m, S), NEW place, NEW column, NEW v,
           NEW f, IsKept(f, g, place, column, v, m)
    PROVE  \E c : IsRows(f[m], c, {e \in S : place[column[e]] = v})
<1> DEFINE Kept(k) == {e \in S : place[column[e]] = v /\ \E i \in 1..k : g[i] = e}
           T == {k \in Nat : k <= m => \E c : IsRows(f[k], c, Kept(k))}
<1>1. m \in Nat /\ g \in [1..m -> S] /\ \A i, j \in 1..m : g[i] = g[j] => i = j
  BY DEF IsRows
<1>2. \A k \in 0..m : f[k] = IF k = 0 THEN <<>>
                             ELSE IF place[column[g[k]]] = v THEN Append(f[k - 1], g[k])
                             ELSE f[k - 1]
  BY Zenon DEF IsKept
<1>3. 0 \in T
  <2>1. f[0] = <<>>
    BY <1>1, <1>2
  <2>2. Kept(0) = {}
    OBVIOUS
  <2> QED
    BY <2>1, <2>2, NoRows
<1>4. ASSUME NEW k \in T PROVE k + 1 \in T
  <2> SUFFICES ASSUME k + 1 <= m PROVE \E c : IsRows(f[k + 1], c, Kept(k + 1))
    OBVIOUS
  <2>1. k \in Nat /\ k <= m /\ k + 1 \in 1..m /\ k + 1 \in 0..m /\ k + 1 # 0 /\ k + 1 - 1 = k
    BY <1>1
  <2>2. PICK c : IsRows(f[k], c, Kept(k))
    BY <2>1
  <2> DEFINE x == g[k + 1]
  <2>3. f[k + 1] = IF place[column[x]] = v THEN Append(f[k], x) ELSE f[k]
    BY <1>2, <2>1
  <2>4. /\ x \in S /\ x \notin Kept(k)
        /\ Kept(k + 1) = IF place[column[x]] = v THEN Kept(k) \cup {x} ELSE Kept(k)
    <3>1. \A i \in 1..k : i \in 1..m /\ i \in 1..k + 1 /\ g[i] # x
      BY <1>1, <2>1
    <3>2. \A i \in 1..k + 1 : i \in 1..k \/ i = k + 1
      BY <2>1
    <3>3. x \in S /\ k + 1 \in 1..k + 1
      BY <1>1, <2>1
    <3> QED
      BY <3>1, <3>2, <3>3
  <2> HIDE DEF x, Kept
  <2>5. CASE place[column[x]] = v
    <3>1. IsRows(Append(f[k], x), c + 1, Kept(k) \cup {x})
      BY <2>2, <2>4, OneMoreRow
    <3> QED
      BY <2>3, <2>4, <2>5, <3>1
  <2>6. CASE place[column[x]] # v
    BY <2>2, <2>3, <2>4, <2>6
  <2> QED
    BY <2>5, <2>6
<1>5. T = Nat
  <2>1. T \in SUBSET Nat
    OBVIOUS
  <2> HIDE DEF T
  <2> QED
    BY <1>3, <1>4, <2>1, Inductive
<1>6. Kept(m) = {e \in S : place[column[e]] = v}
  BY DEF IsRows
<1>7. \E c : IsRows(f[m], c, Kept(m))
  <2> HIDE DEF Kept
  <2> QED
    BY <1>1, <1>5
<1> QED
  BY <1>6, <1>7


\* How many of the values are as high as x.
PlaceAmong(values) == [x \in values |-> Cardinality({y \in values : y >= x})]
KeptOf(g, place, column, v, n) == (CHOOSE f : IsKept(f, g, place, column, v, n))[n]

LEMMA PlacesInOrder ==
    ASSUME NEW S, IsFiniteSet(S), NEW column, \A e \in S : column[e] \in Int
    PROVE  LET values == {column[e] : e \in S}
               place == PlaceAmong(values)
           IN  /\ Cardinality(values) \in Nat
               /\ \A a \in S : place[column[a]] \in 1..Cardinality(values)
               /\ \A a, b \in S : column[a] > column[b] => place[column[a]] < place[column[b]]
<1> DEFINE values == {column[e] : e \in S}
           place == PlaceAmong(values)
           AsHigh(x) == {y \in values : y >= x}
<1>1. IsFiniteSet(values)
  <2> DEFINE f == [e \in S |-> column[e]]
  <2>1. f \in Surjection(S, values)
    BY DEF Surjection
  <2> HIDE DEF f, values
  <2> QED
    BY <2>1, FS_Surjection
<1>2. values \in SUBSET Int /\ \A a \in S : column[a] \in values
  OBVIOUS
<1>3. \A x \in values : place[x] = Cardinality(AsHigh(x))
  BY DEF PlaceAmong
<1> HIDE DEF values, place
<1>4. ASSUME NEW x \in values
      PROVE  /\ IsFiniteSet(AsHigh(x)) /\ Cardinality(AsHigh(x)) \in 1..Cardinality(values)
             /\ Cardinality(AsHigh(x)) \in Nat /\ Cardinality(values) \in Nat
  <2>1. AsHigh(x) \in SUBSET values /\ x \in AsHigh(x)
    BY <1>2
  <2> HIDE DEF AsHigh
  <2>2. /\ IsFiniteSet(AsHigh(x)) /\ Cardinality(AsHigh(x)) <= Cardinality(values)
        /\ Cardinality(AsHigh(x)) \in Nat /\ Cardinality(values) \in Nat
    BY <1>1, <2>1, FS_Subset, FS_CardinalityType
  <2>3. Cardinality(AsHigh(x)) # 0
    BY <2>1, <2>2, FS_EmptySet
  <2> QED
    BY <2>2, <2>3
<1>5. ASSUME NEW x \in values, NEW y \in values, x > y
      PROVE  Cardinality(AsHigh(x)) < Cardinality(AsHigh(y))
  <2>1. AsHigh(x) \in SUBSET AsHigh(y) /\ y \in AsHigh(y) /\ y \notin AsHigh(x)
    <3>1. x \in Int /\ y \in Int /\ \A z \in values : z \in Int
      BY <1>2
    <3>2. y >= y /\ ~(y >= x) /\ \A z \in values : z >= x => z >= y
      BY <1>5, <3>1
    <3> QED
      BY <3>2
  <2>2. /\ IsFiniteSet(AsHigh(y))
        /\ Cardinality(AsHigh(x)) \in Nat /\ Cardinality(AsHigh(y)) \in Nat
    BY <1>4
  <2> HIDE DEF AsHigh
  <2>3. /\ Cardinality(AsHigh(x)) <= Cardinality(AsHigh(y))
        /\ Cardinality(AsHigh(x)) # Cardinality(AsHigh(y))
    BY <2>1, <2>2, FS_Subset
  <2> QED
    BY <2>2, <2>3
<1>6. Cardinality(values) \in Nat
  BY <1>1, FS_CardinalityType
<1> HIDE DEF AsHigh
<1>7. \A a \in S : place[column[a]] \in 1..Cardinality(values)
  BY <1>2, <1>3, <1>4
<1>8. \A a, b \in S : column[a] > column[b] => place[column[a]] < place[column[b]]
  BY <1>2, <1>3, <1>5
<1> QED
  BY <1>6, <1>7, <1>8 DEF values, place

\* n groups, each with the rows of S at its place, those higher in the column first.
AreClasses(groups, column, S, n, place) ==
    /\ DOMAIN groups = 1..n
    /\ \A a, b \in S : /\ column[a] > column[b] => place[a] < place[b]
                       /\ column[a] = column[b] => place[a] = place[b]
    /\ \A v \in 1..n : \E c : IsRows(groups[v], c, {e \in S : place[e] = v})

\* The groups: each has the rows of one value of the column, the higher ones first.
LEMMA BucketsAreRows ==
    ASSUME NEW S, NEW m, NEW g, IsRows(g, m, S),
           NEW column, \A e \in S : column[e] \in Int
    PROVE  \E n \in Nat : \E place \in [S -> 1..n] :
              AreClasses(Buckets(g, column), column, S, n, place)
<1> DEFINE values == {column[e] : e \in S}
           seen == {column[g[k]] : k \in DOMAIN g}
           n == Cardinality(values)
           high == PlaceAmong(values)
           place == [e \in S |-> high[column[e]]]
<1>1. IsFiniteSet(S) /\ m \in Nat /\ Len(g) = m /\ DOMAIN g = 1..m
  <2>1. m \in Nat
    BY DEF IsRows
  <2> QED
    BY <2>1, RowsCount
<1>2. seen = values
  <2>1. (\A k \in 1..m : g[k] \in S) /\ \A e \in S : \E k \in 1..m : g[k] = e
    BY DEF IsRows
  <2> QED
    BY <1>1, <2>1
<1>3. Buckets(g, column) = [v \in 1..n |-> KeptOf(g, high, column, v, m)]
  <2>1. Buckets(g, column) =
            [v \in 1..Cardinality(seen) |-> KeptOf(g, PlaceAmong(seen), column, v, Len(g))]
    BY DEF Buckets, KeptOf, IsKept, PlaceAmong
  <2> HIDE DEF seen, values
  <2> QED
    BY <1>1, <1>2, <2>1
<1>4. /\ n \in Nat
      /\ \A a \in S : high[column[a]] \in 1..n
      /\ \A a, b \in S : column[a] > column[b] => high[column[a]] < high[column[b]]
  BY <1>1, PlacesInOrder
<1> HIDE DEF n, high
<1>5. place \in [S -> 1..n] /\ \A e \in S : place[e] = high[column[e]]
  BY <1>4
<1>6. ASSUME NEW v \in 1..n
      PROVE  \E c : IsRows(Buckets(g, column)[v], c, {e \in S : place[e] = v})
  <2> DEFINE f == CHOOSE f : IsKept(f, g, high, column, v, m)
  <2>1. IsKept(f, g, high, column, v, m)
    BY <1>1, KeptExists
  <2>2. KeptOf(g, high, column, v, m) = f[m]
    BY DEF KeptOf
  <2> HIDE DEF f
  <2>3. PICK c : IsRows(f[m], c, {e \in S : high[column[e]] = v})
    BY <2>1, KeptIsRows
  <2>4. {e \in S : place[e] = v} = {e \in S : high[column[e]] = v}
    BY <1>5
  <2>5. Buckets(g, column)[v] = f[m]
    BY <1>3, <2>2
  <2> QED
    BY <2>3, <2>4, <2>5
<1>7. DOMAIN Buckets(g, column) = 1..n
  BY <1>3
<1>8. \A a, b \in S : /\ column[a] > column[b] => place[a] < place[b]
                      /\ column[a] = column[b] => place[a] = place[b]
  BY <1>4, <1>5
<1> HIDE DEF place
<1>9. AreClasses(Buckets(g, column), column, S, n, place)
  BY <1>6, <1>7, <1>8 DEF AreClasses
<1> QED
  BY <1>4, <1>5, <1>9

Then(s, t) == s \o t

\* Rows of two sets, one after the other.
LEMMA RowsThenRows ==
    ASSUME NEW A, NEW m, NEW s, IsRows(s, m, A),
           NEW B, NEW k, NEW t, IsRows(t, k, B), A \cap B = {}
    PROVE  /\ IsRows(Then(s, t), m + k, A \cup B)
           /\ \A a, b : Above(Then(s, t), a, b) =>
                Above(s, a, b) \/ Above(t, a, b) \/ (a \in A /\ b \in B)
<1> DEFINE U == A \cup B
           q == Then(s, t)
<1>1. /\ m \in Nat /\ s \in [1..m -> A] /\ \A i, j \in 1..m : s[i] = s[j] => i = j
      /\ k \in Nat /\ t \in [1..k -> B] /\ \A i, j \in 1..k : t[i] = t[j] => i = j
  BY DEF IsRows
<1>2. s \in Seq(U) /\ Len(s) = m /\ t \in Seq(U) /\ Len(t) = k
  <2>1. s \in Seq(A) /\ Len(s) = m /\ t \in Seq(B) /\ Len(t) = k
    BY RowsCount
  <2>2. A \in SUBSET U /\ B \in SUBSET U
    OBVIOUS
  <2> HIDE DEF U
  <2> QED
    BY <2>1, <2>2
<1>3. /\ q \in Seq(U) /\ Len(q) = m + k
      /\ \A i \in 1..m : q[i] = s[i]
      /\ \A i \in 1..k : q[m + i] = t[i]
  <2> HIDE DEF U
  <2>1. q \in Seq(U) /\ Len(q) = m + k
    BY <1>1, <1>2 DEF Then
  <2>2. \A i \in 1..m : q[i] = s[i]
    BY <1>1, <1>2 DEF Then
  <2>3. ASSUME NEW i \in 1..k PROVE q[m + i] = t[i]
    <3>1. m + i \in 1..m + k /\ m + i > m /\ m + i - m = i
      BY <1>1
    <3> QED
      BY <1>1, <1>2, <3>1 DEF Then
  <2> QED
    BY <2>1, <2>2, <2>3
<1> HIDE DEF q
<1>4. ASSUME NEW i \in 1..m + k
      PROVE  (i \in 1..m /\ q[i] = s[i]) \/ (i - m \in 1..k /\ i > m /\ q[i] = t[i - m])
  <2>1. CASE i <= m
    BY <1>1, <1>3, <2>1
  <2>2. CASE i > m
    <3>1. i - m \in 1..k /\ m + (i - m) = i
      BY <1>1, <2>2
    <3> QED
      BY <1>3, <2>2, <3>1
  <2> QED
    BY <1>1, <2>1, <2>2
<1>5. m + k \in Nat /\ DOMAIN q = 1..m + k /\ q \in [1..m + k -> U]
  <2> HIDE DEF U
  <2> QED
    BY <1>1, <1>3
<1>6. ASSUME NEW i \in 1..m + k, NEW j \in 1..m + k, q[i] = q[j] PROVE i = j
  <2>1. CASE i \in 1..m /\ q[i] = s[i] /\ j \in 1..m /\ q[j] = s[j]
    BY <1>1, <1>6, <2>1
  <2>2. CASE i - m \in 1..k /\ q[i] = t[i - m] /\ j - m \in 1..k /\ q[j] = t[j - m]
    <3>1. i - m = j - m
      BY <1>1, <1>6, <2>2
    <3> QED
      BY <1>1, <3>1
  <2>3. CASE i \in 1..m /\ q[i] = s[i] /\ j - m \in 1..k /\ q[j] = t[j - m]
    BY <1>1, <1>6, <2>3
  <2>4. CASE i - m \in 1..k /\ q[i] = t[i - m] /\ j \in 1..m /\ q[j] = s[j]
    BY <1>1, <1>6, <2>4
  <2> QED
    BY <1>4, <2>1, <2>2, <2>3, <2>4
<1>7. ASSUME NEW e \in U PROVE \E i \in 1..m + k : q[i] = e
  <2>1. CASE e \in A
    <3>1. PICK i \in 1..m : s[i] = e
      BY <2>1 DEF IsRows
    <3>2. i \in 1..m + k
      BY <1>1
    <3> QED
      BY <1>3, <3>1, <3>2
  <2>2. CASE e \in B
    <3>1. PICK i \in 1..k : t[i] = e
      BY <2>2 DEF IsRows
    <3>2. m + i \in 1..m + k
      BY <1>1
    <3> QED
      BY <1>3, <3>1, <3>2
  <2> QED
    BY <2>1, <2>2
<1>8. IsRows(q, m + k, U)
  BY <1>5, <1>6, <1>7 DEF IsRows
<1>9. ASSUME NEW a, NEW b, Above(q, a, b)
      PROVE  Above(s, a, b) \/ Above(t, a, b) \/ (a \in A /\ b \in B)
  <2>1. PICK i \in 1..m + k, j \in 1..m + k : i < j /\ q[i] = a /\ q[j] = b
    BY <1>5, <1>9 DEF Above
  <2>2. CASE i \in 1..m /\ q[i] = s[i] /\ j \in 1..m /\ q[j] = s[j]
    BY <1>1, <2>1, <2>2 DEF Above
  <2>3. CASE i - m \in 1..k /\ q[i] = t[i - m] /\ j - m \in 1..k /\ q[j] = t[j - m]
    <3>1. i - m < j - m /\ DOMAIN t = 1..k
      BY <1>1, <2>1
    <3> QED
      BY <2>1, <2>3, <3>1 DEF Above
  <2>4. CASE i \in 1..m /\ q[i] = s[i] /\ j - m \in 1..k /\ q[j] = t[j - m]
    BY <1>1, <2>1, <2>4
  <2>5. ~(i > m /\ j \in 1..m)
    BY <1>1, <2>1
  <2> QED
    BY <1>4, <2>2, <2>3, <2>4, <2>5
<1> QED
  BY <1>8, <1>9 DEF q

\* The rows joined after each of the first n steps of FlattenSeq.
IsJoin(f, r, n) == f = [i \in 1..n |-> IF i = 1 THEN r[i] ELSE Then(f[i - 1], r[i])]

LEMMA JoinsExist == ASSUME NEW r PROVE \A n \in Nat : \E f : IsJoin(f, r, n)
<1> DEFINE T == {n \in Nat : \E f : IsJoin(f, r, n)}
<1>1. 0 \in T
  <2> DEFINE f == [i \in 1..0 |-> <<>>]
  <2>1. IsJoin(f, r, 0)
    BY DEF IsJoin
  <2> QED
    BY <2>1
<1>2. ASSUME NEW n \in T PROVE n + 1 \in T
  <2>1. n \in Nat /\ n + 1 \in Nat
    OBVIOUS
  <2>2. PICK f : IsJoin(f, r, n)
    OBVIOUS
  <2> DEFINE last == IF n = 0 THEN r[1] ELSE Then(f[n], r[n + 1])
             g == [i \in 1..n + 1 |-> IF i = n + 1 THEN last ELSE f[i]]
  <2>3. ASSUME NEW i \in 1..n + 1 PROVE g[i] = IF i = 1 THEN r[i] ELSE Then(g[i - 1], r[i])
    <3>1. CASE i = n + 1
      <4>1. n # 0 => i # 1 /\ i - 1 = n /\ n \in 1..n + 1 /\ n # n + 1
        BY <2>1, <3>1
      <4>2. (n = 0 => i = 1) /\ (n # 0 => g[n] = f[n]) /\ g[i] = last
        BY <3>1, <4>1
      <4> QED
        BY <3>1, <4>1, <4>2
    <3>2. CASE i # n + 1
      <4>1. i \in 1..n /\ (i # 1 => i - 1 \in 1..n + 1 /\ i - 1 # n + 1 /\ i - 1 \in 1..n)
        BY <2>1, <3>2
      <4>2. f[i] = IF i = 1 THEN r[i] ELSE Then(f[i - 1], r[i])
        BY <2>2, <4>1 DEF IsJoin
      <4>3. g[i] = f[i] /\ (i # 1 => g[i - 1] = f[i - 1])
        BY <3>2, <4>1
      <4> QED
        BY <4>2, <4>3
    <3> QED
      BY <3>1, <3>2
  <2>4. g = [i \in 1..n + 1 |-> g[i]]
    OBVIOUS
  <2> HIDE DEF g
  <2>5. IsJoin(g, r, n + 1)
    BY <2>3, <2>4 DEF IsJoin
  <2> QED
    BY <2>1, <2>5
<1> HIDE DEF T
<1>3. T = Nat
  <2>1. T \in SUBSET Nat
    BY DEF T
  <2> QED
    BY <1>1, <1>2, <2>1, Inductive
<1> QED
  BY <1>3 DEF T

\* r has n groups, each the rows of S at one place.
AreGroups(r, n, place, S) ==
    /\ r = [v \in 1..n |-> r[v]]
    /\ \A v \in 1..n : \E c : IsRows(r[v], c, {e \in S : place[e] = v})

\* Joined, the groups are rows of them all, those of an earlier group before those of a
\* later one.
LEMMA JoinedGroups ==
    ASSUME NEW S \in SUBSET GroupEntries, NEW n \in Nat, NEW place \in [S -> 1..n],
           NEW r, AreGroups(r, n, place, S)
    PROVE  /\ \E c : IsRows(FlattenSeq(r), c, S)
           /\ \A a, b : Above(FlattenSeq(r), a, b) =>
                /\ a \in S /\ b \in S
                /\ place[a] < place[b] \/ (place[a] = place[b] /\ Above(r[place[a]], a, b))
<1> DEFINE f == CHOOSE f : IsJoin(f, r, n)
           Group(v) == {e \in S : place[e] = v}
           UpTo(k) == {e \in S : place[e] <= k}
           Kept(q, a, b) == /\ a \in S /\ b \in S
                            /\ \/ place[a] < place[b]
                               \/ place[a] = place[b] /\ Above(q[place[a]], a, b)
           Joined(k) == /\ \E c : IsRows(f[k], c, UpTo(k))
                        /\ \A a, b : Above(f[k], a, b) => Kept(r, a, b)
           T == {k \in Nat : k \in 1..n => Joined(k)}
<1>1. IsJoin(f, r, n)
  BY JoinsExist
<1>2. Len(r) = n
  <2>1. \A v \in 1..n : r[v] \in Seq(S)
    <3>1. ASSUME NEW v \in 1..n PROVE r[v] \in Seq(S)
      <4>1. PICK c : IsRows(r[v], c, Group(v))
        BY DEF AreGroups
      <4>2. Group(v) \in SUBSET S
        OBVIOUS
      <4> HIDE DEF Group
      <4>3. r[v] \in Seq(Group(v))
        BY <4>1, RowsCount
      <4> QED
        BY <4>2, <4>3
    <3> QED
      BY <3>1
  <2>2. r \in [1..n -> Seq(S)]
    BY <2>1 DEF AreGroups
  <2> QED
    BY <2>2
<1>3. n # 0 => FlattenSeq(r) = f[n]
  BY <1>2 DEF FlattenSeq, IsJoin, Then
<1> HIDE DEF f
<1>4. \A k \in 1..n : f[k] = IF k = 1 THEN r[k] ELSE Then(f[k - 1], r[k])
  BY <1>1, Zenon DEF IsJoin
<1>5. ASSUME NEW v \in 1..n
      PROVE  /\ \E c : IsRows(r[v], c, Group(v))
             /\ \A a, b : Above(r[v], a, b) => Kept(r, a, b)
  <2>1. PICK c : IsRows(r[v], c, Group(v))
    BY DEF AreGroups
  <2>2. \A i \in DOMAIN r[v] : r[v][i] \in S /\ place[r[v][i]] = v
    <3>1. r[v] \in [1..c -> Group(v)]
      BY <2>1 DEF IsRows
    <3> QED
      BY <3>1
  <2>3. ASSUME NEW a, NEW b, Above(r[v], a, b)
        PROVE  a \in S /\ b \in S /\ place[a] = v /\ place[b] = v
    BY <2>2, <2>3 DEF Above
  <2> QED
    BY <2>1, <2>3
<1>6. \A e \in S : place[e] \in 1..n /\ place[e] \in Int
  OBVIOUS
<1>7. CASE n = 0
  <2>1. S = {}
    BY <1>6, <1>7
  <2>2. r = <<>> /\ FlattenSeq(r) = <<>>
    BY <1>2, <1>7 DEF FlattenSeq, AreGroups
  <2>3. \A a, b : ~Above(<<>>, a, b)
    BY DEF Above
  <2> QED
    BY <2>1, <2>2, <2>3, NoRows
<1>8. CASE n # 0
  <2>1. f[1] = r[1] /\ UpTo(1) = Group(1) /\ 1 \in 1..n
    <3>1. 1 \in 1..n
      BY <1>8
    <3>2. UpTo(1) = Group(1)
      BY <1>6
    <3> QED
      BY <1>4, <3>1, <3>2
  <2>2. Joined(1)
    <3> HIDE DEF UpTo, Group, Kept
    <3> QED
      BY <1>5, <2>1
  <2>3. ASSUME NEW k \in 1..n, k + 1 \in 1..n, Joined(k) PROVE Joined(k + 1)
    <3>1. k \in Nat /\ k + 1 # 1 /\ k + 1 - 1 = k
      OBVIOUS
    <3>2. f[k + 1] = Then(f[k], r[k + 1])
      <4>1. f[k + 1] = IF k + 1 = 1 THEN r[k + 1] ELSE Then(f[k + 1 - 1], r[k + 1])
        BY <1>4, <2>3
      <4> QED
        BY <3>1, <4>1
    <3>3. /\ UpTo(k + 1) = UpTo(k) \cup Group(k + 1)
          /\ \A a \in UpTo(k), b \in Group(k + 1) :
                a \in S /\ b \in S /\ place[a] < place[b]
      BY <1>6, <3>1
    <3>4. UpTo(k) \cap Group(k + 1) = {}
      BY <1>6, <3>1
    <3>5. \A a \in UpTo(k), b \in Group(k + 1) : Kept(r, a, b)
      BY <3>3
    <3> HIDE DEF UpTo, Group, Kept
    <3>6. PICK c : IsRows(f[k], c, UpTo(k))
      BY <2>3
    <3>7. PICK d : IsRows(r[k + 1], d, Group(k + 1))
      BY <1>5, <2>3
    <3>8. /\ IsRows(Then(f[k], r[k + 1]), c + d, UpTo(k) \cup Group(k + 1))
          /\ \A a, b : Above(Then(f[k], r[k + 1]), a, b) =>
                \/ Above(f[k], a, b) \/ Above(r[k + 1], a, b)
                \/ (a \in UpTo(k) /\ b \in Group(k + 1))
      BY <3>4, <3>6, <3>7, RowsThenRows
    <3>9. IsRows(f[k + 1], c + d, UpTo(k + 1))
      BY <3>2, <3>3, <3>8
    <3>10. ASSUME NEW a, NEW b, Above(f[k + 1], a, b) PROVE Kept(r, a, b)
      <4>1. \/ Above(f[k], a, b) \/ Above(r[k + 1], a, b)
            \/ (a \in UpTo(k) /\ b \in Group(k + 1))
        BY <3>2, <3>8, <3>10
      <4> QED
        BY <1>5, <2>3, <3>5, <4>1
    <3> QED
      BY <3>9, <3>10
  <2> HIDE DEF Joined
  <2>4. T = Nat
    <3>1. T \in SUBSET Nat /\ 0 \in T
      OBVIOUS
    <3>2. ASSUME NEW k \in T PROVE k + 1 \in T
      <4>1. CASE k = 0
        BY <2>2, <4>1
      <4>2. CASE k # 0
        <5>1. k + 1 \in 1..n => k \in 1..n
          BY <4>2
        <5>2. k + 1 \in 1..n => Joined(k + 1)
          BY <2>3, <5>1
        <5> QED
          BY <5>2
      <4> QED
        BY <4>1, <4>2
    <3> HIDE DEF T
    <3> QED
      BY <3>1, <3>2, Inductive
  <2>5. Joined(n)
    BY <1>8, <2>4
  <2>6. UpTo(n) = S
    BY <1>6
  <2> QED
    BY <1>3, <1>8, <2>5, <2>6 DEF Joined
<1> QED
  BY <1>7, <1>8


-----------------------------------------------------------------------------
\* Pair may rank a above b: always, or when it is given a first.
PairFirst(a, b) ==
    \/ Beat(a, b)
    \/ ~Beat(b, a) /\ Ahead(<<Difference, RallyDifference>>, a, b, Name[a] <= Name[b])

\* It may rank at least one of two first; both, only if all it looks at is the same.
LEMMA PairIsDecided ==
    ASSUME ResultsOK, NEW a \in GroupEntries, NEW b \in GroupEntries, a # b
    PROVE  /\ PairFirst(a, b) \/ PairFirst(b, a)
           /\ PairFirst(a, b) => ~Beat(b, a)
           /\ PairFirst(a, b) /\ PairFirst(b, a) =>
                /\ Name[a] = Name[b] /\ Difference[a] = Difference[b]
                /\ RallyDifference[a] = RallyDifference[b]
<1> DEFINE columns == <<Difference, RallyDifference>>
           ab == Name[a] <= Name[b]
           ba == Name[b] <= Name[a]
<1>1. IntColumns(columns, 2)
  <2>1. \A e \in GroupEntries : Difference[e] \in Int /\ RallyDifference[e] \in Int
    BY DifferenceIsInt, RallyDifferenceIsInt
  <2> QED
    BY <2>1 DEF IntColumns
<1>2. (ab \/ ba) /\ (ab /\ ba => Name[a] = Name[b]) /\ ab \in BOOLEAN /\ ba \in BOOLEAN
  <2>1. Name[a] \in Int /\ Name[b] \in Int
    BY NameIsInt
  <2> QED
    BY <2>1
<1>3. Level(columns, 2, a, b) =>
        Difference[a] = Difference[b] /\ RallyDifference[a] = RallyDifference[b]
  <2>1. 1 \in 1..2 /\ 2 \in 1..2
    OBVIOUS
  <2>2. columns[1] = Difference /\ columns[2] = RallyDifference
    OBVIOUS
  <2> HIDE DEF columns
  <2> QED
    BY <2>1, <2>2 DEF Level
<1>4. /\ PairFirst(a, b) <=> Beat(a, b) \/ (~Beat(b, a) /\ Ahead(columns, a, b, ab))
      /\ PairFirst(b, a) <=> Beat(b, a) \/ (~Beat(a, b) /\ Ahead(columns, b, a, ba))
  BY DEF PairFirst
<1> HIDE DEF columns, ab, ba
<1>5. /\ Ahead(columns, a, b, ab) <=>
            Higher(columns, 2, a, b) \/ (Level(columns, 2, a, b) /\ ab)
      /\ Ahead(columns, b, a, ba) <=>
            Higher(columns, 2, b, a) \/ (Level(columns, 2, b, a) /\ ba)
      /\ Level(columns, 2, a, b) \/ Higher(columns, 2, a, b) \/ Higher(columns, 2, b, a)
  BY <1>1, <1>2, AheadByColumns
<1>6. /\ Higher(columns, 2, a, b) => ~Higher(columns, 2, b, a) /\ ~Level(columns, 2, a, b)
      /\ Higher(columns, 2, b, a) => ~Level(columns, 2, b, a)
  BY <1>1, HigherIsStrict
<1>7. Level(columns, 2, a, b) <=> Level(columns, 2, b, a)
  BY DEF Level
<1>8. /\ Ahead(columns, a, b, ab) \/ Ahead(columns, b, a, ba)
      /\ Ahead(columns, a, b, ab) /\ Ahead(columns, b, a, ba) =>
            Level(columns, 2, a, b) /\ ab /\ ba
  BY <1>2, <1>5, <1>6, <1>7
<1>9. Beat(a, b) => ~Beat(b, a)
  BY BeatsOneWay
<1> QED
  BY <1>2, <1>3, <1>4, <1>8, <1>9

\* Two rows as Pair ranks them.
LEMMA PairIsRows ==
    ASSUME ResultsOK, NEW S \in SUBSET GroupEntries, NEW g, IsRows(g, 2, S)
    PROVE  /\ IsRows(Pair(g[1], g[2]), 2, S)
           /\ \A a, b : Above(Pair(g[1], g[2]), a, b) => PairFirst(a, b)
<1> DEFINE x == g[1]
           y == g[2]
<1>1. x \in S /\ y \in S /\ x # y /\ S = {x, y}
  <2>1. 1 \in 1..2 /\ 2 \in 1..2 /\ 1 # 2 /\ \A i \in 1..2 : i = 1 \/ i = 2
    OBVIOUS
  <2> QED
    BY <2>1 DEF IsRows
<1> HIDE DEF x, y
<1>2. /\ PairFirst(x, y) => Pair(x, y) = <<x, y>>
      /\ ~PairFirst(x, y) => Pair(x, y) = <<y, x>> /\ PairFirst(y, x)
  <2>1. PairFirst(x, y) \/ PairFirst(y, x)
    BY <1>1, PairIsDecided
  <2>2. Pair(x, y) = IF PairFirst(x, y) THEN <<x, y>> ELSE <<y, x>>
    BY DEF Pair, PairFirst
  <2> QED
    BY <2>1, <2>2
<1>3. ASSUME NEW p \in S, NEW q \in S, p # q, S = {p, q}
      PROVE  IsRows(<<p, q>>, 2, S) /\ \A a, b : Above(<<p, q>>, a, b) => a = p /\ b = q
  <2> DEFINE t == <<p, q>>
  <2>1. t \in [1..2 -> S] /\ t[1] = p /\ t[2] = q /\ DOMAIN t = 1..2
    BY <1>3
  <2>2. \A i \in 1..2 : i = 1 \/ i = 2
    OBVIOUS
  <2> HIDE DEF t
  <2>3. IsRows(t, 2, S)
    BY <1>3, <2>1, <2>2 DEF IsRows
  <2>4. \A a, b : Above(t, a, b) => a = p /\ b = q
    BY <2>1, <2>2 DEF Above
  <2> QED
    BY <2>3, <2>4 DEF t
<1>4. CASE PairFirst(x, y)
  <2>1. Pair(x, y) = <<x, y>>
    BY <1>2, <1>4
  <2>2. IsRows(<<x, y>>, 2, S) /\ \A a, b : Above(<<x, y>>, a, b) => a = x /\ b = y
    BY <1>1, <1>3
  <2>3. ASSUME NEW a, NEW b, Above(Pair(x, y), a, b) PROVE PairFirst(a, b)
    <3>1. a = x /\ b = y
      BY <2>1, <2>2, <2>3
    <3> QED
      BY <1>4, <3>1
  <2> QED
    BY <2>1, <2>2, <2>3 DEF x, y
<1>5. CASE ~PairFirst(x, y)
  <2>1. Pair(x, y) = <<y, x>> /\ PairFirst(y, x)
    BY <1>2, <1>5
  <2>2. S = {y, x}
    BY <1>1
  <2>3. IsRows(<<y, x>>, 2, S) /\ \A a, b : Above(<<y, x>>, a, b) => a = y /\ b = x
    BY <1>1, <1>3, <2>2
  <2>4. ASSUME NEW a, NEW b, Above(Pair(x, y), a, b) PROVE PairFirst(a, b)
    <3>1. a = y /\ b = x
      BY <2>1, <2>3, <2>4
    <3> QED
      BY <2>1, <3>1
  <2> QED
    BY <2>1, <2>3, <2>4 DEF x, y
<1> QED
  BY <1>4, <1>5

\* One group, ranked: one row stays, two are a pair, and more go on to the rest.
Resolved(g, rest) == CASE Len(g) = 1 -> g
                       [] Len(g) = 2 -> Pair(g[1], g[2])
                       [] OTHER -> rest

LEMMA ResolvedIsRows ==
    ASSUME ResultsOK, NEW S \in SUBSET GroupEntries, NEW m, NEW g, IsRows(g, m, S),
           NEW rest, NEW k, IsRows(rest, k, S)
    PROVE  /\ \E c : IsRows(Resolved(g, rest), c, S)
           /\ \A a, b : Above(Resolved(g, rest), a, b) =>
                \/ Cardinality(S) = 2 /\ PairFirst(a, b)
                \/ Cardinality(S) > 2 /\ Above(rest, a, b)
<1>1. m \in Nat /\ Len(g) = m /\ Cardinality(S) = m /\ DOMAIN g = 1..m
  <2>1. m \in Nat
    BY DEF IsRows
  <2> QED
    BY <2>1, RowsCount
<1>2. k = m /\ DOMAIN rest = 1..k
  BY <1>1, RowsCount
<1>3. CASE m = 1
  <2>1. Resolved(g, rest) = g
    BY <1>1, <1>3 DEF Resolved
  <2>2. \A a, b : ~Above(g, a, b)
    BY <1>1, <1>3 DEF Above
  <2> QED
    BY <2>1, <2>2
<1>4. CASE m = 2
  <2>1. Resolved(g, rest) = Pair(g[1], g[2])
    BY <1>1, <1>4 DEF Resolved
  <2>2. IsRows(g, 2, S)
    BY <1>4
  <2> QED
    BY <1>1, <1>4, <2>1, <2>2, PairIsRows
<1>5. CASE m # 1 /\ m # 2
  <2>1. Resolved(g, rest) = rest
    BY <1>1, <1>5 DEF Resolved
  <2>2. ASSUME NEW a, NEW b, Above(rest, a, b) PROVE m > 2
    <3>1. PICK i \in 1..m, j \in 1..m : i < j
      BY <1>2, <2>2 DEF Above
    <3> QED
      BY <1>1, <1>5, <3>1
  <2> QED
    BY <1>1, <2>1, <2>2
<1> QED
  BY <1>3, <1>4, <1>5

-----------------------------------------------------------------------------
(***************************************************************************)
(* An order gives each group of entries its pairs: <<a, b>> is in order[S] *)
(* when a is ranked above b in the group S.                                *)
(***************************************************************************)

\* table ranks the members of S by the order.
Ranks(table, S, order) ==
    /\ \E k : IsRows(table, k, S)
    /\ \A a, b : Above(table, a, b) => a \in S /\ b \in S /\ <<a, b>> \in order[S]

\* The order of Split: by the column, and those level on it as a pair or by the rest.
LevelWith(column, S, a) == {e \in S : column[e] = column[a]}
Goes(column, rest, S, a, b) ==
    \/ column[a] > column[b]
    \/ /\ column[a] = column[b]
       /\ \/ Cardinality(LevelWith(column, S, a)) = 2 /\ PairFirst(a, b)
          \/ /\ Cardinality(LevelWith(column, S, a)) > 2
             /\ <<a, b>> \in rest[LevelWith(column, S, a)]
ByColumn(column, rest) ==
    [S \in SUBSET GroupEntries |-> {p \in S \X S : Goes(column, rest, S, p[1], p[2])}]

NameOrder == [S \in SUBSET GroupEntries |-> {p \in S \X S : Name[p[1]] <= Name[p[2]]}]
RallyOrder == ByColumn(RallyDifference, NameOrder)
GamesOrder == ByColumn(Difference, RallyOrder)
WinsOrder == ByColumn(Wins, GamesOrder)

LEMMA ByColumnPairs ==
    ASSUME NEW column, NEW rest, NEW S \in SUBSET GroupEntries, NEW a \in S, NEW b \in S
    PROVE  <<a, b>> \in ByColumn(column, rest)[S] <=> Goes(column, rest, S, a, b)
  BY DEF ByColumn

\* The order has the pair both ways: its members may come out in either order.
BothWays(order, S, a, b) == <<a, b>> \in order[S] /\ <<b, a>> \in order[S]

LEMMA ByColumnBothWays ==
    ASSUME NEW column, \A e \in GroupEntries : column[e] \in Int, NEW rest,
           NEW S \in SUBSET GroupEntries, NEW a \in S, NEW b \in S,
           BothWays(ByColumn(column, rest), S, a, b)
    PROVE  /\ column[a] = column[b]
           /\ \/ PairFirst(a, b) /\ PairFirst(b, a)
              \/ \E C \in SUBSET GroupEntries :
                    a \in C /\ b \in C /\ BothWays(rest, C, a, b)
<1> DEFINE order == ByColumn(column, rest)
           level == LevelWith(column, S, a)
<1>1. column[a] \in Int /\ column[b] \in Int
  OBVIOUS
<1>2. Goes(column, rest, S, a, b) /\ Goes(column, rest, S, b, a)
  BY ByColumnPairs DEF BothWays
<1>3. column[a] = column[b]
  BY <1>1, <1>2 DEF Goes
<1>4. ~(column[a] > column[b]) /\ ~(column[b] > column[a])
  BY <1>1, <1>3
<1>5. /\ LevelWith(column, S, b) = level
      /\ a \in level /\ b \in level /\ level \in SUBSET GroupEntries
  BY <1>3 DEF LevelWith
<1>6. /\ \/ Cardinality(level) = 2 /\ PairFirst(a, b)
         \/ Cardinality(level) > 2 /\ <<a, b>> \in rest[level]
      /\ \/ Cardinality(level) = 2 /\ PairFirst(b, a)
         \/ Cardinality(level) > 2 /\ <<b, a>> \in rest[level]
  BY <1>2, <1>4, <1>5 DEF Goes
<1> HIDE DEF level
<1>7. CASE Cardinality(level) = 2
  <2>1. ~(Cardinality(level) > 2)
    BY <1>7
  <2> QED
    BY <1>3, <1>6, <2>1
<1>8. CASE Cardinality(level) # 2
  <2>1. BothWays(rest, level, a, b)
    BY <1>6, <1>8 DEF BothWays
  <2> QED
    BY <1>3, <1>5, <2>1
<1> QED
  BY <1>7, <1>8

\* Each large group has been ranked by the rest.
Ready(groups, rests, S, order) ==
    \A v \in DOMAIN groups : \A C \in SUBSET S :
        (\E c : IsRows(groups[v], c, C)) => Ranks(rests[v], C, order)

\* The groups joined again, each resolved.
Joined(groups, rests) == FlattenSeq([v \in DOMAIN groups |-> Resolved(groups[v], rests[v])])

LEMMA JoinedRanks ==
    ASSUME ResultsOK, NEW S \in SUBSET GroupEntries,
           NEW column, \A e \in S : column[e] \in Int,
           NEW groups, NEW n \in Nat, NEW place \in [S -> 1..n],
           AreClasses(groups, column, S, n, place),
           NEW rests, NEW order, Ready(groups, rests, S, order)
    PROVE  Ranks(Joined(groups, rests), S, ByColumn(column, order))
<1> DEFINE r == [v \in 1..n |-> Resolved(groups[v], rests[v])]
           Group(v) == {e \in S : place[e] = v}
<1>1. Joined(groups, rests) = FlattenSeq(r)
  BY DEF Joined, AreClasses
<1>2. r = [v \in 1..n |-> r[v]] /\ \A v \in 1..n : r[v] = Resolved(groups[v], rests[v])
  OBVIOUS
<1> HIDE DEF r
<1>3. ASSUME NEW v \in 1..n
      PROVE  /\ \E c : IsRows(r[v], c, Group(v))
             /\ \A a, b : Above(r[v], a, b) =>
                  \/ Cardinality(Group(v)) = 2 /\ PairFirst(a, b)
                  \/ Cardinality(Group(v)) > 2 /\ <<a, b>> \in order[Group(v)]
  <2>1. PICK c : IsRows(groups[v], c, Group(v))
    BY DEF AreClasses
  <2>2. Group(v) \in SUBSET S /\ Group(v) \in SUBSET GroupEntries /\ v \in DOMAIN groups
    BY DEF AreClasses
  <2>3. r[v] = Resolved(groups[v], rests[v])
    BY <1>2
  <2> HIDE DEF Group
  <2>4. Ranks(rests[v], Group(v), order)
    BY <2>1, <2>2 DEF Ready
  <2>5. PICK k : IsRows(rests[v], k, Group(v))
    BY <2>4 DEF Ranks
  <2>6. \A a, b : Above(rests[v], a, b) => <<a, b>> \in order[Group(v)]
    BY <2>4 DEF Ranks
  <2>7. /\ \E d : IsRows(r[v], d, Group(v))
        /\ \A a, b : Above(r[v], a, b) =>
             \/ Cardinality(Group(v)) = 2 /\ PairFirst(a, b)
             \/ Cardinality(Group(v)) > 2 /\ Above(rests[v], a, b)
    BY <2>1, <2>2, <2>3, <2>5, ResolvedIsRows
  <2> QED
    BY <2>6, <2>7
<1>4. AreGroups(r, n, place, S)
  BY <1>2, <1>3, Zenon DEF AreGroups
<1>5. /\ \E c : IsRows(FlattenSeq(r), c, S)
      /\ \A a, b : Above(FlattenSeq(r), a, b) =>
            /\ a \in S /\ b \in S
            /\ place[a] < place[b] \/ (place[a] = place[b] /\ Above(r[place[a]], a, b))
  BY <1>4, JoinedGroups
<1>6. ASSUME NEW a \in S, NEW b \in S
      PROVE  /\ place[a] < place[b] => column[a] > column[b]
             /\ place[a] = place[b] <=> column[a] = column[b]
  <2>1. column[a] \in Int /\ column[b] \in Int /\ place[a] \in 1..n /\ place[b] \in 1..n
    OBVIOUS
  <2>2. /\ column[a] > column[b] => place[a] < place[b]
        /\ column[b] > column[a] => place[b] < place[a]
        /\ column[a] = column[b] => place[a] = place[b]
    BY DEF AreClasses
  <2> QED
    BY <2>1, <2>2
<1>7. ASSUME NEW a, NEW b, Above(FlattenSeq(r), a, b)
      PROVE  a \in S /\ b \in S /\ <<a, b>> \in ByColumn(column, order)[S]
  <2>1. /\ a \in S /\ b \in S
        /\ place[a] < place[b] \/ (place[a] = place[b] /\ Above(r[place[a]], a, b))
    BY <1>5, <1>7
  <2>2. CASE place[a] < place[b]
    BY <1>6, <2>1, <2>2, ByColumnPairs DEF Goes
  <2>3. CASE place[a] = place[b] /\ Above(r[place[a]], a, b)
    <3> DEFINE v == place[a]
    <3>1. v \in 1..n
      BY <2>1
    <3>2. Group(v) = LevelWith(column, S, a) /\ column[a] = column[b]
      BY <1>6, <2>1, <2>3 DEF LevelWith
    <3> HIDE DEF Group
    <3>3. \/ Cardinality(Group(v)) = 2 /\ PairFirst(a, b)
          \/ Cardinality(Group(v)) > 2 /\ <<a, b>> \in order[Group(v)]
      BY <1>3, <2>3, <3>1
    <3>4. Goes(column, order, S, a, b)
      BY <3>2, <3>3 DEF Goes
    <3> QED
      BY <2>1, <3>4, ByColumnPairs
  <2> QED
    BY <2>1, <2>2, <2>3
<1> QED
  BY <1>1, <1>5, <1>7 DEF Ranks

LEMMA SplitRanks ==
    ASSUME ResultsOK, NEW S \in SUBSET GroupEntries, NEW m, NEW g, IsRows(g, m, S),
           NEW column, \A e \in S : column[e] \in Int,
           NEW rests, NEW order, Ready(Buckets(g, column), rests, S, order)
    PROVE  Ranks(Joined(Buckets(g, column), rests), S, ByColumn(column, order))
<1> DEFINE groups == Buckets(g, column)
<1>1. PICK n \in Nat : \E place \in [S -> 1..n] : AreClasses(groups, column, S, n, place)
  BY BucketsAreRows
<1>2. PICK place \in [S -> 1..n] : AreClasses(groups, column, S, n, place)
  BY <1>1
<1> QED
  BY <1>2, JoinedRanks

-----------------------------------------------------------------------------
\* The tables of the badminton rules.
LEMMA NameRanks ==
    ASSUME NEW S \in SUBSET GroupEntries, NEW m, NEW g, IsRows(g, m, S)
    PROVE  Ranks(ByName(g), S, NameOrder)
<1> DEFINE before == {p \in GroupEntries \X GroupEntries : Name[p[1]] < Name[p[2]]}
           below == {p \in GroupEntries \X GroupEntries : Name[p[1]] <= Name[p[2]]}
<1>1. \A a, b \in GroupEntries : /\ <<a, b>> \in before <=> Name[a] < Name[b]
                                 /\ <<a, b>> \in below <=> Name[a] <= Name[b]
  OBVIOUS
<1>2. ByName(g) = Sort(g, before)
  BY DEF ByName
<1> HIDE DEF before, below
<1>3. SortsInto(before, below)
  <2>1. ASSUME NEW a \in GroupEntries, NEW b \in GroupEntries
        PROVE  /\ <<a, b>> \in before => <<a, b>> \in below
               /\ <<b, a>> \notin before => <<a, b>> \in below
    <3>1. Name[a] \in Int /\ Name[b] \in Int
      BY NameIsInt
    <3> QED
      BY <1>1, <3>1
  <2>2. ASSUME NEW a \in GroupEntries, NEW b \in GroupEntries, NEW c \in GroupEntries,
               <<a, b>> \in below, <<b, c>> \in below
        PROVE  <<a, c>> \in below
    <3>1. Name[a] \in Int /\ Name[b] \in Int /\ Name[c] \in Int
      BY NameIsInt
    <3>2. Name[a] <= Name[b] /\ Name[b] <= Name[c]
      BY <1>1, <2>2
    <3>3. Name[a] <= Name[c]
      BY <3>1, <3>2
    <3> QED
      BY <1>1, <3>3
  <2> QED
    BY <2>1, <2>2 DEF SortsInto
<1>4. IsTable(below, ByName(g), m) /\ IsRows(ByName(g), m, S)
  BY <1>2, <1>3, SortMakesTable
<1>5. DOMAIN ByName(g) = 1..m /\ \A i \in 1..m : ByName(g)[i] \in S
  BY <1>4 DEF IsRows
<1>6. ASSUME NEW a, NEW b, Above(ByName(g), a, b)
      PROVE  a \in S /\ b \in S /\ <<a, b>> \in NameOrder[S]
  <2>1. PICK i \in 1..m, j \in 1..m : i < j /\ ByName(g)[i] = a /\ ByName(g)[j] = b
    BY <1>5, <1>6 DEF Above
  <2>2. a \in S /\ b \in S /\ <<a, b>> \in below
    BY <1>4, <1>5, <2>1 DEF IsTable
  <2>3. Name[a] <= Name[b]
    BY <1>1, <2>2
  <2> QED
    BY <2>2, <2>3 DEF NameOrder
<1> QED
  BY <1>4, <1>6 DEF Ranks

LEMMA WinsAreInt == \A e \in GroupEntries : Wins[e] \in Int
<1>1. 3 \in Int /\ 1 \in Int
  OBVIOUS
<1> QED
  BY <1>1, CountsAreInt

LEMMA ByRallyRanks ==
    ASSUME ResultsOK, NEW S \in SUBSET GroupEntries, NEW m, NEW g, IsRows(g, m, S)
    PROVE  Ranks(ByRally(g), S, RallyOrder)
<1> DEFINE groups == Buckets(g, RallyDifference)
           rests == [v \in DOMAIN groups |-> ByName(groups[v])]
<1>1. ByRally(g) = Joined(groups, rests)
  BY DEF ByRally, Split, Joined, Resolved
<1>2. \A e \in S : RallyDifference[e] \in Int
  BY RallyDifferenceIsInt
<1> HIDE DEF groups
<1>3. Ready(groups, rests, S, NameOrder)
  <2>1. ASSUME NEW v \in DOMAIN groups, NEW C \in SUBSET S, NEW c, IsRows(groups[v], c, C)
        PROVE  Ranks(rests[v], C, NameOrder)
    <3>1. C \in SUBSET GroupEntries /\ rests[v] = ByName(groups[v])
      OBVIOUS
    <3> QED
      BY <2>1, <3>1, NameRanks
  <2> HIDE DEF rests
  <2> QED
    BY <2>1 DEF Ready
<1> HIDE DEF rests
<1> QED
  BY <1>1, <1>2, <1>3, SplitRanks DEF groups, RallyOrder

LEMMA ByGamesRanks ==
    ASSUME ResultsOK, NEW S \in SUBSET GroupEntries, NEW m, NEW g, IsRows(g, m, S)
    PROVE  Ranks(ByGames(g), S, GamesOrder)
<1> DEFINE groups == Buckets(g, Difference)
           rests == [v \in DOMAIN groups |-> ByRally(groups[v])]
<1>1. ByGames(g) = Joined(groups, rests)
  BY DEF ByGames, Split, Joined, Resolved
<1>2. \A e \in S : Difference[e] \in Int
  BY DifferenceIsInt
<1> HIDE DEF groups
<1>3. Ready(groups, rests, S, RallyOrder)
  <2>1. ASSUME NEW v \in DOMAIN groups, NEW C \in SUBSET S, NEW c, IsRows(groups[v], c, C)
        PROVE  Ranks(rests[v], C, RallyOrder)
    <3>1. C \in SUBSET GroupEntries /\ rests[v] = ByRally(groups[v])
      OBVIOUS
    <3> QED
      BY <2>1, <3>1, ByRallyRanks
  <2> HIDE DEF rests
  <2> QED
    BY <2>1 DEF Ready
<1> HIDE DEF rests
<1> QED
  BY <1>1, <1>2, <1>3, SplitRanks DEF groups, GamesOrder

LEMMA BadmintonTableRanks ==
    ASSUME ResultsOK, NEW S \in SUBSET GroupEntries, NEW m, NEW g, IsRows(g, m, S)
    PROVE  Ranks(BadmintonTable(g), S, WinsOrder)
<1> DEFINE groups == Buckets(g, Wins)
           rests == [v \in DOMAIN groups |-> ByGames(groups[v])]
<1>1. BadmintonTable(g) = Joined(groups, rests)
  BY DEF BadmintonTable, Split, Joined, Resolved
<1>2. \A e \in S : Wins[e] \in Int
  BY WinsAreInt
<1> HIDE DEF groups
<1>3. Ready(groups, rests, S, GamesOrder)
  <2>1. ASSUME NEW v \in DOMAIN groups, NEW C \in SUBSET S, NEW c, IsRows(groups[v], c, C)
        PROVE  Ranks(rests[v], C, GamesOrder)
    <3>1. C \in SUBSET GroupEntries /\ rests[v] = ByGames(groups[v])
      OBVIOUS
    <3> QED
      BY <2>1, <3>1, ByGamesRanks
  <2> HIDE DEF rests
  <2> QED
    BY <2>1 DEF Ready
<1> HIDE DEF rests
<1> QED
  BY <1>1, <1>2, <1>3, SplitRanks DEF groups, WinsOrder

\* Two entries whose order the rules leave open are twins.
LEMMA OpenPairsAreTwins ==
    ASSUME ResultsOK, NEW a \in GroupEntries, NEW b \in GroupEntries, a # b,
           BothWays(WinsOrder, GroupEntries, a, b)
    PROVE  BadmintonTwins(a, b)
<1>1. PairFirst(a, b) /\ PairFirst(b, a) =>
        /\ Name[a] = Name[b] /\ Difference[a] = Difference[b]
        /\ RallyDifference[a] = RallyDifference[b]
  BY PairIsDecided
<1>2. /\ Wins[a] = Wins[b]
      /\ \/ PairFirst(a, b) /\ PairFirst(b, a)
         \/ \E C \in SUBSET GroupEntries :
               a \in C /\ b \in C /\ BothWays(GamesOrder, C, a, b)
  <2>1. GroupEntries \in SUBSET GroupEntries
    OBVIOUS
  <2> QED
    BY <2>1, WinsAreInt, ByColumnBothWays DEF WinsOrder
<1>3. ASSUME NEW C \in SUBSET GroupEntries, a \in C, b \in C, BothWays(GamesOrder, C, a, b)
      PROVE  /\ Difference[a] = Difference[b]
             /\ \/ PairFirst(a, b) /\ PairFirst(b, a)
                \/ \E D \in SUBSET GroupEntries :
                      a \in D /\ b \in D /\ BothWays(RallyOrder, D, a, b)
  BY <1>3, DifferenceIsInt, ByColumnBothWays DEF GamesOrder
<1>4. ASSUME NEW D \in SUBSET GroupEntries, a \in D, b \in D, BothWays(RallyOrder, D, a, b)
      PROVE  /\ RallyDifference[a] = RallyDifference[b]
             /\ \/ PairFirst(a, b) /\ PairFirst(b, a)
                \/ \E E \in SUBSET GroupEntries :
                      a \in E /\ b \in E /\ BothWays(NameOrder, E, a, b)
  BY <1>4, RallyDifferenceIsInt, ByColumnBothWays DEF RallyOrder
<1>5. ASSUME NEW E \in SUBSET GroupEntries, a \in E, b \in E, BothWays(NameOrder, E, a, b)
      PROVE  Name[a] = Name[b]
  <2>1. Name[a] <= Name[b] /\ Name[b] <= Name[a]
    BY <1>5 DEF BothWays, NameOrder
  <2>2. Name[a] \in Int /\ Name[b] \in Int
    BY NameIsInt
  <2> QED
    BY <2>1, <2>2
<1>6. /\ Name[a] = Name[b] /\ Difference[a] = Difference[b]
      /\ RallyDifference[a] = RallyDifference[b]
  BY <1>1, <1>2, <1>3, <1>4, <1>5
<1> QED
  BY <1>2, <1>6 DEF BadmintonTwins

LEMMA OneRanking ==
    ASSUME NEW order,
           \A a, b \in GroupEntries : a # b => ~BothWays(order, GroupEntries, a, b),
           NEW t, Ranks(t, GroupEntries, order),
           NEW u, Ranks(u, GroupEntries, order)
    PROVE  t = u
<1> DEFINE n == Cardinality(GroupEntries)
           before == order[GroupEntries]
<1>1. ASSUME NEW q, Ranks(q, GroupEntries, order)
      PROVE  IsRows(q, n, GroupEntries) /\ IsTable(before, q, n)
  <2>1. PICK k : IsRows(q, k, GroupEntries)
    BY <1>1 DEF Ranks
  <2>2. k = n /\ DOMAIN q = 1..n
    BY <2>1, RowsCount
  <2> HIDE DEF n
  <2>3. IsRows(q, n, GroupEntries)
    BY <2>1, <2>2
  <2>4. n \in Nat /\ q \in [1..n -> GroupEntries] /\ \A i, j \in 1..n : q[i] = q[j] => i = j
    BY <2>3 DEF IsRows
  <2>5. ASSUME NEW i \in 1..n, NEW j \in 1..n, i < j
        PROVE  q[i] # q[j] /\ <<q[i], q[j]>> \in before
    <3>1. Above(q, q[i], q[j])
      BY <2>2, <2>5 DEF Above
    <3>2. i # j
      BY <2>4, <2>5
    <3> QED
      BY <1>1, <2>4, <3>1, <3>2 DEF Ranks
  <2> HIDE DEF before
  <2> QED
    BY <2>3, <2>4, <2>5 DEF IsTable
<1>2. \A a, b \in GroupEntries : a # b /\ <<a, b>> \in before => <<b, a>> \notin before
  BY DEF BothWays
<1> HIDE DEF n, before
<1>3. /\ IsRows(t, n, GroupEntries) /\ IsTable(before, t, n)
      /\ IsRows(u, n, GroupEntries) /\ IsTable(before, u, n)
  BY <1>1
<1> QED
  BY <1>2, <1>3, TablesAgree

\* The order is the one the rules give.
LEMMA WinsOrderIsTheRule ==
    ASSUME ResultsOK, NEW table, Ranks(table, GroupEntries, WinsOrder)
    PROVE  RankedByRule(table)
<1> DEFINE onWins(a) == LevelWith(Wins, GroupEntries, a)
           onGames(a) == LevelWith(Difference, onWins(a), a)
           onRallies(a) == LevelWith(RallyDifference, onGames(a), a)
<1>1. ASSUME NEW a \in GroupEntries, NEW b \in GroupEntries, Above(table, a, b)
      PROVE  \/ Wins[a] > Wins[b]
             \/ /\ b \in onWins(a)
                /\ \/ Cardinality(onWins(a)) = 2 /\ ~Beat(b, a)
                   \/ Cardinality(onWins(a)) > 2 /\ Difference[a] > Difference[b]
                   \/ /\ Cardinality(onWins(a)) > 2 /\ b \in onGames(a)
                      /\ \/ Cardinality(onGames(a)) = 2 /\ ~Beat(b, a)
                         \/ /\ Cardinality(onGames(a)) > 2
                            /\ RallyDifference[a] > RallyDifference[b]
                         \/ /\ Cardinality(onGames(a)) > 2 /\ b \in onRallies(a)
                            /\ Cardinality(onRallies(a)) = 2 => ~Beat(b, a)
  <2>1. a # b
    <3>1. PICK k : IsRows(table, k, GroupEntries)
      BY DEF Ranks
    <3>2. DOMAIN table = 1..k /\ k \in Nat
      BY <3>1, RowsCount DEF IsRows
    <3>3. PICK i \in 1..k, j \in 1..k : i < j /\ table[i] = a /\ table[j] = b
      BY <1>1, <3>2 DEF Above
    <3>4. i # j
      BY <3>2, <3>3
    <3> QED
      BY <3>1, <3>3, <3>4 DEF IsRows
  <2>2. PairFirst(a, b) => ~Beat(b, a)
    BY <2>1, PairIsDecided
  <2>3. Goes(Wins, GamesOrder, GroupEntries, a, b)
    <3>1. <<a, b>> \in WinsOrder[GroupEntries]
      BY <1>1 DEF Ranks
    <3> QED
      BY <3>1, ByColumnPairs DEF WinsOrder
  <2>4. CASE Wins[a] > Wins[b]
    BY <2>4
  <2>5. CASE ~(Wins[a] > Wins[b])
    <3> DEFINE A == onWins(a)
    <3>1. /\ Wins[a] = Wins[b]
          /\ \/ Cardinality(A) = 2 /\ PairFirst(a, b)
             \/ Cardinality(A) > 2 /\ <<a, b>> \in GamesOrder[A]
      BY <2>3, <2>5 DEF Goes
    <3>2. A \in SUBSET GroupEntries /\ a \in A /\ b \in A
      BY <3>1 DEF LevelWith
    <3> HIDE DEF A
    <3>3. CASE Cardinality(A) = 2 /\ PairFirst(a, b)
      BY <2>2, <3>2, <3>3 DEF A
    <3>4. CASE Cardinality(A) > 2 /\ <<a, b>> \in GamesOrder[A]
      <4>1. Goes(Difference, RallyOrder, A, a, b)
        BY <3>2, <3>4, ByColumnPairs DEF GamesOrder
      <4>2. CASE Difference[a] > Difference[b]
        BY <3>2, <3>4, <4>2 DEF A
      <4>3. CASE ~(Difference[a] > Difference[b])
        <5> DEFINE B == LevelWith(Difference, A, a)
        <5>1. /\ Difference[a] = Difference[b]
              /\ \/ Cardinality(B) = 2 /\ PairFirst(a, b)
                 \/ Cardinality(B) > 2 /\ <<a, b>> \in RallyOrder[B]
          BY <4>1, <4>3 DEF Goes
        <5>2. B \in SUBSET GroupEntries /\ a \in B /\ b \in B
          BY <3>2, <5>1 DEF LevelWith
        <5> HIDE DEF B
        <5>3. CASE Cardinality(B) = 2 /\ PairFirst(a, b)
          BY <2>2, <3>2, <3>4, <5>2, <5>3 DEF A, B
        <5>4. CASE Cardinality(B) > 2 /\ <<a, b>> \in RallyOrder[B]
          <6>1. Goes(RallyDifference, NameOrder, B, a, b)
            BY <5>2, <5>4, ByColumnPairs DEF RallyOrder
          <6> DEFINE C == LevelWith(RallyDifference, B, a)
          <6>2. \/ RallyDifference[a] > RallyDifference[b]
                \/ /\ RallyDifference[a] = RallyDifference[b]
                   /\ Cardinality(C) = 2 => ~Beat(b, a)
            <7>1. ~(2 > 2)
              OBVIOUS
            <7> HIDE DEF C
            <7> QED
              BY <2>2, <6>1, <7>1 DEF Goes, C
          <6>3. RallyDifference[a] = RallyDifference[b] => b \in C
            BY <5>2 DEF LevelWith
          <6> HIDE DEF C
          <6> QED
            BY <3>2, <3>4, <5>2, <5>4, <6>2, <6>3 DEF A, B, C
        <5> QED
          BY <5>1, <5>3, <5>4
      <4> QED
        BY <4>2, <4>3
    <3> QED
      BY <3>1, <3>3, <3>4
  <2> QED
    BY <2>4, <2>5
<1> QED
  BY <1>1, Zenon DEF RankedByRule, LevelWith

\* The table of CalculateBadmintonStandings is ranked by the rules the code cites in
\* whatever order Go's map yields the rows, for a group of any size and any results; and it
\* is the same for every order, unless two entries of one name are level to the end.
THEOREM BadmintonIsByRule == Spec => []BadmintonByRule
<1>1. TypeOK => BadmintonByRule
  <2> SUFFICES ASSUME ResultsOK PROVE BadmintonByRule
    BY DEF TypeOK, ResultsOK
  <2> DEFINE tables == {BadmintonTable(o) : o \in Orders}
  <2>1. ASSUME NEW o \in Orders PROVE Ranks(BadmintonTable(o), GroupEntries, WinsOrder)
    <3>1. IsRows(o, GroupSize, GroupEntries) /\ GroupEntries \in SUBSET GroupEntries
      BY OrderIsRows
    <3> QED
      BY <3>1, BadmintonTableRanks
  <2>2. AnOrder \in Orders
    BY DEF AnOrder, Orders
  <2>3. \A table \in tables : RankedByRule(table)
    BY <2>1, WinsOrderIsTheRule
  <2>4. ASSUME \A a, b \in GroupEntries : ~BadmintonTwins(a, b)
        PROVE  Cardinality(tables) = 1
    <3>1. \A a, b \in GroupEntries : a # b => ~BothWays(WinsOrder, GroupEntries, a, b)
      BY <2>4, OpenPairsAreTwins
    <3>2. \A o \in Orders : BadmintonTable(o) = BadmintonTable(AnOrder)
      BY <2>1, <2>2, <3>1, OneRanking
    <3>3. tables = {BadmintonTable(AnOrder)}
      BY <2>2, <3>2
    <3> QED
      BY <3>3, FS_Singleton
  <2> QED
    BY <2>3, <2>4 DEF BadmintonByRule
<1> QED
  BY <1>1, TypeCorrect, PTL
=============================================================================
