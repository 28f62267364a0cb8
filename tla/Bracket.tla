------------------------------ MODULE Bracket -------------------------------
(***************************************************************************)
(* ONE single-elimination stage: the bracket that CreateStage generates    *)
(* and the calls of RecordMatchScore that enter, correct and take back     *)
(* results and carry the winners on.  Stage composes it with group stages. *)
(*                                                                         *)
(* A call is a READ COMMITTED transaction: it writes its match, reads the  *)
(* match downstream without a lock, and writes the winner there if that    *)
(* match is still SCHEDULED.  Its writes hold the rows' locks and are seen *)
(* by others when it commits.                                              *)
(***************************************************************************)
EXTENDS Fixtures, FiniteSets

CONSTANTS
    N,              \* entries
    Calls,          \* concurrent calls of RecordMatchScore; each may be made again
    Recorded,       \* the matches calls are made for (bound)
    Named,          \* entries a call may name as the winner although they are no side of the
                    \* match (bound); those above N play in other stages
    Statuses        \* statuses they give (bound)

AllStatuses == {"SCHEDULED", "LIVE", "COMPLETED", "SUSPENDED", "CANCELLED",
    "FORFEIT", "WALKOVER", "BYE"}

ASSUME EntriesAssumption == N \in Nat \ {0, 1}
ASSUME RecordedAssumption == Recorded \subseteq BracketMatches(N)
ASSUME StatusesAssumption == Statuses \subseteq AllStatuses

ASSUME NamedAssumption == Named \subseteq Nat \ {Nobody}

Matches == BracketMatches(N)
Entries == 1..N

VARIABLES
    match,          \* the committed rows
    call,           \* each call: its match, what it has written, how far it is
    sidesWin        \* history: every winner committed so far was a side of its match

bracketVars == <<match, call, sidesWin>>

Players == Entries \cup Named \cup {Nobody}
Rows == [home : Players, away : Players, status : AllStatuses, winner : Players]

NoCall == [at |-> "idle"]

BracketTypeOK ==
    /\ match \in [Matches -> Rows]
    /\ \A c \in Calls :
        \/ call[c] = NoCall
        \/ /\ call[c].at \in {"written", "checked"}
           /\ call[c].of \in Recorded /\ call[c].row \in Rows
    /\ sidesWin \in BOOLEAN

BracketInit ==
    /\ match = SingleElimination(N)
    /\ call = [c \in Calls |-> NoCall]
    /\ sidesWin = TRUE

-----------------------------------------------------------------------------
Advancing == {"COMPLETED", "FORFEIT", "WALKOVER", "BYE"}

NextMatch(m) == <<m[1] + 1, (m[2] + 1) \div 2>>
HasNext(m) == NextMatch(m) \in Matches
NextSide(m) == IF m[2] % 2 = 1 THEN "home" ELSE "away"

\* The row of m is locked by a call other than c.
Locked(m, c) == \E d \in Calls \ {c} : call[d].at # "idle" /\ call[d].of = m

\* Who goes on: the winner named, or the one present, or the one ahead.
WinEntry(row, named, lead) ==
    IF named # Nobody THEN named
    ELSE IF row.home # Nobody /\ row.away = Nobody THEN row.home
    ELSE IF lead = "home" THEN row.home
    ELSE IF lead = "away" THEN row.away
    ELSE Nobody

\* UpdateMatchScoreScoped.  The row's winner stands here for all that decides who goes
\* on: the winner the call names and the score.  Nothing asks that the winner named be
\* one of the two, or an entry of the stage.
WriteScore(c, m) ==
    /\ call[c] = NoCall /\ ~Locked(m, c)
    /\ \E s \in Statuses, lead \in {"home", "away", "draw"},
          named \in Named \cup {match[m].home, match[m].away, Nobody} :
        call' = [call EXCEPT ![c] = [at |-> "written", of |-> m,
            row |-> [home |-> match[m].home, away |-> match[m].away, status |-> s,
                winner |-> IF s \in Advancing
                           THEN WinEntry(match[m], named, lead) ELSE Nobody]]]
    /\ UNCHANGED <<match, sidesWin>>

\* The match downstream is under way or over.
DownstreamLocked(m) == HasNext(m) /\ match[NextMatch(m)].status # "SCHEDULED"

\* GetMatchByRoundAndNumber: the call is refused, and rolls back, or goes on.
CheckDownstream(c) ==
    /\ call[c].at = "written"
    /\ call' = [call EXCEPT ![c] =
        IF DownstreamLocked(call[c].of) THEN NoCall ELSE [@ EXCEPT !.at = "checked"]]
    /\ UNCHANGED <<match, sidesWin>>

MutCanAdvance(row) == TRUE
\* The guard of UpdateMatchParticipantsScheduled.
CanAdvance(row) == row.status = "SCHEDULED"

MutAdvanced(m, row) ==
    LET next == NextMatch(m)
    IN  [match EXCEPT ![m] = row,
            ![next][NextSide(m)] = IF CanAdvance(match[next]) THEN row.winner ELSE @]
\* The rows once the winner of m is written downstream: all of it, or, refused there,
\* nothing, the transaction being rolled back.
Advanced(m, row) ==
    LET next == NextMatch(m)
    IN  IF CanAdvance(match[next])
        THEN [match EXCEPT ![m] = row, ![next][NextSide(m)] = row.winner]
        ELSE match

\* The rest of the call: the winner goes on, if there is one and a match to go to.
Commit(c) ==
    LET m == call[c].of
        row == call[c].row
    IN  /\ call[c].at = "checked"
        /\ IF row.winner # Nobody /\ HasNext(m)
           THEN ~Locked(NextMatch(m), c) /\ match' = Advanced(m, row)
           ELSE match' = [match EXCEPT ![m] = row]
        /\ sidesWin' = (sidesWin /\ row.winner \in {row.home, row.away, Nobody})
        /\ call' = [call EXCEPT ![c] = NoCall]

\* The connection is lost: the transaction rolls back.
Abort(c) ==
    /\ call[c].at # "idle"
    /\ call' = [call EXCEPT ![c] = NoCall]
    /\ UNCHANGED <<match, sidesWin>>

BracketNext ==
    \E c \in Calls :
        \/ \E m \in Recorded : WriteScore(c, m)
        \/ CheckDownstream(c) \/ Commit(c) \/ Abort(c)

-----------------------------------------------------------------------------
Decided(m) == match[m].status \in Advancing /\ match[m].winner # Nobody

\* Whoever won a match that stands as decided is the one who plays, or played, the next,
\* whatever corrections race with it.
WinnerPlaysOn ==
    \A m \in Matches : Decided(m) /\ HasNext(m) =>
        match[NextMatch(m)][NextSide(m)] = match[m].winner

\* A match that is not SCHEDULED keeps its two sides: no correction of an earlier match
\* replaces a player under way.
StartedKeepsSides ==
    [][\A m \in Matches :
        match[m].status # "SCHEDULED" /\ match'[m].status # "SCHEDULED" =>
            match'[m].home = match[m].home /\ match'[m].away = match[m].away]_bracketVars

\* The draw keeps the seeds apart: two of the first 2^j seeds meet only when 2^j are
\* left, whichever side wins each match on the way.  (RecordMatchScore advances whomever a
\* call names; an entry that was no side of its match may turn up anywhere.)
SeedsMeetLate ==
    sidesWin => \A m \in Matches, j \in 1..Rounds(N) :
        LET row == match[m]
        IN  row.home \in 1..PowerOf2(j) /\ row.away \in 1..PowerOf2(j) =>
                m[1] > Rounds(N) - j
=============================================================================
