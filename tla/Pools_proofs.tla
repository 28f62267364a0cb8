---------------------------- MODULE Pools_proofs ----------------------------
(***************************************************************************)
(* Theorems about the two components that issue grants from access pools:  *)
(* AccessPool, for any finite sets of calls, any number of uses and any    *)
(* sizes of the pool, and BallotDraw, for any number of entrants, any      *)
(* quota and any number of calls of RunDraw and AnnounceDraw.              *)
(*                                                                         *)
(* The argument for AccessPool: a call owns a place from ReservePoolSlot   *)
(* on, first with nothing to show for it and then with its grant, and no   *)
(* failure gives a place back.  So the calls that own one (Placed) never   *)
(* outnumber the places taken, whatever fails.                             *)
(*                                                                         *)
(* The argument for BallotDraw: of all calls of RunDraw only the one that  *)
(* sets the seed ever draws.  It lists the entries when there is no row    *)
(* yet, so the rows are always a beginning of its list in order, all of it *)
(* once the loop is over, and only the call that gets that far writes      *)
(* DRAWN, which every announcement has read.  Winners are marked, listed   *)
(* and granted only from such rows; and as that call makes the pool once,  *)
(* before any place is taken, a place stands behind every grant.           *)
(***************************************************************************)
EXTENDS AccessPool, BallotDraw, FiniteSetTheorems, SequenceTheorems, TLAPS

\* A place reserved, and one consumed.
LEMMA SlotReserved ==
    ASSUME NEW T, NEW p \in [total : T, reserved : Nat, used : Nat]
    PROVE  /\ ReserveSlot(p) \in [total : T, reserved : Nat, used : Nat]
           /\ ReserveSlot(p).total = p.total
           /\ ReserveSlot(p).reserved = p.reserved + 1
           /\ ReserveSlot(p).used = p.used
<1>1. ReserveSlot(p) = [total |-> p.total, reserved |-> p.reserved + 1, used |-> p.used]
  BY DEF ReserveSlot
<1> QED
  BY <1>1

LEMMA SlotConsumed ==
    ASSUME NEW T, NEW p \in [total : T, reserved : Nat, used : Nat], p.reserved >= 1
    PROVE  /\ ConsumeSlot(p) \in [total : T, reserved : Nat, used : Nat]
           /\ ConsumeSlot(p).total = p.total
           /\ ConsumeSlot(p).reserved = p.reserved - 1
           /\ ConsumeSlot(p).used = p.used + 1
<1>1. ConsumeSlot(p) = [total |-> p.total, reserved |-> p.reserved - 1, used |-> p.used + 1]
  <2>1. DOMAIN p = {"total", "reserved", "used"}
    OBVIOUS
  <2>2. ConsumeSlot(p) = [k \in DOMAIN p |-> IF k = "used" THEN p.used + 1
                            ELSE IF k = "reserved" THEN p.reserved - 1 ELSE p[k]]
    BY <2>1, Zenon DEF ConsumeSlot
  <2> QED
    BY <2>1, <2>2
<1>2. p.reserved \in Nat /\ p.used \in Nat /\ p.total \in T
  OBVIOUS
<1>3. \A m, n \in Nat : m >= 1 => m - 1 \in Nat /\ n + 1 \in Nat
  OBVIOUS
<1>4. p.reserved - 1 \in Nat /\ p.used + 1 \in Nat
  BY <1>2, <1>3
<1> QED
  BY <1>1, <1>2, <1>4

LEMMA OneMore ==
    ASSUME NEW S, IsFiniteSet(S), NEW x
    PROVE  /\ IsFiniteSet(S \cup {x}) /\ Cardinality(S \cup {x}) \in Nat
           /\ Cardinality(S) \in Nat /\ Cardinality(S \cup {x}) <= Cardinality(S) + 1
<1>1. IsFiniteSet(S \cup {x}) /\ Cardinality(S) \in Nat /\ Cardinality(S \cup {x}) \in Nat
  BY FS_AddElement, FS_CardinalityType
<1>2. Cardinality(S \cup {x}) = IF x \in S THEN Cardinality(S) ELSE Cardinality(S) + 1
  BY FS_AddElement
<1> QED
  BY <1>1, <1>2

-----------------------------------------------------------------------------
(***************************************************************************)
(* AccessPool.                                                             *)
(***************************************************************************)

Placed == {c \in Calls : grant[c] # "NONE" \/ step[c] = "reserved"}
Answered == {r \in Redeems : step[r] = "answered"}

SlotsInv ==
    /\ Cardinality(Placed) <= pool.reserved + pool.used
    /\ pool.reserved + pool.used <= pool.total
UsesInv == Cardinality(Answered) <= useCount

AccessInv == AccessTypeOK /\ SlotsInv /\ UsesInv

-----------------------------------------------------------------------------
LEMMA SetsFinite ==
    /\ IsFiniteSet(Placed) /\ Cardinality(Placed) \in Nat
    /\ IsFiniteSet(Answered) /\ Cardinality(Answered) \in Nat
    /\ IsFiniteSet(Granted) /\ Cardinality(Granted) <= Cardinality(Placed)
<1>1. Placed \subseteq Calls /\ Answered \subseteq Calls /\ Granted \subseteq Placed
  BY DEF Placed, Answered, Granted, Calls
<1>2. IsFiniteSet(Placed) /\ IsFiniteSet(Answered)
  BY <1>1, CallsAssumption, FS_Subset
<1> QED
  BY <1>1, <1>2, FS_Subset, FS_CardinalityType

LEMMA AccessInitInv == AccessInit => AccessInv
<1> SUFFICES ASSUME AccessInit PROVE AccessInv
  OBVIOUS
<1>1. AccessTypeOK
  <2>1. pool \in [total : Totals, reserved : Nat, used : Nat]
    BY DEF AccessInit, NewPool
  <2>2. useCount \in 0..MaxUses
    BY SlotsAssumption DEF AccessInit
  <2>3. valid \in BOOLEAN
    BY DEF AccessInit
  <2>4. grant \in [Calls -> {"NONE", "ACTIVE", "CONSUMED"}] /\ step \in [Calls -> Steps]
    BY DEF AccessInit, Steps
  <2> QED
    BY <2>1, <2>2, <2>3, <2>4 DEF AccessTypeOK
<1>2. Placed = {} /\ Answered = {}
  BY DEF AccessInit, Placed, Answered, Calls
<1>3. pool.reserved = 0 /\ pool.used = 0 /\ pool.total \in Nat
  BY SlotsAssumption DEF AccessInit, NewPool
<1> QED
  BY <1>1, <1>2, <1>3, FS_EmptySet DEF AccessInv, SlotsInv, UsesInv, AccessInit

-----------------------------------------------------------------------------
\* A call that takes a place becomes the one more that owns one.
LEMMA TakePlaceStep == ASSUME AccessInv, NEW c \in Calls, TakePlace(c) PROVE AccessInv'
<1> USE DEF AccessInv
<1>1. AccessTypeOK'
  BY DEF TakePlace, Goto, ReserveSlot, codeVars, AccessTypeOK, Steps
<1>2. Answered' \subseteq Answered
  BY DEF TakePlace, Goto, AccessTypeOK, Answered, Calls
<1>3. UsesInv'
  BY <1>2, SetsFinite, FS_Subset, FS_CardinalityType
  DEF TakePlace, codeVars, UsesInv, AccessTypeOK
<1>4. SlotsInv'
  <2>1. CASE HasSlot(pool)
    <3>1. Placed' \subseteq Placed \cup {c}
      BY <2>1 DEF TakePlace, Goto, AccessTypeOK, Placed
    <3>2. /\ IsFiniteSet(Placed \cup {c})
          /\ Cardinality(Placed \cup {c}) <= Cardinality(Placed) + 1
      BY SetsFinite, FS_AddElement
    <3>3. Cardinality(Placed') <= Cardinality(Placed) + 1
      BY <3>1, <3>2, SetsFinite, FS_Subset, FS_CardinalityType
    <3>4. /\ pool'.reserved = pool.reserved + 1
          /\ pool'.used = pool.used /\ pool'.total = pool.total
          /\ pool.reserved \in Nat /\ pool.used \in Nat /\ pool.total \in Nat
      BY <2>1, SlotsAssumption DEF TakePlace, ReserveSlot, AccessTypeOK
    <3>5. Cardinality(Placed') \in Nat
      BY <3>1, <3>2, FS_Subset, FS_CardinalityType
    <3> QED
      BY <2>1, <3>3, <3>4, <3>5, SetsFinite DEF HasSlot, SlotsInv
  <2>2. CASE ~HasSlot(pool)
    <3>1. Placed' \subseteq Placed /\ pool' = pool
      BY <2>2 DEF TakePlace, Goto, AccessTypeOK, Placed
    <3> QED
      BY <3>1, SetsFinite, FS_Subset, FS_CardinalityType, SlotsAssumption DEF SlotsInv, AccessTypeOK
  <2> QED
    BY <2>1, <2>2
<1> QED
  BY <1>1, <1>3, <1>4

\* The grant takes over the place, or the call keeps what it has.
LEMMA WriteGrantStep == ASSUME AccessInv, NEW c \in Calls, WriteGrant(c) PROVE AccessInv'
<1> USE DEF AccessInv
<1>1. AccessTypeOK'
  BY DEF WriteGrant, Goto, codeVars, AccessTypeOK, Steps
<1>2. Placed' \subseteq Placed
  BY DEF WriteGrant, Goto, AccessTypeOK, Placed
<1>3. Answered' \subseteq Answered
  BY CallsAssumption DEF WriteGrant, Goto, AccessTypeOK, Answered, Calls
<1>4. SlotsInv'
  BY <1>2, SetsFinite, FS_Subset, FS_CardinalityType, SlotsAssumption
  DEF SlotsInv, AccessTypeOK, WriteGrant
<1>5. UsesInv'
  BY <1>3, SetsFinite, FS_Subset, FS_CardinalityType
  DEF UsesInv, AccessTypeOK, WriteGrant, codeVars
<1> QED
  BY <1>1, <1>4, <1>5

\* A redemption that succeeds is one more, and is counted.
LEMMA CountUseStep == ASSUME AccessInv, NEW r \in Redeems, CountUse(r) PROVE AccessInv'
<1> USE DEF AccessInv
<1>1. AccessTypeOK'
  <2>1. useCount' \in 0..MaxUses
    BY SlotsAssumption DEF CountUse, IncrementUse, AccessTypeOK
  <2>2. step' \in [Calls -> Steps]
    BY DEF CountUse, IncrementUse, Goto, AccessTypeOK, Steps, Calls
  <2> QED
    BY <2>1, <2>2 DEF CountUse, AccessTypeOK
<1>2. Placed' \subseteq Placed /\ pool' = pool
  BY DEF CountUse, IncrementUse, Goto, AccessTypeOK, Placed, Calls
<1>3. SlotsInv'
  BY <1>2, SetsFinite, FS_Subset, FS_CardinalityType, SlotsAssumption DEF SlotsInv, AccessTypeOK
<1>4. CASE useCount < MaxUses
  <2>1. Answered' = Answered \cup {r} /\ r \notin Answered /\ useCount' = useCount + 1
    BY <1>4 DEF CountUse, IncrementUse, Goto, AccessTypeOK, Answered, Calls
  <2>2. Cardinality(Answered') = Cardinality(Answered) + 1
    BY <2>1, SetsFinite, FS_AddElement
  <2> QED
    BY <1>1, <1>3, <2>1, <2>2, SetsFinite DEF UsesInv, AccessTypeOK
<1>5. CASE ~(useCount < MaxUses)
  <2>1. Answered' \subseteq Answered /\ useCount' = useCount
    BY <1>5 DEF CountUse, IncrementUse, Goto, AccessTypeOK, Answered, Calls
  <2> QED
    BY <1>1, <1>3, <2>1, SetsFinite, FS_Subset, FS_CardinalityType DEF UsesInv, AccessTypeOK
<1> QED
  BY <1>4, <1>5

\* The steps that take no place, write no grant and count no use.
LEMMA OtherCallStep ==
    ASSUME AccessInv, NEW c \in Calls,
           \/ c \in Redeems /\ RedeemCheck(c)
           \/ c \in Checks /\ PriorityCheck(c)
           \/ CallDies(c)
           \/ UseGrant(c)
    PROVE  AccessInv'
<1> USE DEF AccessInv
<1>1. AccessTypeOK'
  BY DEF RedeemCheck, PriorityCheck, CallDies, UseGrant, Goto, codeVars, AccessTypeOK, Steps
<1>2. pool' = pool /\ useCount' = useCount
  BY DEF RedeemCheck, PriorityCheck, CallDies, UseGrant, codeVars
<1>3. Placed' \subseteq Placed
  BY DEF RedeemCheck, PriorityCheck, CallDies, UseGrant, Goto, AccessTypeOK, Placed
<1>4. Answered' \subseteq Answered
  BY CallsAssumption
  DEF RedeemCheck, PriorityCheck, CallDies, UseGrant, Goto, AccessTypeOK, Answered, Calls
<1>5. SlotsInv'
  BY <1>2, <1>3, SetsFinite, FS_Subset, FS_CardinalityType, SlotsAssumption
  DEF SlotsInv, AccessTypeOK
<1>6. UsesInv'
  BY <1>2, <1>4, SetsFinite, FS_Subset, FS_CardinalityType DEF UsesInv, AccessTypeOK
<1> QED
  BY <1>1, <1>5, <1>6

\* The organizer never shrinks the pool below what is taken.
LEMMA AdjustStep == ASSUME AccessInv, NEW n \in Totals, AdjustTotalSlots(n) PROVE AccessInv'
<1>1. /\ pool'.total = n /\ pool'.reserved = pool.reserved /\ pool'.used = pool.used
      /\ pool' \in [total : Totals, reserved : Nat, used : Nat]
  BY DEF AccessInv, AdjustTotalSlots, AccessTypeOK
<1>2. AccessTypeOK'
  BY <1>1 DEF AccessInv, AdjustTotalSlots, codeVars, AccessTypeOK
<1>3. Placed' = Placed /\ Answered' = Answered /\ useCount' = useCount
  BY DEF AdjustTotalSlots, codeVars, Placed, Answered
<1>4. SlotsInv'
  BY <1>1, <1>3, SlotsAssumption
  DEF AccessInv, AdjustTotalSlots, CanTransfer, SlotsInv, AccessTypeOK
<1> QED
  BY <1>2, <1>3, <1>4 DEF AccessInv, UsesInv

LEMMA AccessNextStep == AccessInv /\ [AccessNext]_accessVars => AccessInv'
<1> SUFFICES ASSUME AccessInv, [AccessNext]_accessVars PROVE AccessInv'
  OBVIOUS
<1>1. CASE RevokeCode
  BY <1>1 DEF RevokeCode, AccessInv, AccessTypeOK, SlotsInv, UsesInv, Placed, Answered
<1>2. CASE UNCHANGED accessVars
  BY <1>2 DEF accessVars, AccessInv, AccessTypeOK, SlotsInv, UsesInv, Placed, Answered
<1> QED
  BY <1>1, <1>2, TakePlaceStep, WriteGrantStep, CountUseStep, OtherCallStep, AdjustStep
  DEF AccessNext, Calls

\* The invariant of the other theorems.
THEOREM AccessInductive == AccessSpec => []AccessInv
BY AccessInitInv, AccessNextStep, PTL DEF AccessSpec

\* AccessTypeOK: the guarded increment never counts past max_uses.
THEOREM AccessTypeCorrect == AccessSpec => []AccessTypeOK
BY AccessInductive, PTL DEF AccessInv

\* GrantsHavePlaces: Redeem and CheckPriorityAdmission, failing wherever they may, never
\* issue more grants than places were taken, nor take more places than the pool has.
THEOREM PlacesCoverGrants == AccessSpec => []GrantsHavePlaces
<1>1. AccessInv => GrantsHavePlaces
  BY SetsFinite, FS_CardinalityType, SlotsAssumption
  DEF AccessInv, SlotsInv, AccessTypeOK, GrantsHavePlaces
<1> QED
  BY <1>1, AccessInductive, PTL

\* AnsweredWithinUses: no more calls of Redeem succeed than the code has uses.
THEOREM UsesRespected == AccessSpec => []AnsweredWithinUses
<1>1. AccessInv => AnsweredWithinUses
  BY SetsFinite, SlotsAssumption DEF AccessInv, UsesInv, AccessTypeOK, AnsweredWithinUses, Answered
<1> QED
  BY <1>1, AccessInductive, PTL

-----------------------------------------------------------------------------
(***************************************************************************)
(* BallotDraw.                                                             *)
(***************************************************************************)

\* Any set of numbers can be listed in ascending order.
LEMMA Ascending ==
    ASSUME NEW S \in SUBSET Int, IsFiniteSet(S)
    PROVE  \E s \in SetToSeqs(S) : \A i, j \in DOMAIN s : i < j => s[i] < s[j]
<1> DEFINE n == Cardinality(S)
           upTo(e) == {d \in S : d <= e}
           place == [e \in S |-> Cardinality(upTo(e))]
           list == [i \in 1..n |-> CHOOSE e \in S : place[e] = i]
<1>1. n \in Nat /\ IsFiniteSet(1..n) /\ Cardinality(1..n) = n
  BY FS_CardinalityType, FS_Interval
<1>2. ASSUME NEW e \in S
      PROVE  IsFiniteSet(upTo(e)) /\ place[e] = Cardinality(upTo(e)) /\ place[e] \in 1..n
  <2>1. IsFiniteSet(upTo(e)) /\ Cardinality(upTo(e)) <= n
    BY FS_Subset
  <2>2. upTo(e) # {}
    OBVIOUS
  <2> QED
    BY <1>1, <2>1, <2>2, FS_EmptySet, FS_CardinalityType
<1>3. ASSUME NEW d \in S, NEW e \in S, d < e PROVE place[d] < place[e]
  <2>1. d \in Int /\ e \in Int /\ \A x \in S : x \in Int
    OBVIOUS
  <2>2. upTo(d) \subseteq upTo(e)
    <3> SUFFICES ASSUME NEW x \in S, x <= d PROVE x <= e
      OBVIOUS
    <3> QED
      BY <1>3, <2>1
  <2>3. e \in upTo(e) /\ e \notin upTo(d)
    BY <1>3, <2>1
  <2> QED
    BY <1>2, <2>2, <2>3, FS_Subset
<1>4. \A d, e \in S : place[d] < place[e] => d < e
  <2> SUFFICES ASSUME NEW d \in S, NEW e \in S, place[d] < place[e], ~(d < e) PROVE FALSE
    OBVIOUS
  <2>1. d = e \/ e < d
    OBVIOUS
  <2> QED
    BY <1>2, <1>3, <2>1
<1> HIDE DEF place
<1>5. place \in Injection(S, 1..n)
  <2>1. place \in [S -> 1..n]
    BY <1>2 DEF place
  <2>2. ASSUME NEW d \in S, NEW e \in S, place[d] = place[e], d # e PROVE FALSE
    <3>1. d < e \/ e < d
      BY <2>2
    <3>2. place[d] \in Int /\ place[e] \in Int
      BY <2>1
    <3> QED
      BY <1>3, <2>2, <3>1, <3>2
  <2> QED
    BY <2>1, <2>2 DEF Injection, IsInjective
<1>6. place \in Surjection(S, 1..n)
  BY <1>1, <1>5, FS_Injection
<1>7. ASSUME NEW i \in 1..n PROVE list[i] \in S /\ place[list[i]] = i
  BY <1>6 DEF Surjection
<1>8. list \in SetToSeqs(S)
  BY <1>7 DEF SetToSeqs
<1>9. ASSUME NEW i \in 1..n, NEW j \in 1..n, i < j PROVE list[i] < list[j]
  <2>1. list[i] \in S /\ list[j] \in S /\ place[list[i]] < place[list[j]]
    BY <1>7, <1>9
  <2> HIDE DEF list
  <2> QED
    BY <1>4, <2>1
<1>10. DOMAIN list = 1..n
  OBVIOUS
<1> HIDE DEF list
<1> QED
  BY <1>8, <1>9, <1>10

LEMMA ListedOnce ==
    /\ ListApplied \in Seq(Entrants) /\ IsInjective(ListApplied)
    /\ Len(ListApplied) <= N
    /\ \A s \in Shuffles(ListApplied) : s \in Seq(Entrants) /\ Len(s) = Len(ListApplied)
<1> DEFINE n == Cardinality(Applied)
<1>1. /\ Applied \in SUBSET Int /\ Applied \subseteq Entrants
      /\ IsFiniteSet(Applied) /\ n \in Nat /\ n <= N
  <2>1. IsFiniteSet(Entrants) /\ Cardinality(Entrants) = N /\ Entrants \subseteq Int
    BY FS_Interval, SizesAssumption DEF Entrants
  <2> QED
    BY <2>1, FS_Subset, FS_CardinalityType DEF Applied
<1>2. ListApplied \in SetToSeqs(Applied)
  BY <1>1, Ascending DEF ListApplied
<1>3. ListApplied \in [1..n -> Applied] /\ IsInjective(ListApplied)
  BY <1>2 DEF SetToSeqs, IsInjective
<1>4. ListApplied \in Seq(Applied) /\ ListApplied \in Seq(Entrants) /\ Len(ListApplied) = n
  <2>1. ListApplied \in Seq(Applied)
    BY <1>1, <1>3, SeqDef
  <2>2. ListApplied \in [1..n -> Entrants]
    BY <1>1, <1>3
  <2>3. ListApplied \in Seq(Entrants)
    BY <1>1, <2>2, SeqDef
  <2> QED
    BY <1>1, <1>3, <2>1, <2>3, LenProperties
<1>5. ASSUME NEW s \in Shuffles(ListApplied)
      PROVE  s \in Seq(Entrants) /\ Len(s) = Len(ListApplied)
  <2>1. s \in [1..n -> Entrants]
    BY <1>1, <1>3, <1>4 DEF Shuffles, ToSet
  <2>2. s \in Seq(Entrants)
    BY <1>1, <2>1, SeqDef
  <2> QED
    BY <1>1, <1>4, <2>1, <2>2, LenProperties
<1> QED
  BY <1>1, <1>3, <1>4, <1>5

-----------------------------------------------------------------------------
\* From the seed to the end of the call; up to the pool; and after the inserts.
DrawSteps == Outcomes \cup {"seeded", "inserting", "pool", "link", "finish"}
PoollessSteps == Outcomes \cup {"seeded", "inserting", "pool"}
InsertedSteps == Outcomes \cup {"pool", "link", "finish"}

\* r draws, or has drawn and died or answered since.
Drawer(r) == run[r].at \in DrawSteps \/ run[r].list # <<>>

\* Only one call ever draws, the one that has set the seed.
DrawerInv == \A r \in Runs : Drawer(r) => seeded /\ \A s \in Runs : Drawer(s) => s = r

\* A call has inserted a beginning of its list, and after the loop all of it.
ListsInv ==
    \A r \in Runs :
        /\ IsInjective(run[r].list) /\ Len(run[r].list) <= N
        /\ Len(run[r].order) = Len(run[r].list)
        /\ run[r].pos <= Len(run[r].list)
        /\ run[r].at \in InsertedSteps => run[r].pos = Len(run[r].list)

Row(r, i) == [outcome |-> Assign(i - 1), rank |-> i - 1, hashOf |-> run[r].order[i]]

\* The rows there are: those of what was inserted, each with its place in the list.
RowsInv ==
    /\ \A r \in Runs : run[r].at = "seeded" => Drawn = {}
    /\ \A r \in Runs : \A i \in 1..run[r].pos : result[run[r].list[i]] = Row(r, i)
    /\ \A e \in Drawn : \E r \in Runs : \E i \in 1..run[r].pos : run[r].list[i] = e

Whole ==
    /\ seeded
    /\ \A r \in Runs :
        run[r].at \notin {"seeded", "inserting"} /\ run[r].pos = Len(run[r].list)

\* A draw is never announced before its results are whole.
WholeInv ==
    /\ status \in {"DRAWN", "ANNOUNCED"} => Whole
    /\ \A a \in Announces : ann[a].at \notin {"idle", "failed"} => Whole

\* Whoever is marked, listed or granted is a winner.
WinnersInv ==
    /\ \A e \in Entrants : entry[e] = "WINNER" => e \in Winners
    /\ \A a \in Announces :
        /\ ann[a].todo \subseteq Winners
        /\ ann[a].at \in {"reserved", "granted", "consumed"} => ann[a].cur \in Winners
    /\ \A g \in grants : g[2] \in Winners

\* Calls with a place and no grant yet; and those whose place is still reserved.
Holding == {a \in Announces : ann[a].at = "reserved"}
Reserving == {a \in Announces : ann[a].at \in {"reserved", "granted"}}

\* A place stands behind every grant and every call about to write one.
PlacesInv ==
    /\ IsFiniteSet(Reserving) /\ IsFiniteSet(grants)
    /\ Cardinality(Reserving) <= winnerPool.reserved
    /\ Cardinality(grants) + Cardinality(Holding) <= winnerPool.reserved + winnerPool.used
    /\ winnerPool.reserved + winnerPool.used <= winnerPool.total

\* There is no pool before the one call that draws has made it.
PoollessInv ==
    /\ ~seeded => winnerPool.total = 0
    /\ \A r \in Runs : run[r].at \in PoollessSteps => winnerPool.total = 0

IInv ==
    /\ TypeOK /\ DrawerInv /\ ListsInv /\ RowsInv /\ WholeInv
    /\ WinnersInv /\ PlacesInv /\ PoollessInv

-----------------------------------------------------------------------------
LEMMA InitIInv == Init => IInv
<1> SUFFICES ASSUME Init PROVE IInv
  OBVIOUS
<1>1. TypeOK
  <2>1. winnerPool \in [total : {0, Quota}, reserved : Nat, used : Nat]
    BY DEF Init, NewPool
  <2>2. <<>> \in Seq(Entrants) /\ 0 \in 0..N
    BY SizesAssumption
  <2>3. run \in [Runs -> [at : RunSteps, list : Seq(Entrants), order : Seq(Entrants),
                          pos : 0..N]]
    BY <2>2 DEF Init, RunSteps
  <2>4. ann \in [Announces -> [at : AnnounceSteps, todo : SUBSET Entrants, cur : 0..N]]
    BY <2>2 DEF Init, AnnounceSteps
  <2>5. entry \in [Entrants -> EntryStatuses] /\ status \in DrawStatuses
    BY DEF Init, EntryStatuses, DrawStatuses
  <2> QED
    BY <2>1, <2>3, <2>4, <2>5 DEF Init, TypeOK
<1>2. \A r \in Runs : /\ run[r].at = "idle" /\ run[r].list = <<>>
                      /\ run[r].order = <<>> /\ run[r].pos = 0
  BY DEF Init
<1>3. \A a \in Announces : ann[a].at = "idle" /\ ann[a].todo = {}
  BY DEF Init
<1>4. DrawerInv /\ ListsInv /\ RowsInv
  BY <1>2, SizesAssumption
  DEF Init, DrawerInv, Drawer, DrawSteps, Outcomes, ListsInv, IsInjective, InsertedSteps,
      RowsInv, Drawn
<1>5. WholeInv /\ WinnersInv
  BY <1>3 DEF Init, WholeInv, WinnersInv
<1>6. Reserving = {} /\ Holding = {} /\ grants = {}
  BY <1>3 DEF Reserving, Holding, Init
<1>7. PlacesInv
  BY <1>6, FS_EmptySet DEF Init, PlacesInv, NewPool
<1>8. PoollessInv
  BY <1>2 DEF Init, PoollessInv, PoollessSteps, Outcomes, NewPool
<1> QED
  BY <1>1, <1>4, <1>5, <1>7, <1>8 DEF IInv

\* The rows of others stay, and so do the lists, when a call only goes on to s.
LEMMA RunTyped ==
    ASSUME TypeOK, NEW r \in Runs, NEW s \in RunSteps, RunTo(r, s)
    PROVE  /\ run' \in [Runs -> [at : RunSteps, list : Seq(Entrants), order : Seq(Entrants),
                                 pos : 0..N]]
           /\ run'[r].at = s
           /\ \A x \in Runs \ {r} : run'[x].at = run[x].at
           /\ \A x \in Runs : /\ run'[x].list = run[x].list
                              /\ run'[x].order = run[x].order
                              /\ run'[x].pos = run[x].pos
BY DEF TypeOK, RunTo

LEMMA RunMoves ==
    ASSUME IInv, NEW r \in Runs, NEW s \in RunSteps, RunTo(r, s), UNCHANGED result,
           seeded => seeded',
           s \in DrawSteps => seeded' /\ (run[r].at \in DrawSteps \/ ~seeded),
           s \in InsertedSteps => run[r].pos = Len(run[r].list),
           s = "seeded" => ~seeded,
           s # "inserting"
    PROVE  DrawerInv' /\ ListsInv' /\ RowsInv' /\ (Whole => Whole')
<1> USE DEF IInv
<1>1. /\ run'[r].at = s
      /\ \A x \in Runs \ {r} : run'[x].at = run[x].at
      /\ \A x \in Runs : /\ run'[x].list = run[x].list
                         /\ run'[x].order = run[x].order
                         /\ run'[x].pos = run[x].pos
  BY RunTyped
<1>2. DrawerInv'
  <2>1. ASSUME NEW x \in Runs, Drawer(x)'
        PROVE  seeded' /\ (Drawer(x) \/ (x = r /\ ~seeded))
    BY <1>1, <2>1 DEF DrawerInv, Drawer
  <2> QED
    BY <2>1 DEF DrawerInv
<1>3. ListsInv'
  BY <1>1 DEF ListsInv
<1>4. RowsInv'
  <2>1. ~seeded => Drawn = {}
    <3> SUFFICES ASSUME NEW e \in Drawn PROVE seeded
      OBVIOUS
    <3>1. PICK x \in Runs : \E i \in 1..run[x].pos : run[x].list[i] = e
      BY DEF RowsInv
    <3>2. run[x].list # <<>>
      <4>1. run[x].pos \in Nat /\ run[x].pos >= 1
        BY <3>1, SizesAssumption DEF TypeOK
      <4>2. Len(run[x].list) \in Nat /\ run[x].pos <= Len(run[x].list)
        BY DEF ListsInv, TypeOK
      <4> QED
        BY <4>1, <4>2
    <3> QED
      BY <3>2 DEF DrawerInv, Drawer
  <2>2. Drawn' = Drawn
    BY DEF Drawn
  <2>3. \A x \in Runs : run'[x].at = "seeded" => Drawn' = {}
    BY <1>1, <2>1, <2>2 DEF RowsInv
  <2>4. ASSUME NEW x \in Runs, NEW i \in 1..run'[x].pos
        PROVE  result'[run'[x].list[i]] = Row(x, i)'
    BY <1>1 DEF RowsInv, Row
  <2>5. \A e \in Drawn' : \E x \in Runs : \E i \in 1..run'[x].pos : run'[x].list[i] = e
    BY <1>1, <2>2 DEF RowsInv
  <2> QED
    BY <2>3, <2>4, <2>5 DEF RowsInv
<1>5. Whole => Whole'
  BY <1>1 DEF Whole
<1> QED
  BY <1>2, <1>3, <1>4, <1>5

LEMMA RunsAlone ==
    ASSUME IInv, UNCHANGED <<seeded, result, run>>
    PROVE  DrawerInv' /\ ListsInv' /\ RowsInv' /\ Whole' = Whole /\ Winners' = Winners
BY DEF IInv, DrawerInv, Drawer, ListsInv, RowsInv, Row, Whole, Winners, Drawn

\* What stays of the places when nobody takes one.
LEMMA PlacesKept ==
    ASSUME IInv, UNCHANGED <<grants, winnerPool>>, Reserving' \subseteq Reserving,
           Holding' \subseteq Holding
    PROVE  PlacesInv'
<1>1. IsFiniteSet(Reserving) /\ IsFiniteSet(Holding) /\ IsFiniteSet(grants)
  <2>1. Holding \subseteq Reserving
    BY DEF Holding, Reserving
  <2> QED
    BY <2>1, FS_Subset DEF IInv, PlacesInv
<1>2. /\ IsFiniteSet(Reserving') /\ Cardinality(Reserving') <= Cardinality(Reserving)
      /\ Cardinality(Holding') <= Cardinality(Holding)
      /\ Cardinality(Reserving) \in Nat /\ Cardinality(Reserving') \in Nat
      /\ Cardinality(Holding) \in Nat /\ Cardinality(Holding') \in Nat
      /\ Cardinality(grants) \in Nat
  BY <1>1, FS_Subset, FS_CardinalityType
<1>3. winnerPool.reserved \in Nat /\ winnerPool.used \in Nat
  BY DEF IInv, TypeOK
<1> QED
  BY <1>2, <1>3 DEF IInv, PlacesInv

\* A step of RunDraw that goes on to s and writes no result, entry or pool.
LEMMA RunGoesOn ==
    ASSUME IInv, NEW r \in Runs, NEW s \in RunSteps, RunTo(r, s),
           UNCHANGED <<winnerPool, entryVars, result, grants, ann, late>>,
           seeded => seeded', seeded' \in BOOLEAN, linked' \in BOOLEAN,
           status' \in DrawStatuses,
           s \in DrawSteps => seeded' /\ (run[r].at \in DrawSteps \/ ~seeded),
           s \in InsertedSteps => run[r].pos = Len(run[r].list),
           s \in PoollessSteps => run[r].at \in PoollessSteps \/ ~seeded,
           s = "seeded" => ~seeded,
           s # "inserting",
           status' = status \/ Whole'
    PROVE  IInv'
<1> USE DEF IInv
<1>1. TypeOK'
  BY RunTyped DEF TypeOK, entryVars
<1>2. DrawerInv' /\ ListsInv' /\ RowsInv' /\ (Whole => Whole')
  BY RunMoves
<1>3. WholeInv'
  BY <1>2 DEF WholeInv
<1>4. WinnersInv'
  BY DEF WinnersInv, Winners, entryVars
<1>5. PlacesInv'
  <2>1. Reserving' = Reserving /\ Holding' = Holding
    BY DEF Reserving, Holding
  <2> QED
    BY <2>1, PlacesKept
<1>6. PoollessInv'
  BY RunTyped DEF PoollessInv
<1> QED
  BY <1>1, <1>2, <1>3, <1>4, <1>5, <1>6

LEMMA CheckDrawStep == ASSUME IInv, NEW r \in Runs, CheckDraw(r) PROVE IInv'
<1>1. PICK s \in {"failed", "answered", "checked"} : RunTo(r, s)
  BY DEF CheckDraw
<1>2. /\ s \in RunSteps /\ s \notin DrawSteps \cup InsertedSteps \cup PoollessSteps
      /\ s # "seeded" /\ s # "inserting"
  BY DEF RunSteps, DrawSteps, InsertedSteps, PoollessSteps, Outcomes
<1> QED
  BY <1>1, <1>2, RunGoesOn DEF CheckDraw, drawVars, IInv, TypeOK

LEMMA CommitSeedStep == ASSUME IInv, NEW r \in Runs, CommitSeed(r) PROVE IInv'
<1>1. /\ UNCHANGED <<winnerPool, entryVars, result, grants, ann, late, linked, status>>
      /\ seeded' = TRUE /\ linked \in BOOLEAN /\ status \in DrawStatuses
  BY DEF CommitSeed, IInv, TypeOK
<1>2. CASE seeded
  <2>1. RunTo(r, "answered")
    BY <1>2 DEF CommitSeed, SeedIsFree
  <2>2. "answered" \in RunSteps /\ "answered" \notin DrawSteps \cup InsertedSteps \cup PoollessSteps
    BY DEF RunSteps, DrawSteps, InsertedSteps, PoollessSteps, Outcomes
  <2> QED
    BY <1>1, <1>2, <2>1, <2>2, RunGoesOn
<1>3. CASE ~seeded
  <2>1. RunTo(r, "seeded")
    BY <1>3 DEF CommitSeed, SeedIsFree
  <2>2. "seeded" \in RunSteps /\ "seeded" \notin InsertedSteps
    BY DEF RunSteps, InsertedSteps, Outcomes
  <2> QED
    BY <1>1, <1>3, <2>1, <2>2, RunGoesOn
<1> QED
  BY <1>2, <1>3

\* The list is made when there is no row yet.
LEMMA LoadEntriesStep == ASSUME IInv, NEW r \in Runs, LoadEntries(r) PROVE IInv'
<1> USE DEF IInv
<1>1. PICK order \in Shuffles(ListApplied) :
        run' = [run EXCEPT ![r] =
            [at |-> "inserting", list |-> ListApplied, order |-> order, pos |-> 0]]
  BY DEF LoadEntries
<1>2. /\ run[r].at = "seeded" /\ run[r].at \in DrawSteps /\ run[r].at \in PoollessSteps
      /\ Drawer(r) /\ seeded /\ Drawn = {}
      /\ UNCHANGED <<drawVars, winnerPool, entryVars, result, grants, ann>>
  BY DEF LoadEntries, Drawer, DrawSteps, PoollessSteps, DrawerInv, RowsInv
<1>3. /\ ListApplied \in Seq(Entrants) /\ IsInjective(ListApplied) /\ Len(ListApplied) <= N
      /\ order \in Seq(Entrants) /\ Len(order) = Len(ListApplied)
  BY ListedOnce
<1>4. /\ \A x \in Runs \ {r} : run'[x] = run[x]
      /\ run'[r] = [at |-> "inserting", list |-> ListApplied, order |-> order, pos |-> 0]
      /\ run' \in [Runs -> [at : RunSteps, list : Seq(Entrants), order : Seq(Entrants),
                            pos : 0..N]]
  <2>1. [at |-> "inserting", list |-> ListApplied, order |-> order, pos |-> 0]
            \in [at : RunSteps, list : Seq(Entrants), order : Seq(Entrants), pos : 0..N]
    BY <1>3, SizesAssumption DEF RunSteps
  <2> QED
    BY <1>1, <2>1 DEF TypeOK
<1>5. TypeOK'
  BY <1>2, <1>4 DEF TypeOK, drawVars, entryVars
<1>6. DrawerInv'
  BY <1>2, <1>4 DEF DrawerInv, Drawer, drawVars
<1>7. ListsInv'
  <2>1. "inserting" \notin InsertedSteps /\ Len(ListApplied) \in Nat
    BY <1>3 DEF InsertedSteps, Outcomes
  <2>2. ASSUME NEW x \in Runs
        PROVE  (/\ IsInjective(run[x].list) /\ Len(run[x].list) <= N
                /\ Len(run[x].order) = Len(run[x].list)
                /\ run[x].pos <= Len(run[x].list)
                /\ run[x].at \in InsertedSteps => run[x].pos = Len(run[x].list))'
    <3>1. CASE x = r
      BY <1>3, <1>4, <2>1, <3>1
    <3>2. CASE x # r
      BY <1>4, <3>2 DEF ListsInv
    <3> QED
      BY <3>1, <3>2
  <2> QED
    BY <2>2 DEF ListsInv
<1>8. RowsInv'
  <2>1. Drawn' = {}
    BY <1>2 DEF Drawn
  <2>2. ASSUME NEW x \in Runs, NEW i \in 1..run'[x].pos
        PROVE  result'[run'[x].list[i]] = Row(x, i)'
    <3>1. x # r
      BY <1>4, <2>2
    <3> QED
      BY <1>2, <1>4, <2>2, <3>1 DEF RowsInv, Row
  <2> QED
    BY <2>1, <2>2 DEF RowsInv
<1>9. WholeInv'
  <2>1. ~Whole
    BY <1>2 DEF Whole
  <2> QED
    BY <1>2, <2>1 DEF WholeInv, drawVars
<1>10. WinnersInv'
  BY <1>2 DEF WinnersInv, Winners, entryVars
<1>11. PlacesInv'
  <2>1. Reserving' = Reserving /\ Holding' = Holding
    BY <1>2 DEF Reserving, Holding
  <2> QED
    BY <1>2, <2>1, PlacesKept
<1>12. PoollessInv'
  BY <1>2, <1>4 DEF PoollessInv, drawVars
<1> QED
  BY <1>5, <1>6, <1>7, <1>8, <1>9, <1>10, <1>11, <1>12

\* What a call has inserted is in its list, and the call is the one that draws.
LEMMA InsertedIsListed ==
    ASSUME IInv, NEW x \in Runs, NEW i \in 1..run[x].pos
    PROVE  Drawer(x) /\ i \in 1..Len(run[x].list) /\ run[x].list[i] \in Entrants
<1>1. run[x].pos \in Nat /\ run[x].list \in Seq(Entrants)
  BY SizesAssumption DEF IInv, TypeOK
<1>2. run[x].pos <= Len(run[x].list) /\ Len(run[x].list) \in Nat
  BY <1>1 DEF IInv, ListsInv
<1>3. i \in 1..Len(run[x].list)
  BY <1>1, <1>2
<1> QED
  BY <1>1, <1>3 DEF Drawer

\* The next row is one the draw did not have.
LEMMA InsertResultStep == ASSUME IInv, NEW r \in Runs, InsertResult(r) PROVE IInv'
<1> USE DEF IInv
<1> DEFINE i == run[r].pos
           e == run[r].list[i + 1]
           row == [outcome |-> Assign(i), rank |-> i, hashOf |-> run[r].order[i + 1]]
<1>1. /\ run[r].at = "inserting" /\ run[r].at \in DrawSteps /\ Drawer(r) /\ seeded
      /\ run[r].at \notin InsertedSteps
      /\ run' = [run EXCEPT ![r].pos = i + 1]
      /\ UNCHANGED <<drawVars, winnerPool, entryVars, grants, ann>>
  BY DEF InsertResult, Drawer, DrawSteps, DrawerInv, InsertedSteps, Outcomes
<1>2. /\ i \in Nat /\ i + 1 \in 1..Len(run[r].list) /\ i + 1 <= N /\ i \in 0..N - 1
      /\ run[r].list \in Seq(Entrants) /\ run[r].order \in Seq(Entrants)
      /\ i + 1 \in 1..Len(run[r].order)
  <2>1. /\ i \in Nat /\ run[r].list \in Seq(Entrants) /\ run[r].order \in Seq(Entrants)
        /\ Len(run[r].list) \in Nat
    BY SizesAssumption DEF TypeOK
  <2>2. i < Len(run[r].list) /\ Len(run[r].list) <= N /\ Len(run[r].order) = Len(run[r].list)
    BY DEF InsertResult, ListsInv
  <2> QED
    BY <2>1, <2>2, SizesAssumption
<1>3. e \in Entrants /\ row \in [outcome : Outcomes, rank : 0..N - 1, hashOf : Entrants]
  <2>1. e \in Entrants /\ run[r].order[i + 1] \in Entrants
    BY <1>2
  <2>2. Assign(i) \in Outcomes
    BY DEF Assign, Outcomes
  <2> QED
    BY <1>2, <2>1, <2>2
<1>4. /\ \A x \in Runs : /\ run'[x].at = run[x].at /\ run'[x].list = run[x].list
                         /\ run'[x].order = run[x].order
      /\ \A x \in Runs \ {r} : run'[x].pos = run[x].pos
      /\ run'[r].pos = i + 1
      /\ run' \in [Runs -> [at : RunSteps, list : Seq(Entrants), order : Seq(Entrants),
                            pos : 0..N]]
  <2>1. i + 1 \in 0..N
    BY <1>2, SizesAssumption
  <2> QED
    BY <1>1, <2>1 DEF TypeOK
<1>5. ASSUME NEW x \in Runs, NEW j \in 1..run[x].pos
      PROVE  x = r /\ run[x].list[j] # e
  <2>1. x = r /\ j \in 1..Len(run[r].list)
    BY <1>1, InsertedIsListed DEF DrawerInv
  <2>2. j # i + 1 /\ j \in 1..i
    BY <1>2, <2>1
  <2>3. DOMAIN run[r].list = 1..Len(run[r].list)
    BY <1>2
  <2>4. IsInjective(run[r].list)
    BY DEF ListsInv
  <2> QED
    BY <1>2, <2>1, <2>2, <2>3, <2>4 DEF IsInjective
<1>6. result[e] = NoResult
  BY <1>3, <1>5 DEF RowsInv, Drawn
<1>7. /\ result' = [result EXCEPT ![e] = row]
      /\ result'[e] = row /\ \A d \in Entrants \ {e} : result'[d] = result[d]
  BY <1>3, <1>6 DEF InsertResult, TypeOK
<1>8. TypeOK'
  <2>1. result' \in [Entrants ->
            {NoResult} \cup [outcome : Outcomes, rank : 0..N - 1, hashOf : Entrants]]
    BY <1>3, <1>7 DEF TypeOK
  <2> QED
    BY <1>1, <1>4, <2>1 DEF TypeOK, drawVars, entryVars
<1>9. DrawerInv'
  BY <1>1, <1>4 DEF DrawerInv, Drawer, drawVars
<1>10. ListsInv'
  <2>1. run'[r].pos <= Len(run'[r].list)
    BY <1>2, <1>4
  <2> QED
    BY <1>1, <1>4, <2>1 DEF ListsInv
<1>11. RowsInv'
  <2>1. \A x \in Runs : run'[x].at # "seeded"
    BY <1>1, <1>4 DEF DrawerInv, Drawer, DrawSteps
  <2>2. ASSUME NEW x \in Runs, NEW j \in 1..run'[x].pos
        PROVE  result'[run'[x].list[j]] = Row(x, j)'
    <3>1. CASE x = r /\ j = i + 1
      <4>1. j - 1 = i
        BY <1>2, <3>1
      <4> QED
        BY <1>4, <1>7, <3>1, <4>1 DEF Row, Assign
    <3>2. CASE ~(x = r /\ j = i + 1)
      <4>1. j \in 1..run[x].pos
        BY <1>2, <1>4, <2>2, <3>2
      <4>2. run[x].list[j] \in Entrants \ {e}
        BY <1>5, <4>1, InsertedIsListed
      <4>3. result[run[x].list[j]] = Row(x, j)
        BY <4>1 DEF RowsInv
      <4> QED
        BY <1>4, <1>7, <4>2, <4>3 DEF Row, Assign
    <3> QED
      BY <3>1, <3>2
  <2>3. ASSUME NEW d \in Drawn'
        PROVE  \E x \in Runs : \E j \in 1..run'[x].pos : run'[x].list[j] = d
    <3>1. CASE d = e
      <4>1. i + 1 \in 1..run'[r].pos /\ run'[r].list[i + 1] = d
        BY <1>2, <1>4, <3>1
      <4> QED
        BY <4>1
    <3>2. CASE d # e
      <4>1. d \in Drawn
        BY <1>7, <3>2 DEF Drawn
      <4>2. PICK x \in Runs : \E j \in 1..run[x].pos : run[x].list[j] = d
        BY <4>1 DEF RowsInv
      <4>3. PICK j \in 1..run[x].pos : run[x].list[j] = d
        BY <4>2
      <4>4. j \in 1..run'[x].pos /\ run'[x].list[j] = d
        BY <1>2, <1>4, <1>5, <4>3
      <4> QED
        BY <4>4
    <3> QED
      BY <3>1, <3>2
  <2> QED
    BY <2>1, <2>2, <2>3 DEF RowsInv
<1>12. WholeInv'
  <2>1. ~Whole
    BY <1>1 DEF Whole
  <2> QED
    BY <1>1, <2>1 DEF WholeInv, drawVars
<1>13. WinnersInv'
  <2>1. Winners \subseteq Winners'
    BY <1>6, <1>7 DEF Winners, NoResult
  <2> QED
    BY <1>1, <2>1 DEF WinnersInv, entryVars
<1>14. PlacesInv'
  <2>1. Reserving' = Reserving /\ Holding' = Holding
    BY <1>1 DEF Reserving, Holding
  <2> QED
    BY <1>1, <2>1, PlacesKept
<1>15. PoollessInv'
  BY <1>1, <1>4 DEF PoollessInv, drawVars
<1> QED
  BY <1>8, <1>9, <1>10, <1>11, <1>12, <1>13, <1>14, <1>15

LEMMA EndInsertsStep == ASSUME IInv, NEW r \in Runs, EndInserts(r) PROVE IInv'
<1>1. run[r].at \in DrawSteps /\ run[r].at \in PoollessSteps
  BY DEF EndInserts, DrawSteps, PoollessSteps
<1>2. "WINNER" \in RunSteps /\ seeded
  BY <1>1 DEF RunSteps, Outcomes, IInv, DrawerInv, Drawer
<1> QED
  BY <1>1, <1>2, RunGoesOn DEF EndInserts, AllInserted, drawVars, IInv, TypeOK

\* Only winners are marked so.
LEMMA MarkEntriesStep == ASSUME IInv, NEW r \in Runs, MarkEntries(r) PROVE IInv'
<1> USE DEF IInv
<1> DEFINE o == run[r].at
<1>1. /\ o \in Outcomes /\ o \in DrawSteps /\ o \in PoollessSteps /\ o \in InsertedSteps
      /\ Drawer(r) /\ seeded
      /\ UNCHANGED <<drawVars, winnerPool, asking, deadline, result, grants, ann>>
  BY DEF MarkEntries, DrawSteps, PoollessSteps, InsertedSteps, Drawer, DrawerInv
<1>2. PICK s \in {"WAITLISTED", "NOT_SELECTED", "pool"} : RunTo(r, s)
  <2>1. CASE o = "WINNER"
    BY <2>1 DEF MarkEntries
  <2>2. CASE o = "WAITLISTED"
    BY <2>2 DEF MarkEntries
  <2>3. CASE o = "NOT_SELECTED"
    BY <2>3 DEF MarkEntries
  <2> QED
    BY <1>1, <2>1, <2>2, <2>3 DEF Outcomes
<1>3. /\ s \in RunSteps /\ s \in DrawSteps /\ s \in InsertedSteps
      /\ s # "seeded" /\ s # "inserting"
  BY DEF RunSteps, DrawSteps, InsertedSteps, Outcomes
<1>4. DrawerInv' /\ ListsInv' /\ RowsInv' /\ (Whole => Whole')
  <2>1. run[r].pos = Len(run[r].list)
    BY <1>1 DEF ListsInv
  <2> QED
    BY <1>1, <1>2, <1>3, <2>1, RunMoves DEF drawVars
<1>5. \A e \in Entrants : entry'[e] = entry[e]
        \/ (entry'[e] = o /\ \E i \in 1..run[r].pos : e = run[r].list[i] /\ Assign(i - 1) = o)
  BY DEF MarkEntries, DrawnWith
<1>6. entry' \in [Entrants -> EntryStatuses]
  BY <1>1 DEF MarkEntries, TypeOK, EntryStatuses
<1>7. TypeOK'
  BY <1>1, <1>2, <1>3, <1>6, RunTyped DEF TypeOK, drawVars
<1>8. WinnersInv'
  <2>1. Winners' = Winners
    BY <1>1 DEF Winners
  <2>2. ASSUME NEW e \in Entrants, entry'[e] = "WINNER" PROVE e \in Winners
    <3>1. CASE entry'[e] = entry[e]
      BY <2>2, <3>1 DEF WinnersInv
    <3>2. CASE o = "WINNER" /\ \E i \in 1..run[r].pos : e = run[r].list[i] /\ Assign(i - 1) = o
      <4>1. PICK i \in 1..run[r].pos : e = run[r].list[i] /\ Assign(i - 1) = o
        BY <3>2
      <4>2. result[e] = Row(r, i)
        BY <4>1 DEF RowsInv
      <4>3. Row(r, i).outcome = "WINNER"
        BY <3>2, <4>1 DEF Row
      <4> QED
        BY <4>2, <4>3 DEF Winners
    <3> QED
      BY <1>5, <2>2, <3>1, <3>2
  <2> QED
    BY <1>1, <2>1, <2>2 DEF WinnersInv
<1>9. PlacesInv'
  <2>1. Reserving' = Reserving /\ Holding' = Holding
    BY <1>1 DEF Reserving, Holding
  <2> QED
    BY <1>1, <2>1, PlacesKept
<1>10. WholeInv' /\ PoollessInv'
  BY <1>1, <1>2, <1>3, <1>4, RunTyped DEF WholeInv, PoollessInv, drawVars
<1> QED
  BY <1>4, <1>7, <1>8, <1>9, <1>10

\* The pool is made once, so no place that was taken is forgotten.
LEMMA CreateWinnerPoolStep == ASSUME IInv, NEW r \in Runs, CreateWinnerPool(r) PROVE IInv'
<1> USE DEF IInv
<1>1. /\ run[r].at = "pool" /\ run[r].at \in DrawSteps /\ run[r].at \in InsertedSteps
      /\ run[r].at \in PoollessSteps /\ Drawer(r) /\ seeded /\ RunTo(r, "link")
      /\ winnerPool' = NewPool(Quota)
      /\ UNCHANGED <<drawVars, entryVars, result, grants, ann>>
  BY DEF CreateWinnerPool, DrawSteps, PoollessSteps, InsertedSteps, Drawer, DrawerInv
<1>2. "link" \in RunSteps /\ "link" \notin PoollessSteps
  BY DEF RunSteps, PoollessSteps, Outcomes
<1>3. TypeOK'
  <2>1. winnerPool' \in [total : {0, Quota}, reserved : Nat, used : Nat]
    BY <1>1 DEF NewPool
  <2> QED
    BY <1>1, <1>2, <2>1, RunTyped DEF TypeOK, drawVars, entryVars
<1>4. DrawerInv' /\ ListsInv' /\ RowsInv' /\ (Whole => Whole')
  <2>1. run[r].pos = Len(run[r].list)
    BY <1>1 DEF ListsInv
  <2> QED
    BY <1>1, <1>2, <2>1, RunMoves DEF drawVars
<1>5. WholeInv' /\ WinnersInv'
  BY <1>1, <1>4 DEF WholeInv, WinnersInv, Winners, drawVars, entryVars
<1>6. PlacesInv'
  <2>1. winnerPool.total = 0
    BY <1>1 DEF PoollessInv
  <2>2. /\ IsFiniteSet(Reserving) /\ IsFiniteSet(Holding) /\ IsFiniteSet(grants)
    <3>1. Holding \subseteq Reserving
      BY DEF Holding, Reserving
    <3> QED
      BY <3>1, FS_Subset DEF PlacesInv
  <2>3. Cardinality(Reserving) = 0 /\ Cardinality(Holding) = 0 /\ Cardinality(grants) = 0
    BY <2>1, <2>2, FS_CardinalityType DEF PlacesInv, TypeOK
  <2>4. Reserving' = Reserving /\ Holding' = Holding /\ grants' = grants
    BY <1>1 DEF Reserving, Holding
  <2> QED
    BY <1>1, <2>2, <2>3, <2>4, SizesAssumption DEF PlacesInv, NewPool
<1>7. PoollessInv'
  <2>1. ASSUME NEW x \in Runs PROVE run'[x].at \notin PoollessSteps
    <3>1. CASE x = r
      BY <1>1, <1>2, <3>1, RunTyped
    <3>2. CASE x # r
      <4>1. run'[x].at = run[x].at
        BY <1>1, <1>2, <3>2, RunTyped
      <4> QED
        BY <1>1, <3>2, <4>1 DEF DrawerInv, Drawer, DrawSteps, PoollessSteps
    <3> QED
      BY <3>1, <3>2
  <2> QED
    BY <1>1, <2>1 DEF PoollessInv, drawVars
<1> QED
  BY <1>3, <1>4, <1>5, <1>6, <1>7

LEMMA LinkPoolStep == ASSUME IInv, NEW r \in Runs, LinkPool(r) PROVE IInv'
<1>1. run[r].at \in DrawSteps /\ run[r].at \in InsertedSteps /\ RunTo(r, "finish")
  BY DEF LinkPool, DrawSteps, InsertedSteps
<1>2. "finish" \in RunSteps /\ "finish" \notin PoollessSteps
  BY DEF RunSteps, PoollessSteps, Outcomes
<1>3. seeded /\ run[r].pos = Len(run[r].list)
  BY <1>1 DEF IInv, DrawerInv, Drawer, ListsInv
<1> QED
  BY <1>1, <1>2, <1>3, RunGoesOn DEF LinkPool, IInv, TypeOK

\* The draw is over for good.
LEMMA FinishDrawStep == ASSUME IInv, NEW r \in Runs, FinishDraw(r) PROVE IInv'
<1>1. /\ run[r].at \in DrawSteps /\ run[r].at \in InsertedSteps /\ RunTo(r, "answered")
      /\ run[r].at \notin {"seeded", "inserting"}
      /\ UNCHANGED <<late, seeded, linked, winnerPool, entryVars, result, grants, ann>>
      /\ status' = "DRAWN"
  BY DEF FinishDraw, DrawSteps, InsertedSteps
<1>2. /\ "answered" \in RunSteps
      /\ "answered" \notin DrawSteps \cup InsertedSteps \cup PoollessSteps
  BY DEF RunSteps, DrawSteps, InsertedSteps, PoollessSteps, Outcomes
<1>3. Whole
  <2>1. seeded /\ run[r].pos = Len(run[r].list) /\ \A x \in Runs : Drawer(x) => x = r
    BY <1>1 DEF IInv, DrawerInv, Drawer, ListsInv
  <2>2. ASSUME NEW x \in Runs, x # r
        PROVE  run[x].at \notin {"seeded", "inserting"} /\ run[x].pos = Len(run[x].list)
    <3>1. run[x].list = <<>> /\ run[x].at \notin DrawSteps
      BY <2>1, <2>2 DEF Drawer
    <3>2. run[x].pos <= Len(run[x].list) /\ run[x].pos \in Nat
      BY SizesAssumption DEF IInv, ListsInv, TypeOK
    <3>3. Len(run[x].list) = 0
      BY <3>1
    <3> QED
      BY <3>1, <3>2, <3>3 DEF DrawSteps
  <2> QED
    BY <1>1, <2>1, <2>2 DEF Whole
<1>4. Whole'
  BY <1>1, <1>2, <1>3, RunTyped DEF Whole, IInv
<1> QED
  BY <1>1, <1>2, <1>4, RunGoesOn DEF DrawStatuses, IInv, TypeOK

LEMMA RunDiesStep == ASSUME IInv, NEW r \in Runs, RunDies(r) PROVE IInv'
<1>1. "failed" \in RunSteps /\ "failed" \notin DrawSteps \cup InsertedSteps \cup PoollessSteps
  BY DEF RunSteps, DrawSteps, InsertedSteps, PoollessSteps, Outcomes
<1> QED
  BY <1>1, RunGoesOn DEF RunDies, drawVars, IInv, TypeOK

-----------------------------------------------------------------------------
\* AskStatus, WriteStatus, AskEntry, WriteEntry and SettleWinner make no winner, take no
\* place and never write DRAWN or ANNOUNCED.
LEMMA OutsideStep ==
    ASSUME IInv,
           \/ AskStatus
           \/ \E s \in late : WriteStatus(s)
           \/ \E e \in Entrants : AskEntry(e) \/ WriteEntry(e) \/ SettleWinner(e)
    PROVE  IInv'
<1> USE DEF IInv
<1>1. UNCHANGED <<seeded, linked, winnerPool, result, grants, run, ann>>
  BY DEF AskStatus, WriteStatus, AskEntry, WriteEntry, SettleWinner, drawVars
<1>2. /\ late' \subseteq {"OPEN", "CLOSED"}
      /\ status' = status \/ status' \in {"OPEN", "CLOSED"}
  BY DEF AskStatus, WriteStatus, AskEntry, WriteEntry, SettleWinner, drawVars, TypeOK
<1> DEFINE EntriesKept ==
            /\ asking' \in [Entrants -> {"NONE", "APPLIED", "WITHDRAWN"}]
            /\ entry' \in [Entrants -> EntryStatuses] /\ deadline' \in [Entrants -> BOOLEAN]
            /\ \A e \in Entrants : entry'[e] = "WINNER" => entry[e] = "WINNER"
<1>3. EntriesKept
  <2>1. CASE AskStatus \/ \E s \in late : WriteStatus(s)
    BY <2>1 DEF AskStatus, WriteStatus, entryVars, TypeOK
  <2>2. ASSUME NEW e \in Entrants, AskEntry(e) PROVE EntriesKept
    BY <2>2 DEF AskEntry, TypeOK
  <2>3. ASSUME NEW e \in Entrants, WriteEntry(e) PROVE EntriesKept
    BY <2>3 DEF WriteEntry, TypeOK, EntryStatuses
  <2>4. ASSUME NEW e \in Entrants, SettleWinner(e) PROVE EntriesKept
    BY <2>4 DEF SettleWinner, TypeOK, EntryStatuses
  <2> QED
    BY <2>1, <2>2, <2>3, <2>4
<1>4. DrawerInv' /\ ListsInv' /\ RowsInv' /\ Whole' = Whole /\ Winners' = Winners
  BY <1>1, RunsAlone
<1>5. TypeOK'
  BY <1>1, <1>2, <1>3 DEF TypeOK, DrawStatuses
<1>6. WholeInv' /\ WinnersInv' /\ PoollessInv'
  BY <1>1, <1>2, <1>3, <1>4 DEF WholeInv, WinnersInv, PoollessInv
<1>7. PlacesInv'
  <2>1. Reserving' = Reserving /\ Holding' = Holding
    BY <1>1 DEF Reserving, Holding
  <2> QED
    BY <1>1, <2>1, PlacesKept
<1> QED
  BY <1>4, <1>5, <1>6, <1>7

\* A step of AnnounceDraw that goes on to s, takes no place and writes no grant.
LEMMA AnnounceGoesOn ==
    ASSUME IInv, NEW a \in Announces, NEW s \in AnnounceSteps, AnnTo(a, s),
           UNCHANGED <<late, seeded, linked, winnerPool, asking, result, grants, run>>,
           status' = status \/ (status' = "ANNOUNCED" /\ Whole),
           entry' \in [Entrants -> EntryStatuses], deadline' \in [Entrants -> BOOLEAN],
           \A e \in Entrants : entry'[e] = "WINNER" => e \in Winners,
           s \notin {"idle", "failed"} => Whole,
           s \notin {"reserved", "granted", "consumed"}
    PROVE  IInv'
<1> USE DEF IInv
<1>1. /\ ann' \in [Announces -> [at : AnnounceSteps, todo : SUBSET Entrants, cur : 0..N]]
      /\ ann'[a].at = s /\ ann'[a].todo = ann[a].todo
      /\ \A b \in Announces \ {a} : ann'[b] = ann[b]
  <2>1. ann' = [ann EXCEPT ![a] = [ann[a] EXCEPT !.at = s]]
    BY DEF AnnTo, TypeOK
  <2>2. /\ [ann[a] EXCEPT !.at = s] \in [at : AnnounceSteps, todo : SUBSET Entrants, cur : 0..N]
        /\ [ann[a] EXCEPT !.at = s].at = s /\ [ann[a] EXCEPT !.at = s].todo = ann[a].todo
    BY DEF TypeOK
  <2> QED
    BY <2>1, <2>2 DEF TypeOK
<1>2. DrawerInv' /\ ListsInv' /\ RowsInv' /\ Whole' = Whole /\ Winners' = Winners
  BY RunsAlone
<1>3. TypeOK'
  BY <1>1 DEF TypeOK, DrawStatuses
<1>4. WholeInv'
  BY <1>1, <1>2 DEF WholeInv
<1>5. WinnersInv'
  BY <1>1, <1>2 DEF WinnersInv
<1>6. PoollessInv'
  BY DEF PoollessInv
<1>7. PlacesInv'
  <2>1. Reserving' \subseteq Reserving /\ Holding' \subseteq Holding
    BY <1>1 DEF Reserving, Holding
  <2> QED
    BY <2>1, PlacesKept
<1> QED
  BY <1>2, <1>3, <1>4, <1>5, <1>6, <1>7

LEMMA CheckDrawnStep == ASSUME IInv, NEW a \in Announces, CheckDrawn(a) PROVE IInv'
<1>1. PICK s \in {"read", "failed"} : AnnTo(a, s) /\ (s = "read" => status = "DRAWN")
  BY DEF CheckDrawn
<1>2. s \in AnnounceSteps /\ (s \notin {"idle", "failed"} => Whole)
  BY <1>1 DEF AnnounceSteps, IInv, WholeInv
<1> QED
  BY <1>1, <1>2, AnnounceGoesOn
  DEF CheckDrawn, drawVars, entryVars, IInv, TypeOK, WinnersInv

LEMMA ListWinnersStep == ASSUME IInv, NEW a \in Announces, ListWinners(a) PROVE IInv'
<1> USE DEF IInv
<1> DEFINE list == IF linked THEN {e \in Entrants : entry[e] = "WINNER"} ELSE {}
<1>1. /\ ann' = [ann EXCEPT ![a].at = "granting", ![a].todo = list]
      /\ ann[a].at = "read"
      /\ UNCHANGED <<drawVars, winnerPool, entryVars, result, grants, run>>
  BY DEF ListWinners
<1>2. /\ ann' \in [Announces -> [at : AnnounceSteps, todo : SUBSET Entrants, cur : 0..N]]
      /\ ann'[a].at = "granting" /\ ann'[a].todo = list
      /\ \A b \in Announces \ {a} : ann'[b] = ann[b]
  BY <1>1 DEF TypeOK, AnnounceSteps
<1>3. DrawerInv' /\ ListsInv' /\ RowsInv' /\ Whole' = Whole /\ Winners' = Winners
  BY <1>1, RunsAlone DEF drawVars
<1>4. TypeOK'
  BY <1>1, <1>2 DEF TypeOK, drawVars, entryVars
<1>5. WholeInv' /\ PoollessInv'
  BY <1>1, <1>2, <1>3 DEF WholeInv, PoollessInv, drawVars
<1>6. WinnersInv'
  <2>1. list \subseteq Winners
    BY DEF WinnersInv
  <2> QED
    BY <1>1, <1>2, <1>3, <2>1 DEF WinnersInv, entryVars
<1>7. PlacesInv'
  <2>1. Reserving' \subseteq Reserving /\ Holding' \subseteq Holding
    BY <1>2 DEF Reserving, Holding
  <2> QED
    BY <1>1, <2>1, PlacesKept
<1> QED
  BY <1>3, <1>4, <1>5, <1>6, <1>7

\* The place taken is the one more that the call holds.
LEMMA TakeWinnerPlaceStep ==
    ASSUME IInv, NEW a \in Announces, NEW e \in Entrants, TakeWinnerPlace(a, e)
    PROVE  IInv'
<1> USE DEF IInv
<1>1. /\ ann[a].at = "granting" /\ e \in ann[a].todo
      /\ UNCHANGED <<drawVars, entryVars, result, grants, run>>
  BY DEF TakeWinnerPlace
<1>2. DrawerInv' /\ ListsInv' /\ RowsInv' /\ Whole' = Whole /\ Winners' = Winners
  BY <1>1, RunsAlone DEF drawVars
<1>3. Whole /\ seeded /\ e \in Winners /\ ann[a].todo \subseteq Winners /\ e \in 0..N
  BY <1>1, SizesAssumption DEF WholeInv, Whole, WinnersInv, Entrants
<1>4. CASE HasSlot(winnerPool)
  <2> DEFINE next == [at |-> "reserved", todo |-> ann[a].todo \ {e}, cur |-> e]
  <2>1. ann' = [ann EXCEPT ![a] = next] /\ winnerPool' = ReserveSlot(winnerPool)
    BY <1>4 DEF TakeWinnerPlace, TypeOK
  <2>2. next \in [at : AnnounceSteps, todo : SUBSET Entrants, cur : 0..N]
    BY <1>3 DEF TypeOK, AnnounceSteps
  <2>3. /\ ann' \in [Announces -> [at : AnnounceSteps, todo : SUBSET Entrants, cur : 0..N]]
        /\ ann'[a] = next
        /\ \A b \in Announces \ {a} : ann'[b] = ann[b]
    BY <2>1, <2>2 DEF TypeOK
  <2>4. /\ winnerPool' \in [total : {0, Quota}, reserved : Nat, used : Nat]
        /\ winnerPool'.reserved = winnerPool.reserved + 1
        /\ winnerPool'.used = winnerPool.used /\ winnerPool'.total = winnerPool.total
        /\ winnerPool.reserved \in Nat /\ winnerPool.used \in Nat /\ winnerPool.total \in Nat
    <3>1. winnerPool \in [total : {0, Quota}, reserved : Nat, used : Nat]
      BY DEF TypeOK
    <3>2. winnerPool.reserved \in Nat /\ winnerPool.used \in Nat /\ winnerPool.total \in Nat
      BY <3>1, SizesAssumption
    <3> QED
      BY <2>1, <3>1, <3>2, SlotReserved
  <2>5. TypeOK'
    BY <1>1, <2>3, <2>4 DEF TypeOK, drawVars, entryVars
  <2>6. WholeInv' /\ PoollessInv'
    BY <1>1, <1>2, <1>3, <2>3, <2>4 DEF WholeInv, PoollessInv, drawVars
  <2>7. WinnersInv'
    BY <1>1, <1>2, <1>3, <2>3 DEF WinnersInv, entryVars
  <2>8. PlacesInv'
    <3>1. Reserving' = Reserving \cup {a} /\ Holding' = Holding \cup {a}
      BY <2>3 DEF Reserving, Holding
    <3>2. Holding \subseteq Reserving
      BY DEF Reserving, Holding
    <3>3. /\ IsFiniteSet(Reserving) /\ IsFiniteSet(Holding) /\ IsFiniteSet(grants)
          /\ Cardinality(Reserving) \in Nat /\ Cardinality(Holding) \in Nat
          /\ Cardinality(grants) \in Nat
      BY <3>2, FS_Subset, FS_CardinalityType DEF PlacesInv
    <3>4. /\ IsFiniteSet(Reserving') /\ Cardinality(Reserving') \in Nat
          /\ Cardinality(Reserving') <= Cardinality(Reserving) + 1
          /\ Cardinality(Holding') \in Nat
          /\ Cardinality(Holding') <= Cardinality(Holding) + 1
      BY <3>1, <3>3, OneMore
    <3> QED
      BY <1>1, <1>4, <2>4, <3>3, <3>4 DEF PlacesInv, HasSlot
  <2> QED
    BY <1>2, <2>5, <2>6, <2>7, <2>8
<1>5. CASE ~HasSlot(winnerPool)
  <2>1. ann' = [ann EXCEPT ![a].todo = @ \ {e}] /\ winnerPool' = winnerPool
    BY <1>5 DEF TakeWinnerPlace
  <2>2. /\ ann' \in [Announces -> [at : AnnounceSteps, todo : SUBSET Entrants, cur : 0..N]]
        /\ ann'[a].at = "granting" /\ ann'[a].todo = ann[a].todo \ {e}
        /\ \A b \in Announces \ {a} : ann'[b] = ann[b]
    BY <1>1, <2>1 DEF TypeOK
  <2>3. TypeOK'
    BY <1>1, <2>1, <2>2 DEF TypeOK, drawVars, entryVars
  <2>4. WholeInv' /\ PoollessInv' /\ WinnersInv'
    BY <1>1, <1>2, <1>3, <2>1, <2>2 DEF WholeInv, PoollessInv, WinnersInv, drawVars, entryVars
  <2>5. PlacesInv'
    <3>1. Reserving' = Reserving /\ Holding' = Holding
      BY <1>1, <2>2 DEF Reserving, Holding
    <3> QED
      BY <1>1, <2>1, <3>1, PlacesKept
  <2> QED
    BY <1>2, <2>3, <2>4, <2>5
<1> QED
  BY <1>4, <1>5

\* The grant takes the place over.
LEMMA CreateGrantStep == ASSUME IInv, NEW a \in Announces, CreateGrant(a) PROVE IInv'
<1> USE DEF IInv
<1>1. /\ ann[a].at = "reserved" /\ ann[a].cur \in Winners /\ ann[a].cur \in Entrants /\ Whole
      /\ UNCHANGED <<drawVars, winnerPool, entryVars, result, run>>
  BY DEF CreateGrant, WinnersInv, WholeInv, Winners
<1>2. CASE AnnTo(a, "granting") /\ UNCHANGED grants
  <2>1. "granting" \in AnnounceSteps
    BY DEF AnnounceSteps
  <2> QED
    BY <1>1, <1>2, <2>1, AnnounceGoesOn DEF drawVars, entryVars, TypeOK, WinnersInv
<1>3. CASE grants' = grants \cup {<<a, ann[a].cur>>} /\ AnnTo(a, "granted")
  <2>1. ann' = [ann EXCEPT ![a] = [ann[a] EXCEPT !.at = "granted"]]
    BY <1>3 DEF AnnTo, TypeOK
  <2>2. /\ ann' \in [Announces -> [at : AnnounceSteps, todo : SUBSET Entrants, cur : 0..N]]
        /\ ann'[a].at = "granted" /\ ann'[a].todo = ann[a].todo /\ ann'[a].cur = ann[a].cur
        /\ \A b \in Announces \ {a} : ann'[b] = ann[b]
    BY <2>1 DEF TypeOK, AnnounceSteps
  <2>3. DrawerInv' /\ ListsInv' /\ RowsInv' /\ Whole' = Whole /\ Winners' = Winners
    BY <1>1, RunsAlone DEF drawVars
  <2>4. TypeOK'
    BY <1>1, <1>3, <2>2 DEF TypeOK, drawVars, entryVars
  <2>5. WholeInv' /\ PoollessInv'
    BY <1>1, <2>2, <2>3 DEF WholeInv, PoollessInv, drawVars
  <2>6. WinnersInv'
    BY <1>1, <1>3, <2>2, <2>3 DEF WinnersInv, entryVars
  <2>7. PlacesInv'
    <3>1. Reserving' = Reserving /\ Holding' = Holding \ {a} /\ a \in Holding
      BY <1>1, <2>2 DEF Reserving, Holding
    <3>2. Holding \subseteq Reserving
      BY DEF Reserving, Holding
    <3>3. /\ IsFiniteSet(Reserving) /\ IsFiniteSet(Holding) /\ IsFiniteSet(grants)
          /\ Cardinality(Reserving) \in Nat /\ Cardinality(Holding) \in Nat
          /\ Cardinality(grants) \in Nat
      BY <3>2, FS_Subset, FS_CardinalityType DEF PlacesInv
    <3>4. /\ Cardinality(Holding') = Cardinality(Holding) - 1
          /\ IsFiniteSet(grants') /\ Cardinality(grants') \in Nat
          /\ Cardinality(grants') <= Cardinality(grants) + 1
      BY <1>3, <3>1, <3>3, OneMore, FS_RemoveElement
    <3>5. winnerPool.reserved \in Nat /\ winnerPool.used \in Nat
      BY DEF TypeOK
    <3> QED
      BY <1>1, <3>1, <3>3, <3>4, <3>5 DEF PlacesInv
  <2> QED
    BY <2>3, <2>4, <2>5, <2>6, <2>7
<1> QED
  BY <1>2, <1>3 DEF CreateGrant

\* A place that is consumed was reserved.
LEMMA ConsumePlaceStep == ASSUME IInv, NEW a \in Announces, ConsumePlace(a) PROVE IInv'
<1> USE DEF IInv
<1>1. /\ ann[a].at = "granted" /\ ann[a].cur \in Winners /\ Whole
      /\ UNCHANGED <<drawVars, entryVars, result, grants, run>>
  BY DEF ConsumePlace, WinnersInv, WholeInv
<1>2. CASE AnnTo(a, "granting") /\ UNCHANGED winnerPool
  <2>1. "granting" \in AnnounceSteps
    BY DEF AnnounceSteps
  <2> QED
    BY <1>1, <1>2, <2>1, AnnounceGoesOn DEF drawVars, entryVars, TypeOK, WinnersInv
<1>3. CASE winnerPool' = ConsumeSlot(winnerPool) /\ AnnTo(a, "consumed")
  <2>1. ann' = [ann EXCEPT ![a] = [ann[a] EXCEPT !.at = "consumed"]]
    BY <1>3 DEF AnnTo, TypeOK
  <2>2. /\ ann' \in [Announces -> [at : AnnounceSteps, todo : SUBSET Entrants, cur : 0..N]]
        /\ ann'[a].at = "consumed" /\ ann'[a].todo = ann[a].todo /\ ann'[a].cur = ann[a].cur
        /\ \A b \in Announces \ {a} : ann'[b] = ann[b]
    BY <2>1 DEF TypeOK, AnnounceSteps
  <2>3. DrawerInv' /\ ListsInv' /\ RowsInv' /\ Whole' = Whole /\ Winners' = Winners
    BY <1>1, RunsAlone DEF drawVars
  <2>4. /\ Reserving' = Reserving \ {a} /\ a \in Reserving /\ Holding' = Holding
        /\ Holding \subseteq Reserving
    BY <1>1, <2>2 DEF Reserving, Holding
  <2>5. /\ IsFiniteSet(Reserving) /\ IsFiniteSet(Holding) /\ IsFiniteSet(grants)
        /\ Cardinality(Reserving) \in Nat /\ Cardinality(Holding) \in Nat
        /\ Cardinality(grants) \in Nat
    BY <2>4, FS_Subset, FS_CardinalityType DEF PlacesInv
  <2>6. /\ IsFiniteSet(Reserving') /\ Cardinality(Reserving') = Cardinality(Reserving) - 1
        /\ Cardinality(Reserving') \in Nat
    BY <2>4, <2>5, FS_RemoveElement, FS_CardinalityType
  <2>7. /\ winnerPool.reserved \in Nat /\ winnerPool.used \in Nat /\ winnerPool.reserved >= 1
        /\ winnerPool \in [total : {0, Quota}, reserved : Nat, used : Nat]
    BY <2>5, <2>6 DEF PlacesInv, TypeOK
  <2>8. /\ winnerPool' \in [total : {0, Quota}, reserved : Nat, used : Nat]
        /\ winnerPool'.reserved = winnerPool.reserved - 1
        /\ winnerPool'.used = winnerPool.used + 1 /\ winnerPool'.total = winnerPool.total
    BY <1>3, <2>7, SlotConsumed
  <2>9. TypeOK'
    BY <1>1, <2>2, <2>8 DEF TypeOK, drawVars, entryVars
  <2>10. WholeInv' /\ PoollessInv' /\ WinnersInv'
    BY <1>1, <2>2, <2>3, <2>8 DEF WholeInv, PoollessInv, WinnersInv, drawVars, entryVars
  <2>11. PlacesInv'
    BY <1>1, <2>4, <2>5, <2>6, <2>7, <2>8 DEF PlacesInv
  <2> QED
    BY <2>3, <2>9, <2>10, <2>11
<1> QED
  BY <1>2, <1>3 DEF ConsumePlace

LEMMA MarkWinnerStep == ASSUME IInv, NEW a \in Announces, MarkWinner(a) PROVE IInv'
<1>1. /\ ann[a].at = "consumed" /\ ann[a].cur \in Winners /\ Whole
      /\ AnnTo(a, "granting") /\ "granting" \in AnnounceSteps
      /\ UNCHANGED <<drawVars, winnerPool, asking, result, grants, run>>
  BY DEF MarkWinner, AnnounceSteps, IInv, WinnersInv, WholeInv
<1>2. /\ entry' \in [Entrants -> EntryStatuses] /\ deadline' \in [Entrants -> BOOLEAN]
      /\ \A e \in Entrants : entry'[e] = "WINNER" => e \in Winners
  <2>1. /\ entry \in [Entrants -> EntryStatuses] /\ deadline \in [Entrants -> BOOLEAN]
        /\ \A e \in Entrants : entry[e] = "WINNER" => e \in Winners
    BY DEF IInv, TypeOK, WinnersInv
  <2>2. CASE UNCHANGED <<entry, deadline>>
    BY <2>1, <2>2
  <2>3. CASE /\ entry' = [entry EXCEPT ![ann[a].cur] = "WINNER"]
             /\ deadline' = [deadline EXCEPT ![ann[a].cur] = TRUE]
    <3>1. "WINNER" \in EntryStatuses
      BY DEF EntryStatuses, Outcomes
    <3> QED
      BY <1>1, <2>1, <2>3, <3>1
  <2> QED
    BY <2>2, <2>3 DEF MarkWinner
<1> QED
  BY <1>1, <1>2, AnnounceGoesOn DEF drawVars

LEMMA EndAnnounceStep ==
    ASSUME IInv, NEW a \in Announces, EndGrants(a) \/ FinishAnnounce(a) \/ AnnounceDies(a)
    PROVE  IInv'
<1>1. {"finish", "answered", "failed"} \subseteq AnnounceSteps
  BY DEF AnnounceSteps
<1>2. \A e \in Entrants : entry[e] = "WINNER" => e \in Winners
  BY DEF IInv, WinnersInv
<1>3. entry \in [Entrants -> EntryStatuses] /\ deadline \in [Entrants -> BOOLEAN]
  BY DEF IInv, TypeOK
<1>4. CASE EndGrants(a)
  <2>1. Whole
    BY <1>4 DEF EndGrants, IInv, WholeInv
  <2> QED
    BY <1>1, <1>2, <1>3, <1>4, <2>1, AnnounceGoesOn DEF EndGrants, drawVars, entryVars
<1>5. CASE FinishAnnounce(a)
  <2>1. Whole
    BY <1>5 DEF FinishAnnounce, IInv, WholeInv
  <2> QED
    BY <1>1, <1>2, <1>3, <1>5, <2>1, AnnounceGoesOn DEF FinishAnnounce, entryVars
<1>6. CASE AnnounceDies(a)
  BY <1>1, <1>2, <1>3, <1>6, AnnounceGoesOn DEF AnnounceDies, drawVars, entryVars
<1> QED
  BY <1>4, <1>5, <1>6

LEMMA NextStep == ASSUME IInv, [Next]_vars PROVE IInv'
<1>1. CASE \E r \in Runs :
            \/ CheckDraw(r) \/ CommitSeed(r) \/ LoadEntries(r) \/ InsertResult(r)
            \/ EndInserts(r) \/ MarkEntries(r) \/ CreateWinnerPool(r) \/ LinkPool(r)
            \/ FinishDraw(r) \/ RunDies(r)
  BY <1>1, CheckDrawStep, CommitSeedStep, LoadEntriesStep, InsertResultStep, EndInsertsStep,
     MarkEntriesStep, CreateWinnerPoolStep, LinkPoolStep, FinishDrawStep, RunDiesStep
<1>2. CASE UNCHANGED vars
  <2>1. UNCHANGED <<drawVars, winnerPool, entryVars, result, grants, run, ann>>
    BY <1>2 DEF vars, drawVars, entryVars
  <2>2. Reserving' = Reserving /\ Holding' = Holding
    BY <2>1 DEF Reserving, Holding
  <2>3. PlacesInv'
    BY <2>1, <2>2, PlacesKept
  <2> QED
    BY <2>1, <2>3, RunsAlone
    DEF IInv, TypeOK, WholeInv, WinnersInv, PoollessInv, drawVars, entryVars
<1>3. CASE \/ AskStatus
           \/ \E s \in late : WriteStatus(s)
           \/ \E e \in Entrants : AskEntry(e) \/ WriteEntry(e) \/ SettleWinner(e)
  BY <1>3, OutsideStep
<1>4. CASE \E a \in Announces :
            \/ CheckDrawn(a) \/ ListWinners(a) \/ CreateGrant(a) \/ ConsumePlace(a)
            \/ MarkWinner(a) \/ EndGrants(a) \/ FinishAnnounce(a) \/ AnnounceDies(a)
            \/ \E e \in Entrants : TakeWinnerPlace(a, e)
  BY <1>4, CheckDrawnStep, ListWinnersStep, CreateGrantStep, ConsumePlaceStep,
     MarkWinnerStep, EndAnnounceStep, TakeWinnerPlaceStep
<1> QED
  BY <1>1, <1>2, <1>3, <1>4 DEF Next

-----------------------------------------------------------------------------
\* The invariant of the theorems below.
THEOREM InductiveInvariant == Spec => []IInv
BY InitIInv, NextStep, PTL DEF Spec

\* TypeOK: in particular a place of the winners' pool that is consumed was reserved, and
\* no rank is beyond the entrants.
THEOREM TypeCorrect == Spec => []TypeOK
BY InductiveInvariant, PTL DEF IInv

-----------------------------------------------------------------------------
\* Every row is that of a place in the list of the one call that draws.
LEMMA RowOfPlace ==
    ASSUME IInv, NEW e \in Drawn
    PROVE  \E r \in Runs : \E i \in 1..run[r].pos :
                Drawer(r) /\ run[r].list[i] = e /\ result[e] = Row(r, i)
<1>1. PICK r \in Runs : \E i \in 1..run[r].pos : run[r].list[i] = e
  BY DEF IInv, RowsInv
<1>2. PICK i \in 1..run[r].pos : run[r].list[i] = e
  BY <1>1
<1>3. Drawer(r) /\ result[e] = Row(r, i)
  BY <1>2, InsertedIsListed DEF IInv, RowsInv
<1> QED
  BY <1>2, <1>3

\* The rows of a draw that one call has finished are those of its list, in order.
LEMMA RowsOfList ==
    ASSUME IInv, NEW r \in Runs, Drawer(r), run[r].pos = Len(run[r].list)
    PROVE  /\ Len(run[r].list) \in Nat
           /\ run[r].list \in [1..Len(run[r].list) -> Entrants] /\ IsInjective(run[r].list)
           /\ \A i \in 1..Len(run[r].list) :
                run[r].list[i] \in Drawn /\ result[run[r].list[i]] = Row(r, i)
           /\ \A e \in Drawn : \E i \in 1..Len(run[r].list) : run[r].list[i] = e
<1>1. run[r].list \in Seq(Entrants) /\ IsInjective(run[r].list)
  BY DEF IInv, TypeOK, ListsInv
<1>2. Len(run[r].list) \in Nat /\ run[r].list \in [1..Len(run[r].list) -> Entrants]
  BY <1>1
<1>3. ASSUME NEW i \in 1..Len(run[r].list)
      PROVE  run[r].list[i] \in Drawn /\ result[run[r].list[i]] = Row(r, i)
  <2>1. result[run[r].list[i]] = Row(r, i)
    BY DEF IInv, RowsInv
  <2>2. Row(r, i).outcome # "none"
    BY DEF Row, Assign
  <2> QED
    BY <1>2, <2>1, <2>2 DEF Drawn, NoResult
<1>4. ASSUME NEW e \in Drawn PROVE \E i \in 1..Len(run[r].list) : run[r].list[i] = e
  BY RowOfPlace DEF IInv, DrawerInv
<1> QED
  BY <1>1, <1>2, <1>3, <1>4

\* OneDrawOnly: however many calls of RunDraw overlap, die or are made again, they leave
\* at most Quota winners, and no rank twice.
THEOREM DrawsOnce == Spec => []OneDrawOnly
<1>1. IInv => OneDrawOnly
  <2> SUFFICES ASSUME IInv PROVE OneDrawOnly
    OBVIOUS
  <2>1. ASSUME NEW d \in Drawn, NEW e \in Drawn, result[d].rank = result[e].rank PROVE d = e
    <3>1. PICK r \in Runs : \E i \in 1..run[r].pos :
                Drawer(r) /\ run[r].list[i] = d /\ result[d] = Row(r, i)
      BY RowOfPlace
    <3>2. PICK i \in 1..run[r].pos : run[r].list[i] = d /\ result[d] = Row(r, i)
      BY <3>1
    <3>3. PICK j \in 1..run[r].pos : run[r].list[j] = e /\ result[e] = Row(r, j)
      BY <3>1, RowOfPlace DEF IInv, DrawerInv
    <3>4. i - 1 = j - 1 /\ i \in Int /\ j \in Int
      BY <2>1, <3>2, <3>3 DEF Row
    <3> QED
      BY <3>2, <3>3, <3>4
  <2> DEFINE rank == [e \in Winners |-> result[e].rank]
  <2>2. \A e \in Winners : e \in Drawn
    BY DEF Winners, Drawn, NoResult
  <2>3. ASSUME NEW e \in Winners PROVE result[e].rank \in 0..Quota - 1
    <3>1. PICK r \in Runs : \E i \in 1..run[r].pos : result[e] = Row(r, i)
      BY <2>2, RowOfPlace
    <3>2. PICK i \in 1..run[r].pos : result[e] = Row(r, i)
      BY <3>1
    <3>3. Assign(i - 1) = "WINNER" /\ result[e].rank = i - 1
      BY <3>2 DEF Row, Winners
    <3>4. i - 1 < Quota /\ i >= 1 /\ i \in Int
      BY <3>3 DEF Assign
    <3> QED
      BY <3>3, <3>4, SizesAssumption
  <2>4. rank \in Injection(Winners, 0..Quota - 1)
    BY <2>1, <2>2, <2>3 DEF Injection, IsInjective
  <2>5. IsFiniteSet(0..Quota - 1) /\ Cardinality(0..Quota - 1) = Quota
    BY FS_Interval, SizesAssumption
  <2>6. Cardinality(Winners) <= Quota
    BY <2>4, <2>5, FS_Injection
  <2> QED
    BY <2>1, <2>6 DEF OneDrawOnly
<1> QED
  BY <1>1, InductiveInvariant, PTL

\* DrawnIsWhole: AnnounceDraw finds a row for every entry that was listed, ranks without
\* a gap and as many winners as could be, although RunDraw may die anywhere and its retry
\* does nothing.
THEOREM DrawsWhole == Spec => []DrawnIsWhole
<1>1. IInv => DrawnIsWhole
  <2> SUFFICES ASSUME IInv, Whole
               PROVE  /\ \A r \in Runs : ToSet(run[r].list) \subseteq Drawn
                      /\ {result[e].rank : e \in Drawn} = 0..Cardinality(Drawn) - 1
                      /\ Cardinality(Winners) = Min({Quota, Cardinality(Drawn)})
    BY DEF IInv, WholeInv, DrawnIsWhole
  <2>1. ASSUME NEW r \in Runs PROVE ToSet(run[r].list) \subseteq Drawn
    <3>1. CASE run[r].list = <<>>
      BY <3>1 DEF ToSet
    <3>2. CASE run[r].list # <<>>
      BY <3>2, RowsOfList DEF Drawer, Whole, ToSet
    <3> QED
      BY <3>1, <3>2
  <2>2. Winners \subseteq Drawn
    BY DEF Winners, Drawn, NoResult
  <2>3. \A n \in Nat : Min({Quota, n}) = IF n < Quota THEN n ELSE Quota
    BY SizesAssumption DEF Min
  <2>4. CASE Drawn = {}
    <3>1. Cardinality(Drawn) = 0 /\ Cardinality(Winners) = 0
      BY <2>2, <2>4, FS_EmptySet
    <3>2. {result[e].rank : e \in Drawn} = {} /\ 0..0 - 1 = {}
      BY <2>4
    <3> QED
      BY <2>1, <2>3, <3>1, <3>2, SizesAssumption
  <2>5. CASE Drawn # {}
    <3>1. PICK r \in Runs : Drawer(r)
      BY <2>5, RowOfPlace
    <3> DEFINE list == run[r].list
               n == Len(list)
               m == IF n < Quota THEN n ELSE Quota
               first == [i \in 1..m |-> list[i]]
    <3>2. /\ n \in Nat /\ list \in [1..n -> Entrants] /\ IsInjective(list)
          /\ \A i \in 1..n : list[i] \in Drawn /\ result[list[i]] = Row(r, i)
          /\ \A e \in Drawn : \E i \in 1..n : list[i] = e
      BY <3>1, RowsOfList DEF Whole
    <3> HIDE DEF list, n
    <3>3. ASSUME NEW i \in 1..n
          PROVE  result[list[i]].rank = i - 1 /\ result[list[i]].outcome = Assign(i - 1)
      <4>1. Row(r, i).rank = i - 1 /\ Row(r, i).outcome = Assign(i - 1)
        BY DEF Row
      <4> QED
        BY <3>2, <4>1
    <3>4. Cardinality(Drawn) = n
      <4>1. list \in Bijection(1..n, Drawn)
        BY <3>2 DEF Bijection, Injection, Surjection, IsInjective
      <4>2. IsFiniteSet(1..n) /\ Cardinality(1..n) = n
        BY <3>2, FS_Interval
      <4> QED
        BY <4>1, <4>2, FS_Bijection DEF ExistsBijection
    <3>5. {result[e].rank : e \in Drawn} = 0..n - 1
      <4>1. ASSUME NEW e \in Drawn PROVE result[e].rank \in 0..n - 1
        <5>1. PICK i \in 1..n : list[i] = e
          BY <3>2
        <5> QED
          BY <3>2, <3>3, <5>1
      <4>2. ASSUME NEW k \in 0..n - 1 PROVE \E e \in Drawn : result[e].rank = k
        <5>1. k + 1 \in 1..n /\ (k + 1) - 1 = k
          BY <3>2
        <5> QED
          BY <3>2, <3>3, <5>1
      <4> QED
        BY <4>1, <4>2
    <3>6. Cardinality(Winners) = m
      <4>1. m \in Nat /\ \A i \in 1..m : i \in 1..n /\ i - 1 < Quota
        BY <3>2, SizesAssumption
      <4>2. ASSUME NEW i \in 1..m PROVE first[i] \in Winners
        <5>1. i \in 1..n /\ i - 1 < Quota
          BY <4>1
        <5>2. Assign(i - 1) = "WINNER"
          BY <5>1, SizesAssumption DEF Assign
        <5>3. list[i] \in Winners
          BY <3>2, <3>3, <5>1, <5>2 DEF Winners
        <5> QED
          BY <5>3
      <4>3. ASSUME NEW e \in Winners PROVE \E i \in 1..m : first[i] = e
        <5>1. PICK i \in 1..n : list[i] = e
          BY <2>2, <3>2
        <5>2. Assign(i - 1) = "WINNER"
          BY <3>3, <5>1 DEF Winners
        <5>3. i - 1 < Quota
          BY <5>2 DEF Assign
        <5>4. i \in 1..m
          BY <3>2, <5>3, SizesAssumption
        <5> QED
          BY <5>1, <5>4
      <4>4. \A i, j \in 1..m : first[i] = first[j] => i = j
        BY <3>2, <4>1 DEF IsInjective
      <4> HIDE DEF m
      <4>5. first \in Bijection(1..m, Winners)
        BY <4>2, <4>3, <4>4 DEF Bijection, Injection, Surjection, IsInjective
      <4>6. IsFiniteSet(1..m) /\ Cardinality(1..m) = m
        BY <4>1, FS_Interval
      <4> QED
        BY <4>5, <4>6, FS_Bijection DEF ExistsBijection
    <3> QED
      BY <2>1, <2>3, <3>2, <3>4, <3>5, <3>6
  <2> QED
    BY <2>4, <2>5
<1> QED
  BY <1>1, InductiveInvariant, PTL

\* GrantsGoToWinners: AnnounceDraw, called any number of times at once and failing
\* anywhere, writes grants for drawn winners only and no more than the quota of them.
THEOREM GrantsEarned == Spec => []GrantsGoToWinners
<1>1. IInv => GrantsGoToWinners
  <2> SUFFICES ASSUME IInv PROVE GrantsGoToWinners
    OBVIOUS
  <2>1. /\ winnerPool.total \in {0, Quota} /\ winnerPool.reserved \in Nat
        /\ winnerPool.used \in Nat
    BY DEF IInv, TypeOK
  <2>2. IsFiniteSet(Holding) /\ IsFiniteSet(grants)
    <3>1. Holding \subseteq Reserving
      BY DEF Holding, Reserving
    <3> QED
      BY <3>1, FS_Subset DEF IInv, PlacesInv
  <2>3. Cardinality(Holding) \in Nat /\ Cardinality(grants) \in Nat
    BY <2>2, FS_CardinalityType
  <2>4. Cardinality(grants) <= Quota
    BY <2>1, <2>3, SizesAssumption DEF IInv, PlacesInv
  <2> QED
    BY <2>4 DEF IInv, WinnersInv, GrantsGoToWinners
<1> QED
  BY <1>1, InductiveInvariant, PTL
=============================================================================
