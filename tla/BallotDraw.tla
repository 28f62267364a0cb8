----------------------------- MODULE BallotDraw -----------------------------
(***************************************************************************)
(* ONE ballot draw: applications, the draw, and the announcement that      *)
(* gives each winner a grant from the winners' pool.                       *)
(*                                                                         *)
(* No operation runs in a transaction.  Each reads the draw's status and   *)
(* later writes it, or an entry's, by id alone; only the seed is guarded.  *)
(* Calls of every operation therefore interleave statement by statement.   *)
(***************************************************************************)
EXTENDS PoolSlots, Sequences, SequencesExt, FiniteSets, FiniteSetsExt, Functions

CONSTANTS
    N,              \* entrants, named in the order of their entries' ids
    Quota,
    WaitlistSize,
    Runs,           \* calls of RunDraw: the first and its retries
    Announces       \* calls of AnnounceDraw

ASSUME SizesAssumption == N \in Nat /\ Quota \in Nat \ {0} /\ WaitlistSize \in Nat

Entrants == 1..N

VARIABLES
    status,         \* of the draw
    late,           \* status writes of OpenDraw and CloseDraw calls that passed their test
    seeded,         \* the draw has its seed
    linked,         \* the draw has its winner_pool_id
    winnerPool,     \* the winners' pool; no places before it exists
    entry,          \* each entrant's entry: its status
    asking,         \* what an entrant's call is about to write: "APPLIED", "WITHDRAWN"
    result,         \* each entry's row of ballot_draw_results
    grants,         \* the winners' rows of access_grants: the call that wrote it, the entrant
    deadline,       \* an entry has its payment_deadline and access_grant_id
    run,            \* each RunDraw call
    ann             \* each AnnounceDraw call

vars == <<status, late, seeded, linked, winnerPool, entry, asking, result, grants, deadline,
          run, ann>>
drawVars == <<status, late, seeded, linked>>
entryVars == <<entry, asking, deadline>>

DrawStatuses == {"PENDING", "OPEN", "CLOSED", "DRAWN", "ANNOUNCED"}
Outcomes == {"WINNER", "WAITLISTED", "NOT_SELECTED"}
EntryStatuses == Outcomes \cup {"NONE", "APPLIED", "WITHDRAWN", "LAPSED", "CONVERTED"}

NoResult == [outcome |-> "none", rank |-> 0, hashOf |-> 0]
RunSteps == Outcomes \cup {"idle", "checked", "seeded", "inserting", "pool",
    "link", "finish", "answered", "failed"}
AnnounceSteps == {"idle", "read", "granting", "reserved", "granted", "consumed",
    "finish", "answered", "failed"}

\* The type of every variable.
TypeOK ==
    /\ status \in DrawStatuses /\ late \subseteq {"OPEN", "CLOSED"}
    /\ seeded \in BOOLEAN /\ linked \in BOOLEAN
    /\ winnerPool \in [total : {0, Quota}, reserved : Nat, used : Nat]
    /\ entry \in [Entrants -> EntryStatuses]
    /\ asking \in [Entrants -> {"NONE", "APPLIED", "WITHDRAWN"}]
    /\ result \in [Entrants ->
        {NoResult} \cup [outcome : Outcomes, rank : 0..N - 1, hashOf : Entrants]]
    /\ grants \subseteq Announces \X Entrants /\ deadline \in [Entrants -> BOOLEAN]
    /\ run \in [Runs -> [at : RunSteps, list : Seq(Entrants), order : Seq(Entrants),
                         pos : 0..N]]
    /\ ann \in [Announces -> [at : AnnounceSteps, todo : SUBSET Entrants, cur : 0..N]]

Init ==
    /\ status = "PENDING" /\ late = {} /\ seeded = FALSE /\ linked = FALSE
    /\ winnerPool = NewPool(0)
    /\ entry = [e \in Entrants |-> "NONE"]
    /\ asking = [e \in Entrants |-> "NONE"]
    /\ result = [e \in Entrants |-> NoResult]
    /\ grants = {}
    /\ deadline = [e \in Entrants |-> FALSE]
    /\ run = [r \in Runs |-> [at |-> "idle", list |-> <<>>, order |-> <<>>, pos |-> 0]]
    /\ ann = [a \in Announces |-> [at |-> "idle", todo |-> {}, cur |-> 0]]

-----------------------------------------------------------------------------
(***************************************************************************)
(* The organizer opens and closes the draw; participants apply, withdraw.  *)
(***************************************************************************)

\* OpenDraw and CloseDraw, up to their test.  Calls that pass it together are alike.
AskStatus ==
    /\ \/ status = "PENDING" /\ late' = late \cup {"OPEN"}
       \/ status = "OPEN" /\ late' = late \cup {"CLOSED"}
    /\ UNCHANGED <<status, seeded, linked, winnerPool, entryVars, result, grants, run, ann>>

\* The write, by id alone; another call may still be about to do the same.
WriteStatus(s) ==
    /\ s \in late
    /\ status' = s
    /\ late' \in {late, late \ {s}}
    /\ UNCHANGED <<seeded, linked, winnerPool, entryVars, result, grants, run, ann>>

\* Apply and Withdraw, up to the last read.
AskEntry(e) ==
    /\ status = "OPEN" /\ asking[e] = "NONE"
    /\ \/ entry[e] = "NONE" /\ asking' = [asking EXCEPT ![e] = "APPLIED"]
       \/ entry[e] = "APPLIED" /\ asking' = [asking EXCEPT ![e] = "WITHDRAWN"]
    /\ UNCHANGED <<drawVars, winnerPool, entry, deadline, result, grants, run, ann>>

WriteEntry(e) ==
    /\ asking[e] # "NONE"
    /\ entry' = [entry EXCEPT ![e] = asking[e]]
    /\ asking' = [asking EXCEPT ![e] = "NONE"]
    /\ UNCHANGED <<drawVars, winnerPool, deadline, result, grants, run, ann>>

-----------------------------------------------------------------------------
(***************************************************************************)
(* RunDraw.                                                                *)
(***************************************************************************)

RunTo(r, s) == run' = [run EXCEPT ![r].at = s]

Applied == {e \in Entrants : entry[e] = "APPLIED"}
ListApplied == CHOOSE s \in SetToSeqs(Applied) : \A i, j \in DOMAIN s : i < j => s[i] < s[j]

\* The seed stands for any order.
Shuffles(list) == {s \in [1..Len(list) -> ToSet(list)] : IsInjective(s)}

\* Assign: the outcome of rank i.
Assign(i) ==
    CASE i < Quota -> "WINNER"
      [] i >= Quota /\ i < Quota + WaitlistSize -> "WAITLISTED"
      [] OTHER -> "NOT_SELECTED"

\* The status, and whether the draw has a result already.
CheckDraw(r) ==
    /\ run[r].at = "idle"
    /\ RunTo(r, IF status # "CLOSED" THEN "failed"
                ELSE IF \E e \in Entrants : result[e].outcome = "WINNER"
                     THEN "answered" ELSE "checked")
    /\ UNCHANGED <<drawVars, winnerPool, entryVars, result, grants, ann>>

MutSeedIsFree == TRUE
\* SetBallotDrawSeed's guard.
SeedIsFree == ~seeded

\* The caller that sets the seed draws; to any other the call succeeds.
CommitSeed(r) ==
    /\ run[r].at = "checked"
    /\ seeded' = TRUE
    /\ RunTo(r, IF SeedIsFree THEN "seeded" ELSE "answered")
    /\ UNCHANGED <<status, late, linked, winnerPool, entryVars, result, grants, ann>>

\* The applied entries by id, and the seed's order of them.
LoadEntries(r) ==
    /\ run[r].at = "seeded"
    /\ \E s \in Shuffles(ListApplied) :
        run' = [run EXCEPT ![r] =
            [at |-> "inserting", list |-> ListApplied, order |-> s, pos |-> 0]]
    /\ UNCHANGED <<drawVars, winnerPool, entryVars, result, grants, ann>>

\* InsertBallotDrawResult, ON CONFLICT DO NOTHING.  The entry is the one listed at the
\* rank, the hash the one of the entry shuffled to it.
InsertResult(r) ==
    LET i == run[r].pos
        e == run[r].list[i + 1]
    IN  /\ run[r].at = "inserting" /\ i < Len(run[r].list)
        /\ run' = [run EXCEPT ![r].pos = i + 1]
        /\ result' = IF result[e] # NoResult THEN result
                     ELSE [result EXCEPT ![e] =
                        [outcome |-> Assign(i), rank |-> i, hashOf |-> run[r].order[i + 1]]]
        /\ UNCHANGED <<drawVars, winnerPool, entryVars, grants, ann>>

MutDrawnWith(r, o) == {run[r].order[i] : i \in {j \in 1..run[r].pos : Assign(j - 1) = o}}
\* The entries the call has given an outcome.
DrawnWith(r, o) == {run[r].list[i] : i \in {j \in 1..run[r].pos : Assign(j - 1) = o}}

MutAllInserted(r) == TRUE
\* The loop is over.
AllInserted(r) == run[r].pos = Len(run[r].list)

EndInserts(r) ==
    /\ run[r].at = "inserting" /\ AllInserted(r)
    /\ RunTo(r, "WINNER")
    /\ UNCHANGED <<drawVars, winnerPool, entryVars, result, grants, ann>>

\* BulkUpdateBallotOutcome for one outcome after the other.  An error is ignored.
MarkEntries(r) ==
    LET o == run[r].at
        next == [WINNER |-> "WAITLISTED", WAITLISTED |-> "NOT_SELECTED",
                 NOT_SELECTED |-> "pool"]
    IN  /\ o \in Outcomes
        /\ entry' \in {entry,
            [e \in Entrants |-> IF e \in DrawnWith(r, o) THEN o ELSE entry[e]]}
        /\ RunTo(r, next[o])
        /\ UNCHANGED <<drawVars, winnerPool, asking, deadline, result, grants, ann>>

CreateWinnerPool(r) ==
    /\ run[r].at = "pool"
    /\ winnerPool' = NewPool(Quota)
    /\ RunTo(r, "link")
    /\ UNCHANGED <<drawVars, entryVars, result, grants, ann>>

\* SetBallotDrawPools; an error is ignored.
LinkPool(r) ==
    /\ run[r].at = "link"
    /\ linked' \in {linked, TRUE}
    /\ RunTo(r, "finish")
    /\ UNCHANGED <<status, late, seeded, winnerPool, entryVars, result, grants, ann>>

FinishDraw(r) ==
    /\ run[r].at = "finish"
    /\ status' = "DRAWN"
    /\ RunTo(r, "answered")
    /\ UNCHANGED <<late, seeded, linked, winnerPool, entryVars, result, grants, ann>>

Running(r) == run[r].at \notin {"idle", "answered", "failed"}

\* A statement fails, or the process dies.
RunDies(r) ==
    /\ Running(r)
    /\ RunTo(r, "failed")
    /\ UNCHANGED <<drawVars, winnerPool, entryVars, result, grants, ann>>

-----------------------------------------------------------------------------
(***************************************************************************)
(* AnnounceDraw.                                                           *)
(***************************************************************************)

AnnTo(a, s) == ann' = [ann EXCEPT ![a].at = s]

CheckDrawn(a) ==
    /\ ann[a].at = "idle"
    /\ AnnTo(a, IF status = "DRAWN" THEN "read" ELSE "failed")
    /\ UNCHANGED <<drawVars, winnerPool, entryVars, result, grants, run>>

\* ListWinnerEntries.  Without a pool each winner is passed over.
ListWinners(a) ==
    /\ ann[a].at = "read"
    /\ ann' = [ann EXCEPT ![a].at = "granting",
        ![a].todo = IF linked THEN {e \in Entrants : entry[e] = "WINNER"} ELSE {}]
    /\ UNCHANGED <<drawVars, winnerPool, entryVars, result, grants, run>>

\* The next winner: a place, or none is left and the winner is passed over.
TakeWinnerPlace(a, e) ==
    /\ ann[a].at = "granting" /\ e \in ann[a].todo
    /\ IF HasSlot(winnerPool)
       THEN /\ winnerPool' = ReserveSlot(winnerPool)
            /\ ann' = [ann EXCEPT ![a] = [at |-> "reserved", todo |-> @.todo \ {e}, cur |-> e]]
       ELSE /\ ann' = [ann EXCEPT ![a].todo = @ \ {e}]
            /\ UNCHANGED winnerPool
    /\ UNCHANGED <<drawVars, entryVars, result, grants, run>>

\* CreateGrant: the grant's row, then the place; after an error the next winner's turn.
CreateGrant(a) ==
    /\ ann[a].at = "reserved"
    /\ \/ /\ grants' = grants \cup {<<a, ann[a].cur>>}
          /\ AnnTo(a, "granted")
       \/ AnnTo(a, "granting") /\ UNCHANGED grants
    /\ UNCHANGED <<drawVars, winnerPool, entryVars, result, run>>

ConsumePlace(a) ==
    /\ ann[a].at = "granted"
    /\ \/ winnerPool' = ConsumeSlot(winnerPool) /\ AnnTo(a, "consumed")
       \/ AnnTo(a, "granting") /\ UNCHANGED winnerPool
    /\ UNCHANGED <<drawVars, entryVars, result, grants, run>>

\* UpdateBallotEntryStatus, by id alone; an error is ignored.
MarkWinner(a) ==
    /\ ann[a].at = "consumed"
    /\ \/ /\ entry' = [entry EXCEPT ![ann[a].cur] = "WINNER"]
          /\ deadline' = [deadline EXCEPT ![ann[a].cur] = TRUE]
       \/ UNCHANGED <<entry, deadline>>
    /\ AnnTo(a, "granting")
    /\ UNCHANGED <<drawVars, winnerPool, asking, result, grants, run>>

\* The list for the waitlist holds APPLIED entries only, so nobody joins.
EndGrants(a) ==
    /\ ann[a].at = "granting" /\ ann[a].todo = {}
    /\ AnnTo(a, "finish")
    /\ UNCHANGED <<drawVars, winnerPool, entryVars, result, grants, run>>

FinishAnnounce(a) ==
    /\ ann[a].at = "finish"
    /\ status' = "ANNOUNCED"
    /\ AnnTo(a, "answered")
    /\ UNCHANGED <<late, seeded, linked, winnerPool, entryVars, result, grants, run>>

AnnounceDies(a) ==
    /\ ann[a].at \notin {"idle", "answered", "failed"}
    /\ AnnTo(a, "failed")
    /\ UNCHANGED <<drawVars, winnerPool, entryVars, result, grants, run>>

\* A winner's order is paid, or his deadline passes without one.
SettleWinner(e) ==
    /\ \/ entry[e] \in {"WINNER", "LAPSED"} /\ \E a \in Announces : <<a, e>> \in grants
          /\ entry' = [entry EXCEPT ![e] = "CONVERTED"]
       \/ entry[e] = "WINNER" /\ deadline[e]
          /\ entry' = [entry EXCEPT ![e] = "LAPSED"]
    /\ UNCHANGED <<drawVars, winnerPool, asking, deadline, result, grants, run, ann>>

Next ==
    \/ AskStatus
    \/ \E s \in late : WriteStatus(s)
    \/ \E e \in Entrants : AskEntry(e) \/ WriteEntry(e) \/ SettleWinner(e)
    \/ \E r \in Runs :
        \/ CheckDraw(r) \/ CommitSeed(r) \/ LoadEntries(r) \/ InsertResult(r)
        \/ EndInserts(r) \/ MarkEntries(r) \/ CreateWinnerPool(r) \/ LinkPool(r)
        \/ FinishDraw(r) \/ RunDies(r)
    \/ \E a \in Announces :
        \/ CheckDrawn(a) \/ ListWinners(a) \/ CreateGrant(a) \/ ConsumePlace(a)
        \/ MarkWinner(a) \/ EndGrants(a) \/ FinishAnnounce(a) \/ AnnounceDies(a)
        \/ \E e \in Entrants : TakeWinnerPlace(a, e)

Spec == Init /\ [][Next]_vars

-----------------------------------------------------------------------------
Drawn == {e \in Entrants : result[e] # NoResult}
Winners == {e \in Entrants : result[e].outcome = "WINNER"}

\* Whatever calls of RunDraw overlap or are retried, and whoever withdraws meanwhile,
\* there are at most Quota winners and no rank is given twice.
OneDrawOnly ==
    /\ Cardinality(Winners) <= Quota
    /\ \A d, e \in Drawn : d # e => result[d].rank # result[e].rank

\* A draw announced, or ready to be, has a whole result: a row for every entry that was
\* listed, ranks without a gap, and every place that could be won is won.
DrawnIsWhole ==
    status \in {"DRAWN", "ANNOUNCED"} =>
        /\ \A r \in Runs : ToSet(run[r].list) \subseteq Drawn
        /\ {result[e].rank : e \in Drawn} = 0..Cardinality(Drawn) - 1
        /\ Cardinality(Winners) = Min({Quota, Cardinality(Drawn)})

\* Grants go to drawn winners only, and together never exceed the quota, however many
\* announcements overlap, fail in between or are repeated.
GrantsGoToWinners ==
    /\ \A g \in grants : g[2] \in Winners
    /\ Cardinality(grants) <= Quota

\* The published hash of a result names the entry it is the result of.
HashNamesEntry == \A e \in Drawn : result[e].hashOf = e

\* A call of RunDraw that succeeds, nothing else being under way, leaves the winners
\* their pool: a retry completes what an interrupted call began.
RetryCompletes ==
    (\E r \in Runs : run[r].at = "answered") /\ (\A r \in Runs : ~Running(r))
        => winnerPool.total > 0
=============================================================================
