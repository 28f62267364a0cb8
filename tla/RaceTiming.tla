----------------------------- MODULE RaceTiming -----------------------------
(***************************************************************************)
(* The timing of ONE race: chip readings come in from the mats, an         *)
(* operator has them processed into results, and chips are given to bibs   *)
(* before, during and after the race.                                      *)
(*                                                                         *)
(* Nothing runs in a transaction.  A run reads the chips' bibs, then the   *)
(* readings not yet processed, writes one result after the other, and      *)
(* marks the readings in the end, so runs overlap, die half way, and see   *)
(* only the part of a runner's readings that is there when they list them. *)
(***************************************************************************)
EXTENDS Integers, FiniteSets, FiniteSetsExt, SequencesExt

CONSTANTS
    Bibs, Chips, NoBib,
    Readings,       \* rows that may come in, each known by its idempotency key
    MatOf,          \* the mat of a reading, aliases resolved
    StartMat,
    SplitMats,      \* the mats between; any other code is of no mat of the race
    FinishMat,
    ChipOf,         \* the chip read,
    BibOn,          \* and the bib if the provider sends one
    TimeOf,
    WaveStart,      \* when a bib's wave starts, NoTime if it has none
    Policies,       \* policies the race may have (bound)
    Debounce,       \* the debounce window
    Limit,          \* readings a run lists at most
    Runs,           \* concurrent calls of ProcessTiming; each may be made again
    Assigns,        \* calls of AssignMapping, each made once,
    BibOf,          \*   the bib and the chip it maps, and whether it replaces
    ChipFor,
    ReplaceOld,
    CsvRows,        \* rows of an imported file (bound)
    MaxLosses       \* statements that fail, runs that die, deletions (bound)

NoTime == -1
Actions == {"WARNING", "PENDING_REVIEW", "DNF", "DSQ"}
Statuses == {"FINISHED", "DNF", "DNS", "DSQ", "OTL", "PENDING_REVIEW"}
Results == [status : Statuses, net : Nat \cup {NoTime}, gun : Nat \cup {NoTime},
            source : {"CSV", "TIMING_API"}]

ASSUME NamesAssumption ==
    /\ NoBib \notin Bibs
    /\ MatOf \in [Readings -> STRING] /\ ChipOf \in [Readings -> Chips]
    /\ BibOn \in [Readings -> Bibs \cup {NoBib}] /\ TimeOf \in [Readings -> Nat]
    /\ WaveStart \in [Bibs -> Nat \cup {NoTime}]
    /\ BibOf \in [Assigns -> Bibs] /\ ChipFor \in [Assigns -> Chips]
    /\ ReplaceOld \in [Assigns -> BOOLEAN]
ASSUME PoliciesAssumption == Policies \subseteq
    [cutoff : Nat, startMode : {"", "CHIP_MANDATORY"}, allowMissingStart : BOOLEAN,
     mandatory : SUBSET STRING, action : Actions]
ASSUME RowsAssumption == \A w \in CsvRows : w \in Results /\ w.source = "CSV"
ASSUME BoundsAssumption ==
    Debounce \in Nat \ {0} /\ Limit \in Nat \ {0} /\ MaxLosses \in Nat

VARIABLES
    policy,         \* of the race
    received,       \* timing_passings: rows,
    marked,         \*   and those with processed set
    chips,          \* the active mappings: the bib of each chip, or NoBib
    assign,         \* how far each AssignMapping is
    row,            \* race_results
    run,            \* each run
    parts,          \* history: for each bib the sets of readings runs have scored
    losses

vars == <<policy, received, marked, chips, assign, row, run, parts, losses>>

NoRow == [source |-> "none"]

\* NewProcessor's policy, used when the race's cannot be read.
DefaultPolicy == [cutoff |-> 0, startMode |-> "", allowMissingStart |-> TRUE,
                  mandatory |-> {}, action |-> "PENDING_REVIEW"]

NoRun == [at |-> "idle", map |-> [c \in Chips |-> NoBib], batch |-> {}, todo |-> {},
          policy |-> DefaultPolicy]

\* The type of every variable; no chip is two bibs' and no bib has two chips.
TypeOK ==
    /\ policy \in Policies
    /\ received \subseteq Readings /\ marked \subseteq received
    /\ chips \in [Chips -> Bibs \cup {NoBib}]
    /\ \A c, d \in Chips : chips[c] = chips[d] /\ chips[c] # NoBib => c = d
    /\ assign \in [Assigns -> {"new", "bib", "chip", "done"}]
    /\ row \in [Bibs -> Results \cup {NoRow}]
    /\ run \in [Runs ->
        [at : {"idle", "read", "scoring"}, map : [Chips -> Bibs \cup {NoBib}],
         batch : SUBSET received, todo : SUBSET Bibs,
         policy : Policies \cup {DefaultPolicy}]]
    /\ parts \in [Bibs -> SUBSET SUBSET Readings] /\ losses \in 0..MaxLosses

Init ==
    /\ policy \in Policies
    /\ received = {} /\ marked = {}
    /\ chips = [c \in Chips |-> NoBib]
    /\ assign = [a \in Assigns |-> "new"]
    /\ row = [b \in Bibs |-> NoRow]
    /\ run = [r \in Runs |-> NoRun]
    /\ parts = [b \in Bibs |-> {}]
    /\ losses = 0

Loss == losses < MaxLosses /\ losses' = losses + 1

-----------------------------------------------------------------------------
(***************************************************************************)
(* Processor.ProcessEventPassings: the score of one bib's readings S.      *)
(***************************************************************************)

\* S by time; of readings at one time any may come first.
ByTime(S) == CHOOSE s \in SetToSeqs(S) :
    \A i, j \in DOMAIN s : i < j => TimeOf[s[i]] <= TimeOf[s[j]]

\* The last time counted at the mat m, or one that no reading is too close to.
LastAt(C, m) == Max({-Debounce} \cup {TimeOf[q] : q \in {p \in C : MatOf[p] = m}})

\* What counts after the reading p, when C counts before it.
Counted(C, p) == IF TimeOf[p] - LastAt(C, MatOf[p]) < Debounce THEN C ELSE C \cup {p}

\* The readings left when repeated ones are dropped: a reading counts unless the
\* last one counted at its mat is less than the window before it.
Kept(S) ==
    LET s == ByTime(S)
        kept[i \in 0..Len(s)] == IF i = 0 THEN {} ELSE Counted(kept[i - 1], s[i])
    IN  kept[Len(s)]

TimesAt(C, m) == {TimeOf[p] : p \in {q \in C : MatOf[q] = m}}
SeenAt(C, m) == m \in SplitMats \cup {StartMat, FinishMat} /\ TimesAt(C, m) # {}

\* The first start read, or the wave's start if the policy lets it stand in.
StartTime(b, C, q) ==
    IF TimesAt(C, StartMat) # {} THEN Min(TimesAt(C, StartMat))
    ELSE IF q.startMode # "CHIP_MANDATORY" /\ q.allowMissingStart THEN WaveStart[b]
    ELSE NoTime

\* The last finish counted.
FinishTime(C) == IF TimesAt(C, FinishMat) # {} THEN Max(TimesAt(C, FinishMat)) ELSE NoTime

Elapsed(from, to) == IF from # NoTime /\ to > from THEN to - from ELSE NoTime

\* The status by the times: DNS, DNF, FINISHED, or over the time limit.
Status(start, net, q) ==
    IF net # NoTime THEN IF q.cutoff > 0 /\ net > q.cutoff THEN "OTL" ELSE "FINISHED"
    ELSE IF start # NoTime THEN "DNF" ELSE "DNS"

MutAdjudicated(status, missing, q) == IF missing /\ q.action # "WARNING" THEN q.action ELSE status
\* Only a finisher is judged for the mandatory mats he was not seen at.
Adjudicated(status, missing, q) ==
    IF status = "FINISHED" /\ missing /\ q.action # "WARNING" THEN q.action ELSE status

Score(b, S, q) ==
    LET C == Kept(S)
        start == StartTime(b, C, q)
        net == Elapsed(start, FinishTime(C))
        missing == \E m \in q.mandatory : ~SeenAt(C, m)
    IN  [status |-> Adjudicated(Status(start, net, q), missing, q),
         net |-> net,
         gun |-> Elapsed(WaveStart[b], FinishTime(C)),
         source |-> "TIMING_API"]

-----------------------------------------------------------------------------
(***************************************************************************)
(* Readings come in; chips are given out.                                  *)
(***************************************************************************)

\* IngestPassings, one INSERT for each reading.  Sent again it changes nothing.
Ingest(p) ==
    /\ p \notin received
    /\ received' = received \cup {p}
    /\ UNCHANGED <<policy, marked, chips, assign, row, run, parts, losses>>

AssignTo(a, s) == assign' = [assign EXCEPT ![a] = s]

\* With replaceOld, the bib's mapping is closed, then the chip's; errors are ignored.
DeactivateBib(a) ==
    /\ assign[a] = "new" /\ ReplaceOld[a]
    /\ \/ chips' = [c \in Chips |-> IF chips[c] = BibOf[a] THEN NoBib ELSE chips[c]]
          /\ UNCHANGED losses
       \/ UNCHANGED chips /\ Loss
    /\ AssignTo(a, "bib")
    /\ UNCHANGED <<policy, received, marked, row, run, parts>>

DeactivateChip(a) ==
    /\ assign[a] = "bib"
    /\ \/ chips' = [chips EXCEPT ![ChipFor[a]] = NoBib] /\ UNCHANGED losses
       \/ UNCHANGED chips /\ Loss
    /\ AssignTo(a, "chip")
    /\ UNCHANGED <<policy, received, marked, row, run, parts>>

\* The unique indexes: one active mapping for a bib and for a chip.
MappingIsFree(a) == chips[ChipFor[a]] = NoBib /\ \A c \in Chips : chips[c] # BibOf[a]

InsertMapping(a) ==
    /\ assign[a] = "chip" \/ (assign[a] = "new" /\ ~ReplaceOld[a])
    /\ chips' = IF MappingIsFree(a) THEN [chips EXCEPT ![ChipFor[a]] = BibOf[a]] ELSE chips
    /\ AssignTo(a, "done")
    /\ UNCHANGED <<policy, received, marked, row, run, parts, losses>>

-----------------------------------------------------------------------------
(***************************************************************************)
(* ProcessTiming.                                                          *)
(***************************************************************************)

\* The active mappings (and, unchanging here, mats, waves and tickets) are read.
ReadMappings(r) ==
    /\ run[r].at = "idle"
    /\ run' = [run EXCEPT ![r] = [NoRun EXCEPT !.at = "read", !.map = chips]]
    /\ UNCHANGED <<policy, received, marked, chips, assign, row, parts, losses>>

\* The bib the provider sent, or else the chip's.
BibRead(r, p) == IF BibOn[p] # NoBib THEN BibOn[p] ELSE run[r].map[ChipOf[p]]

\* What a run lists: all that is not marked, or the earliest Limit of it.
Listings ==
    LET open == received \ marked
    IN  IF Cardinality(open) <= Limit THEN {open}
        ELSE {S \in kSubset(Limit, open) : \A p \in S, q \in open \ S : TimeOf[p] <= TimeOf[q]}

\* The readings of b in the run's listing.
ReadingsOf(r, b, S) == {p \in S : BibRead(r, p) = b}

\* The readings are listed and the policy is read, if it can be.  The run has an output
\* for each bib that has a reading.
ListPassings(r) ==
    /\ run[r].at = "read" /\ received # marked
    /\ \E S \in Listings, q \in {policy, DefaultPolicy} :
        LET seen == {b \in Bibs : ReadingsOf(r, b, S) # {}}
        IN  /\ run' = [run EXCEPT ![r] = [@ EXCEPT
                        !.at = "scoring", !.batch = S, !.todo = seen, !.policy = q]]
            /\ parts' = [b \in Bibs |-> IF b \in seen
                            THEN parts[b] \cup {ReadingsOf(r, b, S)} ELSE parts[b]]
            /\ IF q = policy THEN UNCHANGED losses ELSE Loss
    /\ UNCHANGED <<policy, received, marked, chips, assign, row>>

\* Nothing to process.
ListNothing(r) ==
    /\ run[r].at = "read" /\ received = marked
    /\ run' = [run EXCEPT ![r] = NoRun]
    /\ UNCHANGED <<policy, received, marked, chips, assign, row, parts, losses>>

\* UpsertRaceResult replaces the whole row; after an error the next bib's turn.
UpsertResult(r, b) ==
    /\ run[r].at = "scoring" /\ b \in run[r].todo
    /\ run' = [run EXCEPT ![r].todo = @ \ {b}]
    /\ \/ /\ row' = [row EXCEPT ![b] =
                        Score(b, ReadingsOf(r, b, run[r].batch), run[r].policy)]
          /\ UNCHANGED losses
       \/ UNCHANGED row /\ Loss
    /\ UNCHANGED <<policy, received, marked, chips, assign, parts>>

\* Every reading that has a bib, a dropped one too.
Evaluated(r) == {p \in run[r].batch : BibRead(r, p) # NoBib}

MutAllWritten(r) == TRUE
\* The loop over the outputs is over.
AllWritten(r) == run[r].todo = {}

\* MarkPassingsProcessed; an error is ignored.
MarkProcessed(r) ==
    /\ run[r].at = "scoring" /\ AllWritten(r)
    /\ \/ marked' = marked \cup Evaluated(r) /\ UNCHANGED losses
       \/ UNCHANGED marked /\ Loss
    /\ run' = [run EXCEPT ![r] = NoRun]
    /\ UNCHANGED <<policy, received, chips, assign, row, parts>>

\* A read fails, the request is cancelled or the process stops.
RunDies(r) ==
    /\ run[r].at # "idle" /\ Loss
    /\ run' = [run EXCEPT ![r] = NoRun]
    /\ UNCHANGED <<policy, received, marked, chips, assign, row, parts>>

-----------------------------------------------------------------------------
(***************************************************************************)
(* The results page.                                                       *)
(***************************************************************************)

\* ImportCSV writes a row for a bib; one without a time never counts as FINISHED.
ImportRow(b, w) ==
    /\ row' = [row EXCEPT ![b] = [w EXCEPT !.status =
            IF @ = "FINISHED" /\ w.net = NoTime /\ w.gun = NoTime THEN "DNF" ELSE @]]
    /\ UNCHANGED <<policy, received, marked, chips, assign, run, parts, losses>>

\* DeleteAll clears the results and leaves the readings as they are.
DeleteAll ==
    /\ Loss
    /\ row' = [b \in Bibs |-> NoRow]
    /\ UNCHANGED <<policy, received, marked, chips, assign, run, parts>>

Next ==
    \/ \E p \in Readings : Ingest(p)
    \/ \E a \in Assigns : DeactivateBib(a) \/ DeactivateChip(a) \/ InsertMapping(a)
    \/ \E r \in Runs :
        \/ ReadMappings(r) \/ ListPassings(r) \/ ListNothing(r)
        \/ MarkProcessed(r) \/ RunDies(r)
        \/ \E b \in Bibs : UpsertResult(r, b)
    \/ \E b \in Bibs, w \in CsvRows : ImportRow(b, w)
    \/ DeleteAll

Spec == Init /\ [][Next]_vars

-----------------------------------------------------------------------------
(***************************************************************************)
(* Properties.                                                             *)
(***************************************************************************)

\* Of repeated readings the rules count one and pass over those within the window
\* after it: the set that counts is the one that agrees with that.
Counts(C, S) ==
    \A p \in S : p \in C <=>
        ~\E q \in C \ {p} : /\ MatOf[q] = MatOf[p] /\ TimeOf[q] <= TimeOf[p]
                            /\ TimeOf[p] < TimeOf[q] + Debounce

\* The timing metrics and statuses of docs/concepts/competition-engine.md:24-35 for the
\* readings S of b.  A runner has started when seen at the start, or without that if the
\* policy excuses it; has finished when seen at the finish after the start; has a net time
\* from the one to the other and a gun time from the wave's start; is OTL when over the
\* limit; is FINISHED if in time and seen at every mandatory mat, and what the race's policy
\* says if not seen at one.  (docs/TIMING.md has other statuses: see FourStatuses.)
ByRules(w, b, S, q) ==
    \E C \in SUBSET S :
        LET seen(m) == \E p \in C : MatOf[p] = m
            excused == q.startMode # "CHIP_MANDATORY" /\ q.allowMissingStart
            started(t) == IF seen(StartMat)
                          THEN /\ \E p \in C : MatOf[p] = StartMat /\ TimeOf[p] = t
                               /\ \A p \in C : MatOf[p] = StartMat => t <= TimeOf[p]
                          ELSE excused /\ t = WaveStart[b] /\ t # NoTime
            finished(t) == /\ \E p \in C : MatOf[p] = FinishMat /\ TimeOf[p] = t
                           /\ \A p \in C : MatOf[p] = FinishMat => TimeOf[p] <= t
            times == {TimeOf[p] : p \in S} \cup ({WaveStart[b]} \ {NoTime})
            net(n) == n > 0 /\ \E t \in times : started(t) /\ finished(t + n)
            gun(n) == n > 0 /\ WaveStart[b] # NoTime /\ finished(WaveStart[b] + n)
            inTime == w.net # NoTime /\ (q.cutoff = 0 \/ w.net <= q.cutoff)
            whole == \A m \in q.mandatory : seen(m) /\ m \in SplitMats \cup {StartMat, FinishMat}
        IN  /\ Counts(C, S)
            /\ IF w.net # NoTime THEN net(w.net)
               ELSE \A t, u \in times : started(t) /\ finished(u) => u <= t
            /\ IF w.gun # NoTime THEN gun(w.gun)
               ELSE WaveStart[b] # NoTime =>
                        \A u \in times : finished(u) => u <= WaveStart[b]
            /\ w.status = "FINISHED" <=> inTime /\ (whole \/ q.action = "WARNING")
            /\ w.status = "OTL" <=> w.net # NoTime /\ ~inTime
            /\ w.status = "DNS" <=> w.net = NoTime /\ ~\E t \in times : started(t)
            /\ inTime /\ w.status # "FINISHED" => w.status = q.action

\* A result from the mats is what the rules make of all the readings of its bib that
\* some run has seen together: never a mixture of two runs, of two runners who shared a
\* chip, or of an old and a new listing.  In particular, a runner whose readings were
\* always listed together has the right result whatever runs overlapped or died.
ResultsByRules ==
    \A b \in Bibs : row[b] # NoRow /\ row[b].source = "TIMING_API" =>
        \E S \in parts[b], q \in {policy, DefaultPolicy} : ByRules(row[b], b, S, q)

\* A reading is taken off the list only when a run has scored it for a bib, and that
\* bib has a result unless a statement was lost or the results were deleted: a reading
\* whose chip has no bib yet waits for one, and a run that dies leaves its readings.
NoReadingLost ==
    \A p \in marked :
        \E b \in Bibs : /\ \E S \in parts[b] : p \in S
                        /\ row[b] = NoRow => losses > 0

\* There are four statuses, and a runner over the time limit is DNF (docs/TIMING.md:101-103).
\* Not so in the code, which follows docs/concepts/competition-engine.md:34 and has OTL for
\* such a runner, and PENDING_REVIEW.
FourStatuses ==
    \A b \in Bibs : row[b] # NoRow =>
        /\ row[b].status \in {"FINISHED", "DNF", "DNS", "DSQ"}
        /\ (/\ row[b].source = "TIMING_API" /\ losses = 0
            /\ policy.cutoff > 0 /\ row[b].net > policy.cutoff) => row[b].status = "DNF"

\* A runner's result counts every reading there is of him (docs/TIMING.md: net time is
\* from the start mat to the finish mat).  Not so in the code when one run has listed the
\* start and a later one the finish.
WholeRunnerScored ==
    (\A r \in Runs : run[r].at = "idle") /\ marked = Readings /\ losses = 0 =>
        \A b \in Bibs :
            LET S == UNION parts[b]
            IN  row[b] # NoRow /\ row[b].source = "TIMING_API" => ByRules(row[b], b, S, policy)
=============================================================================
