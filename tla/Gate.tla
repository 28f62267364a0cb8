-------------------------------- MODULE Gate --------------------------------
(***************************************************************************)
(* Race day at ONE event: scanners check tickets in at the gate and hand   *)
(* race packs out at a counter.  A scanner without network queues its      *)
(* scans in IndexedDB and sends them when the browser reports it is online *)
(* again; the server keeps the answers by Idempotency-Key, but looks the   *)
(* key up before the transaction and stores it after, so a request that is *)
(* repeated while, or after, an earlier one is cut off runs again.         *)
(*                                                                         *)
(* An op stands for one scan and its key.  Its request may be at the       *)
(* server several times at once; a request whose client hangs up goes on   *)
(* or dies at any of its steps.                                            *)
(***************************************************************************)
EXTENDS Naturals, FiniteSets

CONSTANTS
    Tickets,
    Devices,        \* scanners, one SyncEngine each
    Ops,            \* scans, each with its Idempotency-Key
    Kind,           \* "CHECKIN", "PICKUP" of a scanner, "DESK": pickup at the web desk
    TicketOf,       \* the ticket scanned
    DeviceOf,       \* the scanner (a DESK op has the browser's)
    Capacities,     \* capacities the organizer gives the pickup slot
    MaxCopies,      \* requests of one op at the server at once (bound)
    MaxLosses,      \* answers lost and scanners restarted (bound)
    NoOp

ASSUME OpsAssumption ==
    /\ NoOp \notin Ops
    /\ Kind \in [Ops -> {"CHECKIN", "PICKUP", "DESK"}]
    /\ TicketOf \in [Ops -> Tickets]
    /\ DeviceOf \in [Ops -> Devices]
ASSUME CapacitiesAssumption == Capacities \subseteq Nat /\ Capacities # {}
ASSUME BoundsAssumption == MaxCopies \in Nat \ {0} /\ MaxLosses \in Nat

VARIABLES
    used,           \* tickets: the scan whose time is used_at, NoOp while VALID
    pickup,         \* the scan that made the ticket's PICKED_UP record
    reserved,       \* the slot's reserved_count
    capacity,       \* the slot's capacity
    stored,         \* idempotency_keys: the answer kept for an op
    at,             \* where each copy of an op's request is
    answer,         \* what that copy is going to answer
    queue,          \* the op in its device's operations store
    cached,         \* ticketState: <<device, ticket>> known to be checked in
    todo,           \* the PENDING ops a sync run has listed and not yet sent
    current,        \* the op the run is at
    phase,          \* how far the run is with it
    copy,           \* the request whose answer the run waits for
    losses

ticketVars == <<used, pickup>>
slotVars == <<reserved, capacity>>
serverVars == <<used, pickup, reserved, capacity, stored>>
requestVars == <<at, answer>>
storeVars == <<queue, cached>>
runVars == <<todo, current, phase, copy>>
vars == <<used, pickup, reserved, capacity, stored, at, answer,
          queue, cached, todo, current, phase, copy, losses>>

Copies == 1..MaxCopies
Answers == {"fresh", "duplicate", "already", "refused"}
Recorded(op) == IF Kind[op] = "CHECKIN" THEN used[TicketOf[op]] ELSE pickup[TicketOf[op]]

\* The type of every variable; a sync run is at an op exactly when it is not idle.
TypeOK ==
    /\ used \in [Tickets -> Ops \cup {NoOp}]
    /\ pickup \in [Tickets -> Ops \cup {NoOp}]
    /\ reserved \in Nat /\ capacity \in Capacities
    /\ stored \in [Ops -> {"none", "fresh", "duplicate"}]
    /\ at \in [Ops -> [Copies -> {"none", "arrived", "run", "locked", "store", "reply"}]]
    /\ answer \in [Ops -> [Copies -> Answers]]
    /\ queue \in [Ops -> {"none", "PENDING", "FAILED", "drained", "direct"}]
    /\ cached \in SUBSET (Devices \X Tickets)
    /\ todo \in [Devices -> SUBSET Ops]
    /\ current \in [Devices -> Ops \cup {NoOp}]
    /\ phase \in [Devices -> {"idle", "waiting", "drain", "marked", "fail", "retain"}]
    /\ copy \in [Devices -> Copies]
    /\ \A d \in Devices : phase[d] = "idle" <=> current[d] = NoOp
    /\ losses \in 0..MaxLosses

Init ==
    /\ used = [t \in Tickets |-> NoOp]
    /\ pickup = [t \in Tickets |-> NoOp]
    /\ reserved = 0
    /\ capacity \in Capacities
    /\ stored = [op \in Ops |-> "none"]
    /\ at = [op \in Ops |-> [i \in Copies |-> "none"]]
    /\ answer = [op \in Ops |-> [i \in Copies |-> "refused"]]
    /\ queue = [op \in Ops |-> "none"]
    /\ cached = {}
    /\ todo = [d \in Devices |-> {}]
    /\ current = [d \in Devices |-> NoOp]
    /\ phase = [d \in Devices |-> "idle"]
    /\ copy = [d \in Devices |-> 1]
    /\ losses = 0

-----------------------------------------------------------------------------
(***************************************************************************)
(* The scanner.                                                            *)
(***************************************************************************)

\* A new request of op reaches the server.
Send(op, i) ==
    /\ at[op][i] = "none"
    /\ at' = [at EXCEPT ![op][i] = "arrived"]

\* Confirmed online: one request with a key of its own, whose answer is only shown.
ConfirmOnline(op) ==
    /\ queue[op] = "none"
    /\ queue' = [queue EXCEPT ![op] = "direct"]
    /\ Send(op, 1)
    /\ UNCHANGED <<serverVars, answer, cached, runVars, losses>>

\* Confirmed offline: queued, unless the cache knows the ticket as checked in.
\* (No run ever caches a pickup: see Receive.)
EnqueueScan(op) ==
    /\ queue[op] = "none" /\ Kind[op] # "DESK"
    /\ Kind[op] = "CHECKIN" => <<DeviceOf[op], TicketOf[op]>> \notin cached
    /\ queue' = [queue EXCEPT ![op] = "PENDING"]
    /\ UNCHANGED <<serverVars, requestVars, cached, runVars, losses>>

Pending(d) == {op \in Ops : DeviceOf[op] = d /\ queue[op] = "PENDING"}

\* The browser reports it is online: a run, if none is going, lists what to send.
StartSync(d) ==
    /\ phase[d] = "idle" /\ todo[d] = {}
    /\ Pending(d) # {}
    /\ todo' = [todo EXCEPT ![d] = Pending(d)]
    /\ UNCHANGED <<serverVars, requestVars, storeVars, current, phase, copy, losses>>

\* The run sends the next op (the store lists them by key, which is random).
SendNext(d, op, i) ==
    /\ phase[d] = "idle" /\ op \in todo[d]
    /\ todo' = [todo EXCEPT ![d] = @ \ {op}]
    /\ current' = [current EXCEPT ![d] = op]
    /\ phase' = [phase EXCEPT ![d] = "waiting"]
    /\ copy' = [copy EXCEPT ![d] = i]
    /\ Send(op, i)
    /\ UNCHANGED <<serverVars, answer, storeVars, losses>>

\* Network error, time-out or 5xx: the request may still be at the server.
AnswerLost(d) ==
    /\ phase[d] = "waiting" /\ losses < MaxLosses
    /\ phase' = [phase EXCEPT ![d] = "retain"]
    /\ losses' = losses + 1
    /\ UNCHANGED <<serverVars, requestVars, storeVars, todo, current, copy>>

MutClassify(a) == "drain"
\* classifyFailure: a 2xx and a 409 ALREADY_... drain, any other 4xx fails.
Classify(a) == IF a = "refused" THEN "fail" ELSE "drain"

\* The run is done with the op.
EndOp(d) ==
    /\ current' = [current EXCEPT ![d] = NoOp]
    /\ phase' = [phase EXCEPT ![d] = "idle"]
    /\ copy' = [copy EXCEPT ![d] = 1]
    /\ UNCHANGED todo

\* RETAIN: updateStatus writes PENDING over PENDING.
Retain(d) ==
    /\ phase[d] = "retain"
    /\ EndOp(d)
    /\ UNCHANGED <<serverVars, requestVars, storeVars, losses>>

\* FAIL: kept for the staff to see, never sent again.
FailOp(d) ==
    /\ phase[d] = "fail"
    /\ queue' = [queue EXCEPT ![current[d]] = "FAILED"]
    /\ EndOp(d)
    /\ UNCHANGED <<serverVars, requestVars, cached, losses>>

\* DRAIN: first the cached ticket state, then the queue.
MarkProcessed(d) ==
    /\ phase[d] = "drain"
    /\ cached' = cached \cup {<<d, TicketOf[current[d]]>>}
    /\ phase' = [phase EXCEPT ![d] = "marked"]
    /\ UNCHANGED <<serverVars, requestVars, queue, todo, current, copy, losses>>

RemoveOperation(d) ==
    /\ phase[d] = "marked"
    /\ queue' = [queue EXCEPT ![current[d]] = "drained"]
    /\ EndOp(d)
    /\ UNCHANGED <<serverVars, requestVars, cached, losses>>

\* The page is closed or reloaded: IndexedDB stays, the run is gone.
Restart(d) ==
    /\ losses < MaxLosses
    /\ losses' = losses + 1
    /\ todo' = [todo EXCEPT ![d] = {}]
    /\ current' = [current EXCEPT ![d] = NoOp]
    /\ phase' = [phase EXCEPT ![d] = "idle"]
    /\ copy' = [copy EXCEPT ![d] = 1]
    /\ UNCHANGED <<serverVars, requestVars, storeVars>>

-----------------------------------------------------------------------------
(***************************************************************************)
(* The server: POST /scan/check-in and POST /racepack/pickups.             *)
(***************************************************************************)

Goto(op, i, s) == at' = [at EXCEPT ![op][i] = s]
Answer(op, i, a, s) ==
    /\ Goto(op, i, s)
    /\ answer' = [answer EXCEPT ![op][i] = a]

\* LookupIdempotency: a hit is answered as it was.  (An op is one payload, so the
\* request hash always agrees.)
Lookup(op, i) ==
    /\ at[op][i] = "arrived"
    /\ IF stored[op] = "none"
       THEN Goto(op, i, "run") /\ UNCHANGED answer
       ELSE Answer(op, i, stored[op], "reply")
    /\ UNCHANGED <<serverVars, storeVars, runVars, losses>>

MutStoreIdempotency(op, i, a) ==
    /\ stored' = [stored EXCEPT ![op] = "fresh"]
    /\ Answer(op, i, a, "reply")
\* StoreIdempotency: the first answer stored stays; a failure is only logged.
StoreIdempotency(op, i, a) ==
    /\ stored' \in {stored, [stored EXCEPT ![op] = IF @ = "none" THEN a ELSE @]}
    /\ Answer(op, i, a, "reply")

Store(op, i) ==
    /\ at[op][i] = "store"
    /\ StoreIdempotency(op, i, answer[op][i])
    /\ UNCHANGED <<ticketVars, slotVars, storeVars, runVars, losses>>

\* No transaction holds the ticket's row.
TicketFree(t) == \A o \in Ops, j \in Copies : TicketOf[o] = t => at[o][j] # "locked"

MutMarkTicketUsed(op) == used' = [used EXCEPT ![TicketOf[op]] = op]
\* MarkTicketUsed, guarded by VALID, keeps the time of the scan.
MarkTicketUsed(op) == used' = [used EXCEPT ![TicketOf[op]] = IF @ = NoOp THEN op ELSE @]

\* CheckIn in its transaction: only the locked ticket decides.
CheckIn(op, i) ==
    /\ at[op][i] = "run" /\ Kind[op] = "CHECKIN"
    /\ TicketFree(TicketOf[op])
    /\ MarkTicketUsed(op)
    /\ Answer(op, i, IF used[TicketOf[op]] = NoOp THEN "fresh" ELSE "duplicate", "store")
    /\ UNCHANGED <<pickup, slotVars, stored, storeVars, runVars, losses>>

\* Refused before anything is written: a ticket of another event, a staff member
\* without permission; for a pickup also an order that is not PAID, no bib, a
\* counter or slot that is closed.  The scanner's own pickup names no method, so
\* nothing else can become of it.
Refuse(op, i) ==
    /\ at[op][i] = "run"
    /\ Answer(op, i, "refused", "reply")
    /\ UNCHANGED <<serverVars, storeVars, runVars, losses>>

\* ExecutePickup up to the slot: the ticket is locked; the rest it reads
\* may have changed by the commit.
LockPickup(op, i) ==
    /\ at[op][i] = "run" /\ Kind[op] = "DESK"
    /\ TicketFree(TicketOf[op])
    /\ IF pickup[TicketOf[op]] # NoOp
       THEN Answer(op, i, "already", "reply")
       ELSE Goto(op, i, "locked") /\ UNCHANGED answer
    /\ UNCHANGED <<serverVars, storeVars, runVars, losses>>

MutHasRoom == reserved <= capacity
\* IncrementRacepackPickupSlotReserved, one statement: its guard,
HasRoom == reserved < capacity
\* and its effect.
IncrementSlotReserved == HasRoom /\ reserved' = reserved + 1

\* The rest of ExecutePickup: a place in the slot, the record, the commit.
CommitPickup(op, i) ==
    /\ at[op][i] = "locked"
    /\ \/ /\ IncrementSlotReserved
          /\ pickup' = [pickup EXCEPT ![TicketOf[op]] = op]
          /\ Answer(op, i, "fresh", "store")
       \/ /\ ~HasRoom
          /\ Answer(op, i, "refused", "reply")
          /\ UNCHANGED <<reserved, pickup>>
    /\ UNCHANGED <<used, capacity, stored, storeVars, runVars, losses>>

\* The run of op's device waits for the answer of this request.
Awaited(op, i) ==
    LET d == DeviceOf[op]
    IN  phase[d] = "waiting" /\ current[d] = op /\ copy[d] = i

\* The client has hung up: the request's context is cancelled at any point.
HangUp(op, i) ==
    /\ at[op][i] # "none" /\ ~Awaited(op, i)
    /\ Answer(op, i, "refused", "none")
    /\ UNCHANGED <<serverVars, storeVars, runVars, losses>>

\* The answer is written, and arrives when the run still waits for it.
Reply(op, i) ==
    /\ at[op][i] = "reply"
    /\ Answer(op, i, "refused", "none")
    /\ phase' = IF Awaited(op, i)
                THEN [phase EXCEPT ![DeviceOf[op]] = Classify(answer[op][i])]
                ELSE phase
    /\ UNCHANGED <<serverVars, storeVars, todo, current, copy, losses>>

-----------------------------------------------------------------------------
(***************************************************************************)
(* The rest of the system.                                                 *)
(***************************************************************************)

\* A participant reserves a place in advance.  No row says whose it is, and the
\* event is compared after the place is taken.
ReserveSlot ==
    /\ IncrementSlotReserved
    /\ UNCHANGED <<ticketVars, capacity, stored, requestVars, storeVars, runVars, losses>>

\* UpdateSlot: the new capacity may be below what is reserved.
UpdateSlot(c) ==
    /\ c # capacity
    /\ capacity' = c
    /\ UNCHANGED <<ticketVars, reserved, stored, requestVars, storeVars, runVars, losses>>

Step(op, i) ==
    \/ Lookup(op, i)
    \/ CheckIn(op, i)
    \/ Refuse(op, i)
    \/ LockPickup(op, i)
    \/ CommitPickup(op, i)
    \/ Store(op, i)
    \/ Reply(op, i)

RunStep(d) ==
    \/ \E op \in Ops, i \in Copies : SendNext(d, op, i)
    \/ Retain(d)
    \/ FailOp(d)
    \/ MarkProcessed(d)
    \/ RemoveOperation(d)

Next ==
    \/ \E op \in Ops : ConfirmOnline(op) \/ EnqueueScan(op)
    \/ \E op \in Ops, i \in Copies : Step(op, i) \/ HangUp(op, i)
    \/ \E d \in Devices : StartSync(d) \/ RunStep(d) \/ AnswerLost(d) \/ Restart(d)
    \/ ReserveSlot
    \/ \E c \in Capacities : UpdateSlot(c)

Spec == Init /\ [][Next]_vars

\* The server goes on with a request and a run goes on with its list; nothing in
\* the code starts a run but the browser's online event.
RunsGoOn ==
    /\ \A d \in Devices : WF_vars(RunStep(d))
    /\ \A op \in Ops, i \in Copies : WF_vars(Step(op, i))
RunSpec == Spec /\ RunsGoOn

\* The scanner leaves and finds the network again while it has scans to send.
FairSpec == RunSpec /\ \A d \in Devices : WF_vars(StartSync(d))

-----------------------------------------------------------------------------
\* A scan leaves its device's queue, or enters its cache as checked in, only when
\* the server has recorded the ticket: a lost answer, a restart between the two
\* writes of DRAIN, or a repeated request never drops a scan.
DrainedIsRecorded ==
    /\ \A op \in Ops : queue[op] = "drained" => Recorded(op) # NoOp
    /\ \A c \in cached : used[c[2]] # NoOp

\* Only the scan that the ticket's record names is ever told, at once or from the
\* idempotency table, that it was the first.
FirstIsOwner ==
    \A op \in Ops :
        /\ stored[op] = "fresh" => Recorded(op) = op
        /\ \A i \in Copies :
               at[op][i] \in {"store", "reply"} /\ answer[op][i] = "fresh" => Recorded(op) = op

\* Every race pack handed out has taken a place in the slot, and the slot never
\* had more places taken than the largest capacity it was given.
SlotCovers ==
    /\ Cardinality({t \in Tickets : pickup[t] # NoOp}) <= reserved
    /\ \E c \in Capacities : reserved <= c

\* The record of a ticket's first check-in and of its pickup is never replaced.
FirstScanKept ==
    [][\A t \in Tickets :
        /\ used[t] # NoOp => used'[t] = used[t]
        /\ pickup[t] # NoOp => pickup'[t] = pickup[t]]_vars

\* Every queued scan is sent until the server has answered it one way or another.
ScansSettle ==
    \A op \in Ops : queue[op] = "PENDING" ~> queue[op] \in {"drained", "FAILED"}

\* A scan whose answer was lost is sent again by the engine itself (checked
\* without the assumption that the browser reports a new connection).
RetriedInBackground ==
    \A d \in Devices : phase[d] = "retain" ~> phase[d] = "waiting"
=============================================================================
