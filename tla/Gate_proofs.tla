----------------------------- MODULE Gate_proofs -----------------------------
(***************************************************************************)
(* Theorems about race day, for any tickets, scanners and scans, any       *)
(* number of requests of one scan at the server at once, and any number of *)
(* lost answers and restarts.                                              *)
(*                                                                         *)
(* The argument: a record is only made of a ticket that has none, which    *)
(* for a pickup is because the ticket stays locked from the test to the    *)
(* commit; so what an answer, a stored answer or a scanner's run says of a *)
(* ticket stays true however late it arrives.                              *)
(***************************************************************************)
EXTENDS Gate, FiniteSetTheorems, TLAPS

\* No step replaces a record.
RecordsKept ==
    \A t \in Tickets :
        /\ used[t] # NoOp => used'[t] = used[t]
        /\ pickup[t] # NoOp => pickup'[t] = pickup[t]

\* What an answer promises, rec being the record of op's ticket.
Earned(op, a, rec) ==
    \/ a = "refused"
    \/ /\ Kind[op] # "PICKUP" /\ rec # NoOp
       /\ a = "fresh" => rec = op

\* The transaction of a pickup: it alone has its ticket, which has no record.
LockInv ==
    /\ \A op \in Ops, i \in Copies : at[op][i] = "locked" =>
        Kind[op] = "DESK" /\ pickup[TicketOf[op]] = NoOp
    /\ \A op, o \in Ops, i, j \in Copies :
        at[op][i] = "locked" /\ at[o][j] = "locked" /\ TicketOf[op] = TicketOf[o] =>
            op = o /\ i = j

\* What the server answers, or keeps to answer again, is so.
AnswersEarned ==
    \A op \in Ops :
        /\ stored[op] # "none" => Earned(op, stored[op], Recorded(op))
        /\ \A i \in Copies :
            /\ at[op][i] \in {"store", "reply"} => Earned(op, answer[op][i], Recorded(op))
            /\ at[op][i] = "store" => answer[op][i] \in {"fresh", "duplicate"}

\* What a scanner's run is about to write is so.
RunInv ==
    /\ \A op \in Ops : queue[op] = "PENDING" => Kind[op] # "DESK"
    /\ \A d \in Devices :
        /\ \A op \in todo[d] : Kind[op] # "DESK"
        /\ phase[d] # "idle" => Kind[current[d]] # "DESK"
        /\ phase[d] \in {"drain", "marked"} =>
            Kind[current[d]] = "CHECKIN" /\ used[TicketOf[current[d]]] # NoOp

PickedUp == {t \in Tickets : pickup[t] # NoOp}
SlotInv == IsFiniteSet(PickedUp) /\ SlotCovers

IInv == TypeOK /\ LockInv /\ AnswersEarned /\ RunInv /\ DrainedIsRecorded /\ SlotInv

-----------------------------------------------------------------------------
LEMMA InitIInv == Init => IInv
<1> SUFFICES ASSUME Init PROVE IInv
  OBVIOUS
<1>1. TypeOK
  BY BoundsAssumption, CapacitiesAssumption DEF Init, TypeOK, Copies, Answers
<1>2. LockInv /\ AnswersEarned /\ RunInv /\ DrainedIsRecorded
  <2>1. \A op \in Ops : stored[op] = "none" /\ \A i \in Copies : at[op][i] = "none"
    BY DEF Init
  <2>2. LockInv /\ AnswersEarned
    BY <2>1 DEF LockInv, AnswersEarned
  <2>3. RunInv /\ DrainedIsRecorded
    BY DEF Init, RunInv, DrainedIsRecorded
  <2> QED
    BY <2>2, <2>3
<1>3. PickedUp = {}
  BY DEF Init, PickedUp
<1>4. SlotInv
  <2>1. IsFiniteSet(PickedUp) /\ Cardinality(PickedUp) = 0 /\ reserved = 0
    BY <1>3, FS_EmptySet DEF Init
  <2>2. \E c \in Capacities : 0 <= c
    <3>1. PICK c \in Capacities : c \in Nat
      BY CapacitiesAssumption
    <3> QED
      BY <3>1
  <2> QED
    BY <2>1, <2>2 DEF SlotInv, SlotCovers, PickedUp
<1> QED
  BY <1>1, <1>2, <1>4 DEF IInv

-----------------------------------------------------------------------------
(***************************************************************************)
(* What stays when the records stay.                                       *)
(***************************************************************************)

LEMMA RecordedKept ==
    ASSUME RecordsKept, NEW op \in Ops, Recorded(op) # NoOp
    PROVE  Recorded(op)' = Recorded(op)
BY OpsAssumption DEF RecordsKept, Recorded

LEMMA EarnedStays ==
    ASSUME RecordsKept, NEW op \in Ops, NEW a, Earned(op, a, Recorded(op))
    PROVE  Earned(op, a, Recorded(op)')
BY RecordedKept DEF Earned

LEMMA ServerAlone ==
    ASSUME SlotInv, UNCHANGED serverVars PROVE RecordsKept /\ SlotInv'
BY DEF SlotInv, SlotCovers, PickedUp, RecordsKept, serverVars

LEMMA ScannerAlone ==
    ASSUME TypeOK, RunInv, DrainedIsRecorded, RecordsKept, UNCHANGED <<storeVars, runVars>>
    PROVE  RunInv' /\ DrainedIsRecorded'
<1>1. UNCHANGED <<queue, cached, todo, current, phase, copy>>
  BY DEF storeVars, runVars
<1>2. \A d \in Devices : phase[d] # "idle" => current[d] \in Ops
  BY DEF TypeOK
<1>3. RunInv'
  BY <1>1, <1>2, OpsAssumption DEF RunInv, RecordsKept
<1>4. \A op \in Ops : queue'[op] = "drained" => Recorded(op)' # NoOp
  BY <1>1, RecordedKept DEF DrainedIsRecorded
<1>5. \A c \in cached' : used'[c[2]] # NoOp
  BY <1>1 DEF DrainedIsRecorded, RecordsKept, TypeOK
<1> QED
  BY <1>3, <1>4, <1>5 DEF DrainedIsRecorded

\* One request moves to s, and is to answer a.
Moved(op, i, s, a) ==
    /\ at' \in [Ops -> [Copies -> {"none", "arrived", "run", "locked", "store", "reply"}]]
    /\ answer' \in [Ops -> [Copies -> Answers]]
    /\ \A o \in Ops, j \in Copies :
        /\ at'[o][j] = IF o = op /\ j = i THEN s ELSE at[o][j]
        /\ answer'[o][j] = IF o = op /\ j = i THEN a ELSE answer[o][j]

LEMMA GotoMoves ==
    ASSUME TypeOK, NEW op \in Ops, NEW i \in Copies, UNCHANGED answer,
           NEW s \in {"none", "arrived", "run", "locked", "store", "reply"},
           at' = [at EXCEPT ![op][i] = s]
    PROVE  Moved(op, i, s, answer[op][i])
BY DEF TypeOK, Moved

LEMMA AnswerMoves ==
    ASSUME TypeOK, NEW op \in Ops, NEW i \in Copies, NEW a \in Answers,
           NEW s \in {"none", "arrived", "run", "locked", "store", "reply"},
           Answer(op, i, a, s)
    PROVE  Moved(op, i, s, a)
BY DEF TypeOK, Moved, Answer, Goto

\* A request that takes no lock moves, while the records stay.
LEMMA MoveKeeps ==
    ASSUME TypeOK, LockInv, AnswersEarned, RecordsKept, UNCHANGED <<pickup, stored>>,
           NEW op \in Ops, NEW i \in Copies, NEW a \in Answers,
           NEW s \in {"none", "arrived", "run", "store", "reply"},
           Moved(op, i, s, a),
           s \in {"store", "reply"} => Earned(op, a, Recorded(op)'),
           s = "store" => a \in {"fresh", "duplicate"}
    PROVE  LockInv' /\ AnswersEarned'
<1>1. LockInv'
  <2>1. \A o \in Ops, j \in Copies : at'[o][j] = "locked" => at[o][j] = "locked"
    BY DEF Moved
  <2> QED
    BY <2>1 DEF LockInv
<1>2. ASSUME NEW o \in Ops, stored'[o] # "none"
      PROVE  Earned(o, stored'[o], Recorded(o)')
  BY <1>2, EarnedStays DEF AnswersEarned
<1>3. ASSUME NEW o \in Ops, NEW j \in Copies, at'[o][j] \in {"store", "reply"}
      PROVE  Earned(o, answer'[o][j], Recorded(o)')
  <2>1. CASE o = op /\ j = i
    BY <1>3, <2>1 DEF Moved
  <2>2. CASE ~(o = op /\ j = i)
    BY <1>3, <2>2, EarnedStays DEF AnswersEarned, Moved
  <2> QED
    BY <2>1, <2>2
<1>4. ASSUME NEW o \in Ops, NEW j \in Copies, at'[o][j] = "store"
      PROVE  answer'[o][j] \in {"fresh", "duplicate"}
  BY <1>4 DEF AnswersEarned, Moved
<1> QED
  BY <1>1, <1>2, <1>3, <1>4 DEF AnswersEarned

-----------------------------------------------------------------------------
(***************************************************************************)
(* The scanner's steps.                                                    *)
(***************************************************************************)

LEMMA RequestsAlone ==
    ASSUME LockInv, AnswersEarned, UNCHANGED <<serverVars, requestVars>>
    PROVE  LockInv' /\ AnswersEarned'
BY DEF LockInv, AnswersEarned, Recorded, serverVars, requestVars

\* A run that ends, or is done with an op.
LEMMA RunIdle ==
    ASSUME TypeOK, NEW d \in Devices,
           current' = [current EXCEPT ![d] = NoOp], phase' = [phase EXCEPT ![d] = "idle"],
           copy' = [copy EXCEPT ![d] = 1]
    PROVE  /\ current' \in [Devices -> Ops \cup {NoOp}]
           /\ phase' \in [Devices ->
                {"idle", "waiting", "drain", "marked", "fail", "retain"}]
           /\ copy' \in [Devices -> Copies]
           /\ \A x \in Devices : phase'[x] = "idle" <=> current'[x] = NoOp
           /\ \A x \in Devices :
                phase'[x] # "idle" => phase'[x] = phase[x] /\ current'[x] = current[x]
<1>1. 1 \in Copies
  BY BoundsAssumption DEF Copies
<1> QED
  BY <1>1 DEF TypeOK

\* A scanner's step that sends nothing.
LEMMA QueueStep ==
    ASSUME IInv,
           \/ \E op \in Ops : EnqueueScan(op)
           \/ \E d \in Devices :
                StartSync(d) \/ AnswerLost(d) \/ Retain(d) \/ FailOp(d)
                  \/ MarkProcessed(d) \/ RemoveOperation(d) \/ Restart(d)
    PROVE  IInv' /\ RecordsKept
<1>1. UNCHANGED <<serverVars, requestVars>>
  BY DEF EnqueueScan, StartSync, AnswerLost, Retain, FailOp, MarkProcessed,
         RemoveOperation, Restart
<1>2. /\ TypeOK /\ RunInv /\ DrainedIsRecorded
      /\ UNCHANGED <<used, pickup, reserved, capacity, stored, at, answer>>
  BY <1>1 DEF IInv, serverVars, requestVars
<1>3. TypeOK' /\ RunInv' /\ DrainedIsRecorded'
  <2>1. ASSUME NEW op \in Ops, EnqueueScan(op) PROVE TypeOK' /\ RunInv' /\ DrainedIsRecorded'
    <3>1. TypeOK'
      BY <1>2, <2>1 DEF TypeOK, EnqueueScan, runVars
    <3> QED
      BY <1>2, <2>1, <3>1
      DEF TypeOK, RunInv, DrainedIsRecorded, Recorded, EnqueueScan, runVars
  <2>2. ASSUME NEW d \in Devices, StartSync(d) PROVE TypeOK' /\ RunInv' /\ DrainedIsRecorded'
    <3>1. TypeOK'
      BY <1>2, <2>2 DEF TypeOK, StartSync, Pending, storeVars
    <3> QED
      BY <1>2, <2>2, <3>1
      DEF TypeOK, RunInv, DrainedIsRecorded, Recorded, StartSync, Pending, storeVars
  <2>3. ASSUME NEW d \in Devices, AnswerLost(d) PROVE TypeOK' /\ RunInv' /\ DrainedIsRecorded'
    <3>1. TypeOK'
      BY <1>2, <2>3, BoundsAssumption DEF TypeOK, AnswerLost, storeVars
    <3> QED
      BY <1>2, <2>3, <3>1
      DEF TypeOK, RunInv, DrainedIsRecorded, Recorded, AnswerLost, storeVars
  <2>4. ASSUME NEW d \in Devices, Retain(d) PROVE TypeOK' /\ RunInv' /\ DrainedIsRecorded'
    <3>1. TypeOK'
      BY <1>2, <2>4, BoundsAssumption DEF TypeOK, Retain, EndOp, storeVars, Copies
    <3> QED
      BY <1>2, <2>4, <3>1
      DEF TypeOK, RunInv, DrainedIsRecorded, Recorded, Retain, EndOp, storeVars
  <2>5. ASSUME NEW d \in Devices, FailOp(d) PROVE TypeOK' /\ RunInv' /\ DrainedIsRecorded'
    <3>1. /\ current[d] \in Ops /\ queue' = [queue EXCEPT ![current[d]] = "FAILED"]
          /\ UNCHANGED <<cached, losses, todo>>
      BY <1>2, <2>5 DEF TypeOK, FailOp, EndOp
    <3>2. TypeOK'
      BY <1>2, <2>5, <3>1, RunIdle DEF TypeOK, FailOp, EndOp
    <3>3. RunInv'
      <4>1. \A op \in Ops : queue'[op] = "PENDING" => queue[op] = "PENDING"
        BY <1>2, <3>1 DEF TypeOK
      <4>2. \A x \in Devices :
              phase'[x] # "idle" => phase'[x] = phase[x] /\ current'[x] = current[x]
        BY <1>2, <2>5, RunIdle DEF FailOp, EndOp
      <4> QED
        BY <1>2, <3>1, <4>1, <4>2 DEF RunInv
    <3>4. DrainedIsRecorded'
      BY <1>2, <3>1 DEF TypeOK, DrainedIsRecorded, Recorded
    <3> QED
      BY <3>2, <3>3, <3>4
  <2>6. ASSUME NEW d \in Devices, MarkProcessed(d)
        PROVE  TypeOK' /\ RunInv' /\ DrainedIsRecorded'
    <3>1. current[d] \in Ops /\ TicketOf[current[d]] \in Tickets
      BY <1>2, <2>6, OpsAssumption DEF TypeOK, MarkProcessed
    <3>2. TypeOK'
      BY <1>2, <2>6, <3>1 DEF TypeOK, MarkProcessed
    <3>3. RunInv'
      BY <1>2, <2>6 DEF TypeOK, RunInv, MarkProcessed
    <3>4. used[TicketOf[current[d]]] # NoOp
      BY <1>2, <2>6 DEF RunInv, MarkProcessed
    <3>5. DrainedIsRecorded'
      BY <1>2, <2>6, <3>4 DEF DrainedIsRecorded, Recorded, MarkProcessed
    <3> QED
      BY <3>2, <3>3, <3>5
  <2>7. ASSUME NEW d \in Devices, RemoveOperation(d)
        PROVE  TypeOK' /\ RunInv' /\ DrainedIsRecorded'
    <3>1. /\ current[d] \in Ops /\ queue' = [queue EXCEPT ![current[d]] = "drained"]
          /\ UNCHANGED <<cached, losses, todo>>
      BY <1>2, <2>7 DEF TypeOK, RemoveOperation, EndOp
    <3>2. TypeOK'
      BY <1>2, <2>7, <3>1, RunIdle DEF TypeOK, RemoveOperation, EndOp
    <3>3. Recorded(current[d]) # NoOp
      BY <1>2, <2>7 DEF RunInv, Recorded, RemoveOperation
    <3>4. RunInv'
      <4>1. \A op \in Ops : queue'[op] = "PENDING" => queue[op] = "PENDING"
        BY <1>2, <3>1 DEF TypeOK
      <4>2. \A x \in Devices :
              phase'[x] # "idle" => phase'[x] = phase[x] /\ current'[x] = current[x]
        BY <1>2, <2>7, RunIdle DEF RemoveOperation, EndOp
      <4> QED
        BY <1>2, <3>1, <4>1, <4>2 DEF RunInv
    <3>5. DrainedIsRecorded'
      BY <1>2, <3>1, <3>3 DEF TypeOK, DrainedIsRecorded, Recorded
    <3> QED
      BY <3>2, <3>4, <3>5
  <2>8. ASSUME NEW d \in Devices, Restart(d) PROVE TypeOK' /\ RunInv' /\ DrainedIsRecorded'
    <3>1. /\ UNCHANGED <<queue, cached>> /\ losses' \in 0..MaxLosses
          /\ todo' \in [Devices -> SUBSET Ops] /\ \A x \in Devices : todo'[x] \subseteq todo[x]
      BY <1>2, <2>8, BoundsAssumption DEF TypeOK, Restart, storeVars
    <3>2. TypeOK'
      BY <1>2, <2>8, <3>1, RunIdle DEF TypeOK, Restart
    <3>3. RunInv'
      BY <1>2, <2>8, <3>1, RunIdle DEF TypeOK, RunInv, Restart
    <3>4. DrainedIsRecorded'
      BY <1>2, <3>1 DEF DrainedIsRecorded, Recorded
    <3> QED
      BY <3>2, <3>3, <3>4
  <2> QED
    BY <2>1, <2>2, <2>3, <2>4, <2>5, <2>6, <2>7, <2>8
<1> QED
  BY <1>1, <1>3, ServerAlone, RequestsAlone DEF IInv

\* A request is sent: at once, or by a run.
LEMMA SendStep ==
    ASSUME IInv,
           \/ \E op \in Ops : ConfirmOnline(op)
           \/ \E d \in Devices, op \in Ops, i \in Copies : SendNext(d, op, i)
    PROVE  IInv' /\ RecordsKept
<1>1. PICK op \in Ops, i \in Copies : Send(op, i)
  BY BoundsAssumption DEF ConfirmOnline, SendNext, Copies
<1>2. UNCHANGED <<serverVars, answer>>
  BY DEF ConfirmOnline, SendNext
<1>3. RecordsKept /\ SlotInv' /\ UNCHANGED <<used, pickup, reserved, capacity, stored>>
  BY <1>2, ServerAlone DEF IInv, serverVars
<1>4. Moved(op, i, "arrived", answer[op][i]) /\ answer[op][i] \in Answers
  BY <1>1, <1>2, GotoMoves DEF IInv, Send, TypeOK
<1>5. LockInv' /\ AnswersEarned'
  BY <1>3, <1>4, MoveKeeps DEF IInv
<1>6. TypeOK'
  <2>1. CASE \E o \in Ops : ConfirmOnline(o)
    BY <1>3, <1>4, <2>1 DEF IInv, TypeOK, Moved, ConfirmOnline, runVars
  <2>2. CASE \E d \in Devices, o \in Ops, j \in Copies : SendNext(d, o, j)
    <3>1. PICK d \in Devices, o \in Ops, j \in Copies : SendNext(d, o, j)
      BY <2>2
    <3>2. o # NoOp /\ TypeOK
      BY OpsAssumption DEF IInv
    <3> QED
      BY <1>3, <1>4, <3>1, <3>2 DEF TypeOK, Moved, SendNext, storeVars
  <2> QED
    BY <2>1, <2>2
<1>7. RunInv'
  BY <1>3 DEF IInv, TypeOK, RunInv, ConfirmOnline, SendNext, runVars, storeVars
<1>8. DrainedIsRecorded'
  BY <1>3 DEF IInv, TypeOK, DrainedIsRecorded, Recorded, ConfirmOnline, SendNext, storeVars
<1> QED
  BY <1>3, <1>5, <1>6, <1>7, <1>8 DEF IInv

-----------------------------------------------------------------------------
(***************************************************************************)
(* The server's steps.                                                     *)
(***************************************************************************)

\* The types after a step of the server.
LEMMA ServerTypes ==
    ASSUME TypeOK, NEW op, NEW i, NEW s, NEW a, Moved(op, i, s, a),
           used' \in [Tickets -> Ops \cup {NoOp}], pickup' \in [Tickets -> Ops \cup {NoOp}],
           reserved' \in Nat, stored' \in [Ops -> {"none", "fresh", "duplicate"}],
           UNCHANGED <<capacity, storeVars, runVars, losses>>
    PROVE  TypeOK'
BY DEF TypeOK, Moved, storeVars, runVars

\* A step that records nothing and takes no lock.
LEMMA QuietStep ==
    ASSUME IInv, NEW op \in Ops, NEW i \in Copies, NEW a \in Answers,
           NEW s \in {"none", "arrived", "run", "reply"}, Moved(op, i, s, a),
           s = "reply" => Earned(op, a, Recorded(op)),
           UNCHANGED <<serverVars, storeVars, runVars, losses>>
    PROVE  IInv' /\ RecordsKept
<1>1. RecordsKept /\ SlotInv' /\ UNCHANGED <<used, pickup, reserved, capacity, stored>>
  BY ServerAlone DEF IInv, serverVars
<1>2. s \in {"store", "reply"} => Earned(op, a, Recorded(op)')
  BY <1>1 DEF Recorded
<1>3. LockInv' /\ AnswersEarned'
  BY <1>1, <1>2, MoveKeeps DEF IInv
<1>4. TypeOK'
  <2>1. TypeOK /\ reserved' \in Nat /\ used' \in [Tickets -> Ops \cup {NoOp}]
        /\ pickup' \in [Tickets -> Ops \cup {NoOp}]
        /\ stored' \in [Ops -> {"none", "fresh", "duplicate"}]
    BY <1>1 DEF IInv, TypeOK
  <2> QED
    BY <1>1, <2>1, ServerTypes
<1> QED
  BY <1>1, <1>3, <1>4, ScannerAlone DEF IInv

LEMMA LookupStep ==
    ASSUME IInv, NEW op \in Ops, NEW i \in Copies, Lookup(op, i) PROVE IInv' /\ RecordsKept
<1>1. answer[op][i] \in Answers /\ stored[op] \in {"none", "fresh", "duplicate"} /\ TypeOK
  BY DEF IInv, TypeOK
<1>2. CASE stored[op] = "none"
  BY <1>1, <1>2, GotoMoves, QuietStep DEF Lookup, Goto
<1>3. CASE stored[op] # "none"
  <2>1. stored[op] \in Answers /\ Earned(op, stored[op], Recorded(op))
    BY <1>1, <1>3 DEF IInv, AnswersEarned, Answers
  <2> QED
    BY <1>1, <1>3, <2>1, AnswerMoves, QuietStep DEF Lookup
<1> QED
  BY <1>2, <1>3

LEMMA RefuseStep ==
    ASSUME IInv, NEW op \in Ops, NEW i \in Copies, Refuse(op, i) \/ HangUp(op, i)
    PROVE  IInv' /\ RecordsKept
<1>1. "refused" \in Answers /\ Earned(op, "refused", Recorded(op)) /\ TypeOK
  BY DEF Answers, Earned, IInv
<1>2. CASE Refuse(op, i)
  BY <1>1, <1>2, AnswerMoves, QuietStep DEF Refuse
<1>3. CASE HangUp(op, i)
  BY <1>1, <1>3, AnswerMoves, QuietStep DEF HangUp
<1> QED
  BY <1>2, <1>3

LEMMA LockPickupStep ==
    ASSUME IInv, NEW op \in Ops, NEW i \in Copies, LockPickup(op, i)
    PROVE  IInv' /\ RecordsKept
<1>1. TypeOK /\ TicketOf[op] \in Tickets /\ Kind[op] = "DESK"
  BY OpsAssumption DEF IInv, LockPickup
<1>2. CASE pickup[TicketOf[op]] # NoOp
  <2>1. "already" \in Answers /\ Earned(op, "already", Recorded(op))
    BY <1>1, <1>2 DEF Answers, Earned, Recorded
  <2> QED
    BY <1>1, <1>2, <2>1, AnswerMoves, QuietStep DEF LockPickup
<1>3. CASE pickup[TicketOf[op]] = NoOp
  <2>1. Moved(op, i, "locked", answer[op][i])
    BY <1>1, <1>3, GotoMoves DEF LockPickup, Goto
  <2>2. /\ RecordsKept /\ SlotInv' /\ UNCHANGED <<used, pickup, reserved, capacity, stored>>
        /\ UNCHANGED <<storeVars, runVars, losses>>
    BY ServerAlone DEF IInv, serverVars, LockPickup
  <2>3. TypeOK'
    <3>1. reserved' \in Nat /\ used' \in [Tickets -> Ops \cup {NoOp}]
          /\ pickup' \in [Tickets -> Ops \cup {NoOp}]
          /\ stored' \in [Ops -> {"none", "fresh", "duplicate"}]
      BY <1>1, <2>2 DEF TypeOK
    <3> QED
      BY <1>1, <2>1, <2>2, <3>1, ServerTypes
  <2>4. LockInv'
    <3>1. \A o \in Ops, j \in Copies :
            TicketOf[o] = TicketOf[op] => at[o][j] # "locked"
      BY DEF LockPickup, TicketFree
    <3>2. \A o \in Ops, j \in Copies :
            at'[o][j] = "locked" => (o = op /\ j = i) \/ at[o][j] = "locked"
      BY <2>1 DEF Moved
    <3>3. \A o \in Ops, j \in Copies :
            at'[o][j] = "locked" => Kind[o] = "DESK" /\ pickup'[TicketOf[o]] = NoOp
      BY <1>1, <1>3, <2>2, <3>2 DEF IInv, LockInv
    <3>4. \A o, x \in Ops, j, y \in Copies :
            at'[o][j] = "locked" /\ at'[x][y] = "locked" /\ TicketOf[o] = TicketOf[x] =>
                o = x /\ j = y
      BY <3>1, <3>2 DEF IInv, LockInv
    <3> QED
      BY <3>3, <3>4 DEF LockInv
  <2>5. AnswersEarned'
    BY <2>1, <2>2 DEF IInv, AnswersEarned, Moved, Recorded
  <2> QED
    BY <2>2, <2>3, <2>4, <2>5, ScannerAlone DEF IInv
<1> QED
  BY <1>2, <1>3

LEMMA StoreStep ==
    ASSUME IInv, NEW op \in Ops, NEW i \in Copies, Store(op, i) PROVE IInv' /\ RecordsKept
<1> DEFINE a == answer[op][i]
<1>1. /\ TypeOK /\ a \in Answers /\ a \in {"fresh", "duplicate"}
      /\ Earned(op, a, Recorded(op))
  BY DEF IInv, TypeOK, AnswersEarned, Store
<1>2. Moved(op, i, "reply", a)
  BY <1>1, AnswerMoves DEF Store, StoreIdempotency
<1>3. /\ UNCHANGED <<used, pickup, reserved, capacity, storeVars, runVars, losses>>
      /\ stored' \in [Ops -> {"none", "fresh", "duplicate"}]
      /\ \A o \in Ops : stored'[o] = stored[o] \/ (o = op /\ stored'[o] = a)
  BY <1>1 DEF TypeOK, Store, StoreIdempotency, ticketVars, slotVars
<1>4. RecordsKept /\ SlotInv' /\ \A o \in Ops : Recorded(o)' = Recorded(o)
  BY <1>3 DEF IInv, SlotInv, SlotCovers, PickedUp, RecordsKept, Recorded
<1>5. LockInv'
  <2>1. \A o \in Ops, j \in Copies : at'[o][j] = "locked" => at[o][j] = "locked"
    BY <1>2 DEF Moved
  <2> QED
    BY <1>3, <2>1 DEF IInv, LockInv
<1>6. AnswersEarned'
  <2>1. ASSUME NEW o \in Ops, stored'[o] # "none"
        PROVE  Earned(o, stored'[o], Recorded(o)')
    BY <1>1, <1>3, <1>4, <2>1 DEF IInv, AnswersEarned
  <2>2. ASSUME NEW o \in Ops, NEW j \in Copies, at'[o][j] \in {"store", "reply"}
        PROVE  /\ Earned(o, answer'[o][j], Recorded(o)')
               /\ at'[o][j] = "store" => answer'[o][j] \in {"fresh", "duplicate"}
    <3>1. CASE o = op /\ j = i
      BY <1>1, <1>2, <1>4, <3>1 DEF Moved
    <3>2. CASE ~(o = op /\ j = i)
      BY <1>2, <1>4, <2>2, <3>2 DEF IInv, AnswersEarned, Moved
    <3> QED
      BY <3>1, <3>2
  <2> QED
    BY <2>1, <2>2 DEF AnswersEarned
<1>7. TypeOK'
  <2>1. reserved' \in Nat /\ used' \in [Tickets -> Ops \cup {NoOp}]
        /\ pickup' \in [Tickets -> Ops \cup {NoOp}]
    BY <1>1, <1>3 DEF TypeOK
  <2> QED
    BY <1>1, <1>2, <1>3, <2>1, ServerTypes
<1> QED
  BY <1>3, <1>4, <1>5, <1>6, <1>7, ScannerAlone DEF IInv

LEMMA CheckInStep ==
    ASSUME IInv, NEW op \in Ops, NEW i \in Copies, CheckIn(op, i) PROVE IInv' /\ RecordsKept
<1> DEFINE t == TicketOf[op]
           a == IF used[t] = NoOp THEN "fresh" ELSE "duplicate"
<1>1. TypeOK /\ t \in Tickets /\ Kind[op] = "CHECKIN" /\ a \in Answers
  BY OpsAssumption DEF IInv, CheckIn, Answers
<1>2. Moved(op, i, "store", a)
  BY <1>1, AnswerMoves DEF CheckIn
<1>3. /\ UNCHANGED <<pickup, reserved, capacity, stored, storeVars, runVars, losses>>
      /\ used' \in [Tickets -> Ops \cup {NoOp}]
      /\ used'[t] = IF used[t] = NoOp THEN op ELSE used[t]
      /\ \A x \in Tickets \ {t} : used'[x] = used[x]
  BY <1>1 DEF TypeOK, CheckIn, MarkTicketUsed, slotVars
<1>4. RecordsKept
  BY <1>3 DEF RecordsKept
<1>5. Earned(op, a, Recorded(op)')
  BY <1>1, <1>3, OpsAssumption DEF Earned, Recorded
<1>6. LockInv' /\ AnswersEarned'
  BY <1>1, <1>2, <1>3, <1>4, <1>5, MoveKeeps DEF IInv
<1>7. SlotInv'
  BY <1>3 DEF IInv, SlotInv, SlotCovers, PickedUp
<1>8. TypeOK'
  <2>1. reserved' \in Nat /\ pickup' \in [Tickets -> Ops \cup {NoOp}]
        /\ stored' \in [Ops -> {"none", "fresh", "duplicate"}]
    BY <1>1, <1>3 DEF TypeOK
  <2> QED
    BY <1>1, <1>2, <1>3, <2>1, ServerTypes
<1> QED
  BY <1>3, <1>4, <1>6, <1>7, <1>8, ScannerAlone DEF IInv

\* A place is taken by a ticket without a pack, or by a participant in advance.
LEMMA SlotTaken ==
    ASSUME IInv, IncrementSlotReserved, UNCHANGED capacity,
           UNCHANGED pickup \/ \E t \in Tickets : PickedUp' = PickedUp \cup {t}
    PROVE  SlotInv'
<1>1. /\ IsFiniteSet(PickedUp) /\ Cardinality(PickedUp) <= reserved
      /\ reserved \in Nat /\ capacity \in Capacities /\ capacity \in Nat
      /\ reserved' = reserved + 1 /\ reserved < capacity
  BY CapacitiesAssumption
  DEF IInv, TypeOK, SlotInv, SlotCovers, PickedUp, IncrementSlotReserved, HasRoom
<1>2. Cardinality(PickedUp) \in Nat
  BY <1>1, FS_CardinalityType
<1>3. IsFiniteSet(PickedUp') /\ Cardinality(PickedUp') <= Cardinality(PickedUp) + 1
  <2>1. CASE UNCHANGED pickup
    <3>1. PickedUp' = PickedUp
      BY <2>1 DEF PickedUp
    <3> QED
      BY <1>1, <1>2, <3>1
  <2>2. ASSUME NEW t \in Tickets, PickedUp' = PickedUp \cup {t}
        PROVE  IsFiniteSet(PickedUp') /\ Cardinality(PickedUp') <= Cardinality(PickedUp) + 1
    <3>1. /\ IsFiniteSet(PickedUp \cup {t})
          /\ Cardinality(PickedUp \cup {t}) =
                IF t \in PickedUp THEN Cardinality(PickedUp) ELSE Cardinality(PickedUp) + 1
      BY <1>1, FS_AddElement
    <3> QED
      BY <1>2, <2>2, <3>1
  <2> QED
    BY <2>1, <2>2
<1>4. Cardinality(PickedUp') \in Nat
  BY <1>3, FS_CardinalityType
<1>5. Cardinality(PickedUp') <= reserved'
  BY <1>1, <1>2, <1>3, <1>4
<1>6. \E c \in Capacities : reserved' <= c
  BY <1>1
<1> QED
  BY <1>3, <1>5, <1>6 DEF SlotInv, SlotCovers, PickedUp

LEMMA CommitPickupStep ==
    ASSUME IInv, NEW op \in Ops, NEW i \in Copies, CommitPickup(op, i)
    PROVE  IInv' /\ RecordsKept
<1> DEFINE t == TicketOf[op]
<1>1. /\ TypeOK /\ t \in Tickets /\ Kind[op] = "DESK" /\ pickup[t] = NoOp /\ op # NoOp
      /\ at[op][i] = "locked"
  BY OpsAssumption DEF IInv, LockInv, CommitPickup
<1>2. CASE ~HasRoom /\ Answer(op, i, "refused", "reply") /\ UNCHANGED <<reserved, pickup>>
  <2>1. "refused" \in Answers /\ Earned(op, "refused", Recorded(op))
    BY DEF Answers, Earned
  <2>2. UNCHANGED <<serverVars, storeVars, runVars, losses>>
    BY <1>2 DEF CommitPickup, serverVars
  <2> QED
    BY <1>1, <1>2, <2>1, <2>2, AnswerMoves, QuietStep
<1>3. CASE /\ IncrementSlotReserved
           /\ pickup' = [pickup EXCEPT ![t] = op]
           /\ Answer(op, i, "fresh", "store")
  <2>1. UNCHANGED <<used, capacity, stored, storeVars, runVars, losses>>
    BY DEF CommitPickup
  <2>2. "fresh" \in Answers /\ Moved(op, i, "store", "fresh")
    BY <1>1, <1>3, AnswerMoves DEF Answers
  <2>3. /\ pickup' \in [Tickets -> Ops \cup {NoOp}] /\ pickup'[t] = op
        /\ \A x \in Tickets \ {t} : pickup'[x] = pickup[x]
    BY <1>1, <1>3 DEF TypeOK
  <2>4. RecordsKept
    BY <1>1, <2>1, <2>3 DEF RecordsKept
  <2>5. Earned(op, "fresh", Recorded(op)')
    BY <1>1, <2>3 DEF Earned, Recorded
  <2>6. LockInv'
    <3>1. ASSUME NEW o \in Ops, NEW j \in Copies, at'[o][j] = "locked"
          PROVE  at[o][j] = "locked" /\ TicketOf[o] \in Tickets \ {t}
      BY <1>1, <2>2, <3>1, OpsAssumption DEF IInv, LockInv, Moved
    <3> QED
      BY <2>3, <3>1 DEF IInv, LockInv
  <2>7. AnswersEarned'
    <3>1. ASSUME NEW o \in Ops, stored'[o] # "none"
          PROVE  Earned(o, stored'[o], Recorded(o)')
      BY <2>1, <2>4, <3>1, EarnedStays DEF IInv, AnswersEarned
    <3>2. ASSUME NEW o \in Ops, NEW j \in Copies, at'[o][j] \in {"store", "reply"}
          PROVE  Earned(o, answer'[o][j], Recorded(o)')
      <4>1. CASE o = op /\ j = i
        BY <2>2, <2>5, <4>1 DEF Moved
      <4>2. CASE ~(o = op /\ j = i)
        BY <2>2, <2>4, <3>2, <4>2, EarnedStays DEF IInv, AnswersEarned, Moved
      <4> QED
        BY <4>1, <4>2
    <3>3. ASSUME NEW o \in Ops, NEW j \in Copies, at'[o][j] = "store"
          PROVE  answer'[o][j] \in {"fresh", "duplicate"}
      BY <2>2, <3>3 DEF IInv, AnswersEarned, Moved
    <3> QED
      BY <3>1, <3>2, <3>3 DEF AnswersEarned
  <2>8. SlotInv'
    <3>1. PickedUp' = PickedUp \cup {t}
      BY <1>1, <2>3 DEF PickedUp
    <3> QED
      BY <1>1, <1>3, <2>1, <3>1, SlotTaken
  <2>9. TypeOK'
    <3>1. reserved' \in Nat /\ used' \in [Tickets -> Ops \cup {NoOp}]
          /\ stored' \in [Ops -> {"none", "fresh", "duplicate"}]
      BY <1>1, <1>3, <2>1 DEF TypeOK, IncrementSlotReserved
    <3> QED
      BY <1>1, <2>1, <2>2, <2>3, <3>1, ServerTypes
  <2> QED
    BY <2>1, <2>4, <2>6, <2>7, <2>8, <2>9, ScannerAlone DEF IInv
<1> QED
  BY <1>2, <1>3 DEF CommitPickup

\* The answer arrives: the run drains an op only on an answer that is not a refusal.
LEMMA ReplyStep ==
    ASSUME IInv, NEW op \in Ops, NEW i \in Copies, Reply(op, i) PROVE IInv' /\ RecordsKept
<1> DEFINE d == DeviceOf[op]
           p == IF answer[op][i] = "refused" THEN "fail" ELSE "drain"
<1>1. /\ TypeOK /\ "refused" \in Answers /\ d \in Devices
      /\ Earned(op, answer[op][i], Recorded(op))
  BY OpsAssumption DEF IInv, AnswersEarned, Reply, Answers
<1>2. Moved(op, i, "none", "refused")
  BY <1>1, AnswerMoves DEF Reply
<1>3. /\ RecordsKept /\ SlotInv' /\ UNCHANGED <<used, pickup, reserved, capacity, stored>>
      /\ UNCHANGED <<queue, cached, todo, current, copy, losses>>
  BY ServerAlone DEF IInv, serverVars, storeVars, Reply
<1>4. LockInv' /\ AnswersEarned'
  BY <1>1, <1>2, <1>3, MoveKeeps DEF IInv
<1>5. \/ phase' = phase
      \/ phase' = [phase EXCEPT ![d] = p] /\ phase[d] = "waiting" /\ current[d] = op
  BY DEF Reply, Awaited, Classify
<1>6. TypeOK'
  <2>1. /\ at' \in [Ops -> [Copies -> {"none", "arrived", "run", "locked", "store", "reply"}]]
        /\ answer' \in [Ops -> [Copies -> Answers]]
    BY <1>2 DEF Moved
  <2>2. /\ phase' \in [Devices -> {"idle", "waiting", "drain", "marked", "fail", "retain"}]
        /\ \A x \in Devices : phase'[x] = "idle" <=> phase[x] = "idle"
    BY <1>1, <1>5 DEF TypeOK
  <2> QED
    BY <1>1, <1>3, <2>1, <2>2 DEF TypeOK
<1>7. RunInv'
  <2>1. p = "drain" /\ Kind[op] # "DESK" => Kind[op] = "CHECKIN" /\ used[TicketOf[op]] # NoOp
    BY <1>1, OpsAssumption DEF Earned, Recorded
  <2> QED
    BY <1>1, <1>3, <1>5, <2>1 DEF IInv, TypeOK, RunInv
<1>8. DrainedIsRecorded'
  BY <1>3 DEF IInv, DrainedIsRecorded, Recorded
<1> QED
  BY <1>3, <1>4, <1>6, <1>7, <1>8 DEF IInv

LEMMA SlotStep ==
    ASSUME IInv, ReserveSlot \/ \E c \in Capacities : UpdateSlot(c)
    PROVE  IInv' /\ RecordsKept
<1>1. /\ UNCHANGED <<used, pickup, stored, at, answer, storeVars, runVars, losses>>
      /\ reserved' \in Nat /\ capacity' \in Capacities
  BY DEF ReserveSlot, UpdateSlot, IncrementSlotReserved, ticketVars, requestVars, IInv, TypeOK
<1>2. SlotInv'
  <2>1. CASE ReserveSlot
    BY <2>1, SlotTaken DEF ReserveSlot, ticketVars
  <2>2. CASE \E c \in Capacities : UpdateSlot(c)
    BY <2>2 DEF UpdateSlot, ticketVars, IInv, SlotInv, SlotCovers, PickedUp
  <2> QED
    BY <2>1, <2>2
<1>3. RecordsKept
  BY <1>1 DEF RecordsKept
<1>4. LockInv' /\ AnswersEarned'
  BY <1>1 DEF IInv, LockInv, AnswersEarned, Recorded
<1>5. TypeOK'
  BY <1>1 DEF IInv, TypeOK, storeVars, runVars
<1> QED
  BY <1>1, <1>2, <1>3, <1>4, <1>5, ScannerAlone DEF IInv

-----------------------------------------------------------------------------
LEMMA NextStep == ASSUME IInv, [Next]_vars PROVE IInv' /\ RecordsKept
<1>1. CASE UNCHANGED vars
  <2>1. UNCHANGED <<serverVars, requestVars, storeVars, runVars, losses>>
    BY <1>1 DEF vars, serverVars, requestVars, storeVars, runVars
  <2>2. RecordsKept /\ SlotInv' /\ LockInv' /\ AnswersEarned'
    BY <2>1, ServerAlone, RequestsAlone DEF IInv
  <2>3. TypeOK'
    BY <1>1 DEF IInv, TypeOK, vars
  <2> QED
    BY <2>1, <2>2, <2>3, ScannerAlone DEF IInv
<1>2. ASSUME NEW op \in Ops, NEW i \in Copies, Step(op, i) \/ HangUp(op, i)
      PROVE  IInv' /\ RecordsKept
  BY <1>2, LookupStep, CheckInStep, RefuseStep, LockPickupStep, CommitPickupStep, StoreStep,
     ReplyStep DEF Step
<1>3. ASSUME NEW d \in Devices, StartSync(d) \/ RunStep(d) \/ AnswerLost(d) \/ Restart(d)
      PROVE  IInv' /\ RecordsKept
  BY <1>3, QueueStep, SendStep DEF RunStep
<1> QED
  BY <1>1, <1>2, <1>3, QueueStep, SendStep, SlotStep DEF Next

\* The invariant of the other theorems.
THEOREM InductiveInvariant == Spec => []IInv
BY InitIInv, NextStep, PTL DEF Spec

\* TypeOK: the types of the server's rows, of the requests and of the scanners' stores.
THEOREM TypeCorrect == Spec => []TypeOK
BY InductiveInvariant, PTL DEF IInv

\* DrainedIsRecorded: processOperation drops a scan, or caches its ticket as used, only
\* when CheckIn has recorded the ticket.
THEOREM DrainsAreRecorded == Spec => []DrainedIsRecorded
BY InductiveInvariant, PTL DEF IInv

\* FirstIsOwner: CheckIn, ExecutePickup and the idempotency table tell only one scan of
\* a ticket that it was the first.
THEOREM FirstsOwn == Spec => []FirstIsOwner
<1>1. IInv => FirstIsOwner
  BY DEF IInv, AnswersEarned, Earned, FirstIsOwner
<1> QED
  BY <1>1, InductiveInvariant, PTL

\* SlotCovers: every pickup that ExecutePickup records has a place in the slot, and the
\* places never exceed the largest capacity.
THEOREM SlotsCover == Spec => []SlotCovers
BY InductiveInvariant, PTL DEF IInv, SlotInv

\* FirstScanKept: MarkTicketUsed and ExecutePickup never replace a record.
THEOREM FirstScansStay == Spec => FirstScanKept
<1>1. IInv /\ [Next]_vars => [RecordsKept]_vars
  BY NextStep
<1> QED
  BY <1>1, InductiveInvariant, PTL DEF Spec, FirstScanKept, RecordsKept
=============================================================================
