--------------------------- MODULE Webhook_proofs ---------------------------
(***************************************************************************)
(* Theorems about the processing of a payment's callbacks, for any number  *)
(* of deliveries and of reconcile requests, and any callbacks.             *)
(*                                                                         *)
(* The argument: a delivery claims a key only while its own row is stored  *)
(* and its callback known, both of which stay; and the payment's status is *)
(* only ever written by a transaction that has found it PENDING.           *)
(***************************************************************************)
EXTENDS Webhook, TLAPS

Known == Working \cup {"marking"}

\* What a delivery's row is while the delivery is processed.
RowsInv ==
    \A d \in Deliveries :
        /\ pc[d] = "idle" => row[d] = "NONE"
        /\ pc[d] \in Known => row[d] = "RECEIVED" /\ callback[d] \in Callbacks

\* Who has a key: a delivery with a row and this result, past its claim.
ClaimsInv ==
    \A s \in Result : claimed[s] # Nobody =>
        /\ pc[claimed[s]] \notin {"idle", "stored"}
        /\ row[claimed[s]] # "NONE"
        /\ callback[claimed[s]].status = s

\* Who is called a duplicate, or is about to be: the key is another delivery's.
DuplicatesInv ==
    \A d \in Deliveries :
        pc[d] = "duplicate" \/ row[d] = "DUPLICATE" =>
            /\ pc[d] # "idle" /\ callback[d] \in Callbacks
            /\ claimed[callback[d].status] \notin {Nobody, d}

IInv == TypeOK /\ RowsInv /\ ClaimsInv /\ DuplicatesInv /\ SaleFollowsPayment

-----------------------------------------------------------------------------
LEMMA CallbackHasResult == ASSUME NEW c \in Callbacks PROVE c.status \in Result
BY CallbacksAssumption DEF Callback

LEMMA InitIInv == Init => IInv
BY DEF Init, IInv, TypeOK, RowsInv, ClaimsInv, DuplicatesInv, SaleFollowsPayment, Result,
       Known, Working

\* Steps that leave the payment and its order alone.
LEMMA SaleAlone ==
    ASSUME SaleFollowsPayment, UNCHANGED <<payStatus, orderStatus>>
    PROVE  SaleFollowsPayment'
BY DEF SaleFollowsPayment

-----------------------------------------------------------------------------
(***************************************************************************)
(* The steps of a delivery.                                                *)
(***************************************************************************)

LEMMA StoreStep ==
    ASSUME IInv, NEW d \in Deliveries, NEW c \in Callbacks, Store(d, c) PROVE IInv'
<1>1. TypeOK'
  BY DEF IInv, TypeOK, Store, Finish, Working
<1>2. RowsInv'
  BY DEF IInv, TypeOK, RowsInv, Store, Finish, Known, Working
<1>3. \A s \in Result : claimed[s] # Nobody => claimed[s] # d /\ claimed[s] \in Deliveries
  BY DEF IInv, TypeOK, ClaimsInv, Store
<1>4. ClaimsInv'
  BY <1>3 DEF IInv, TypeOK, ClaimsInv, Store, Finish
<1>5. row'[d] # "DUPLICATE" /\ pc'[d] # "duplicate"
  BY DEF IInv, TypeOK, RowsInv, Store, Finish
<1>6. DuplicatesInv'
  BY <1>5 DEF IInv, TypeOK, DuplicatesInv, Store, Finish
<1> QED
  BY <1>1, <1>2, <1>4, <1>6, SaleAlone DEF IInv, Store

\* A delivery is answered: its row gets a final status.
LEMMA FinishStep ==
    ASSUME IInv, NEW d \in Deliveries, NEW status, NEW code,
           pc[d] \in Known, Finish(d, status, code),
           status \in {"PROCESSED", "REJECTED", "DUPLICATE", "FAILED"},
           status = "DUPLICATE" => pc[d] = "duplicate",
           pc[d] = "stored" => status # "DUPLICATE",
           code \in {"OK", "UNAUTHORIZED"},
           UNCHANGED <<callback, claimed, rowLock, payStatus, orderStatus, reconcile>>
    PROVE  IInv'
<1>1. TypeOK'
  BY DEF IInv, TypeOK, Finish
<1>2. RowsInv'
  BY DEF IInv, TypeOK, RowsInv, Finish, Known, Working
<1>3. ClaimsInv'
  BY DEF IInv, TypeOK, ClaimsInv, Finish
<1>4. DuplicatesInv'
  BY DEF IInv, TypeOK, DuplicatesInv, Finish
<1> QED
  BY <1>1, <1>2, <1>3, <1>4, SaleAlone DEF IInv

LEMMA ClaimStep == ASSUME IInv, NEW d \in Deliveries, Claim(d) PROVE IInv'
<1> DEFINE s == callback[d].status
<1>1. s \in Result /\ callback[d] \in Callbacks /\ row[d] = "RECEIVED" /\ d # Nobody
  BY CallbackHasResult, NobodyAssumption DEF IInv, RowsInv, Claim, Known, Working
<1>2. CASE claimed[s] = Nobody
  <2>1. /\ claimed' = [claimed EXCEPT ![s] = d]
        /\ pc' = [pc EXCEPT ![d] = "claimed"]
        /\ UNCHANGED <<callback, row, reply, rowLock, payStatus, orderStatus, reconcile>>
    BY <1>2 DEF Claim
  <2>2. TypeOK'
    BY <1>1, <2>1 DEF IInv, TypeOK, Working
  <2>3. RowsInv'
    BY <1>1, <2>1 DEF IInv, TypeOK, RowsInv, Known, Working
  <2>4. ClaimsInv'
    BY <1>1, <2>1 DEF IInv, TypeOK, ClaimsInv
  <2>5. DuplicatesInv'
    <3>1. ASSUME NEW x \in Deliveries, pc'[x] = "duplicate" \/ row'[x] = "DUPLICATE"
          PROVE  /\ pc'[x] # "idle" /\ callback'[x] \in Callbacks
                 /\ claimed'[callback'[x].status] \notin {Nobody, x}
      <4>1. x # d /\ pc[x] = pc'[x]
        BY <1>1, <2>1, <3>1 DEF IInv, TypeOK
      <4>2. /\ pc[x] # "idle" /\ callback[x] \in Callbacks
            /\ claimed[callback[x].status] \notin {Nobody, x}
        BY <2>1, <3>1, <4>1 DEF IInv, DuplicatesInv
      <4>3. callback[x].status # s
        BY <1>2, <4>2
      <4> QED
        BY <2>1, <4>1, <4>2, <4>3, CallbackHasResult DEF IInv, TypeOK
    <3> QED
      BY <3>1 DEF DuplicatesInv
  <2> QED
    BY <2>1, <2>2, <2>3, <2>4, <2>5, SaleAlone DEF IInv
<1>3. CASE claimed[s] # Nobody
  <2>1. /\ pc' = [pc EXCEPT ![d] = "duplicate"] /\ pc[d] = "stored"
        /\ UNCHANGED <<callback, row, reply, claimed, rowLock, payStatus, orderStatus,
                       reconcile>>
    BY <1>3 DEF Claim
  <2>2. TypeOK'
    BY <2>1 DEF IInv, TypeOK, Working
  <2>3. RowsInv'
    BY <1>1, <2>1 DEF IInv, TypeOK, RowsInv, Known, Working
  <2>4. claimed[s] # d
    BY <1>1, <1>3, <2>1 DEF IInv, ClaimsInv
  <2>5. ClaimsInv'
    BY <2>1 DEF IInv, TypeOK, ClaimsInv
  <2>6. DuplicatesInv'
    BY <1>1, <1>3, <2>1, <2>4 DEF IInv, TypeOK, DuplicatesInv
  <2> QED
    BY <2>1, <2>2, <2>3, <2>5, <2>6, SaleAlone DEF IInv
<1> QED
  BY <1>2, <1>3

LEMMA ApplySettlementStep ==
    ASSUME IInv, NEW d \in Deliveries, ApplySettlement(d) PROVE IInv'
<1>1. TypeOK'
  BY DEF IInv, TypeOK, ApplySettlement
<1>2. RowsInv'
  BY DEF IInv, TypeOK, RowsInv, ApplySettlement, Known, Working
<1>3. ClaimsInv'
  BY DEF IInv, TypeOK, ClaimsInv, ApplySettlement
<1>4. DuplicatesInv'
  BY DEF IInv, TypeOK, DuplicatesInv, ApplySettlement
<1> QED
  BY <1>1, <1>2, <1>3, <1>4, SaleAlone DEF IInv, ApplySettlement

LEMMA ProcessStep == ASSUME IInv, NEW d \in Deliveries, Process(d) PROVE IInv'
<1>1. CASE Refuse(d)
  <2>1. pc[d] = "stored" /\ pc[d] \in Known
    BY <1>1 DEF Refuse, Known, Working
  <2> QED
    BY <1>1, <2>1, FinishStep DEF Refuse
<1>2. CASE MarkDuplicate(d)
  <2>1. pc[d] = "duplicate" /\ pc[d] \in Known
    BY <1>2 DEF MarkDuplicate, Known, Working
  <2> QED
    BY <1>2, <2>1, FinishStep DEF MarkDuplicate
<1>3. CASE ApplyNothing(d)
  <2>1. pc[d] = "claimed" /\ pc[d] \in Known
    BY <1>3 DEF ApplyNothing, Known, Working
  <2> QED
    BY <1>3, <2>1, FinishStep DEF ApplyNothing
<1> QED
  BY <1>1, <1>2, <1>3, ClaimStep, ApplySettlementStep DEF Process

\* The request ends, whatever has become of its transaction.
LEMMA EndStep == ASSUME IInv, NEW d \in Deliveries, HangUp(d) \/ Abort(d) PROVE IInv'
<1>1. /\ pc[d] \in Known
      /\ pc' = [pc EXCEPT ![d] = "done"]
      /\ \E status \in {row[d], "PROCESSED"} : row' = [row EXCEPT ![d] = status]
      /\ rowLock' \in {rowLock, Nobody}
      /\ UNCHANGED <<callback, reply, claimed, payStatus, orderStatus, reconcile>>
  <2>1. CASE HangUp(d)
    BY <2>1 DEF HangUp, Known
  <2>2. CASE Abort(d)
    BY <2>2 DEF Abort, Known, IInv, TypeOK
  <2> QED
    BY <2>1, <2>2
<1>2. TypeOK'
  BY <1>1 DEF IInv, TypeOK
<1>3. RowsInv'
  BY <1>1 DEF IInv, TypeOK, RowsInv, Known, Working
<1>4. ClaimsInv'
  BY <1>1 DEF IInv, TypeOK, ClaimsInv
<1>5. DuplicatesInv'
  BY <1>1 DEF IInv, TypeOK, DuplicatesInv
<1> QED
  BY <1>1, <1>2, <1>3, <1>4, <1>5, SaleAlone DEF IInv

-----------------------------------------------------------------------------
(***************************************************************************)
(* The other steps, none of which touches a delivery or a key.             *)
(***************************************************************************)

LEMMA DeliveriesAlone ==
    ASSUME RowsInv, ClaimsInv, DuplicatesInv, UNCHANGED <<deliveryVars, claimed>>
    PROVE  RowsInv' /\ ClaimsInv' /\ DuplicatesInv'
BY DEF RowsInv, ClaimsInv, DuplicatesInv, deliveryVars

LEMMA PaymentStep ==
    ASSUME IInv,
           \/ InsertPayment
           \/ ExpireOrder
           \/ \E r \in Reconciles :
                ReconcileApply(r) \/ \E result \in Result : ReconcileQuery(r, result)
    PROVE  IInv' /\ (payStatus \in Settlement => payStatus' = payStatus)
<1>1. /\ UNCHANGED <<deliveryVars, claimed, rowLock>>
      /\ payStatus \in Settlement => payStatus' = payStatus
  BY DEF InsertPayment, ExpireOrder, ReconcileApply, ReconcileQuery, Settle, Settlement
<1>2. TypeOK'
  BY DEF IInv, TypeOK, InsertPayment, ExpireOrder, ReconcileApply, ReconcileQuery,
         Settle, Settlement, Result, deliveryVars
<1>3. SaleFollowsPayment'
  BY DEF IInv, SaleFollowsPayment, InsertPayment, ExpireOrder, ReconcileApply,
         ReconcileQuery, Settle, Settlement
<1> QED
  BY <1>1, <1>2, <1>3, DeliveriesAlone DEF IInv

LEMMA NextStep ==
    ASSUME IInv, [Next]_vars
    PROVE  IInv' /\ (payStatus \in Settlement => payStatus' = payStatus)
<1>1. CASE UNCHANGED vars
  BY <1>1, DeliveriesAlone, SaleAlone DEF IInv, TypeOK, vars, deliveryVars
<1>2. ASSUME NEW d \in Deliveries,
             (\E c \in Callbacks : Store(d, c)) \/ Process(d) \/ HangUp(d) \/ Abort(d)
      PROVE  IInv' /\ payStatus' = payStatus
  <2>1. payStatus' = payStatus
    BY <1>2 DEF Store, Process, Refuse, Claim, MarkDuplicate, ApplyNothing,
                ApplySettlement, HangUp, Abort
  <2> QED
    BY <1>2, <2>1, StoreStep, ProcessStep, EndStep
<1> QED
  BY <1>1, <1>2, PaymentStep DEF Next

-----------------------------------------------------------------------------
\* The invariant of the other theorems.
THEOREM InductiveInvariant == Spec => []IInv
BY InitIInv, NextStep, PTL DEF Spec

\* TypeOK: the types of the processor's rows and of the payment's.
THEOREM TypeCorrect == Spec => []TypeOK
BY InductiveInvariant, PTL DEF IInv

\* SaleFollowsPayment: applyPaid and Reconcile never leave a PAID order without a PAID
\* payment.
THEOREM SalesArePaid == Spec => []SaleFollowsPayment
BY InductiveInvariant, PTL DEF IInv

\* DuplicateHasOriginal: ProcessRaw marks a callback DUPLICATE only behind another one
\* with a row and the same result.
THEOREM DuplicatesHaveOriginals == Spec => []DuplicateHasOriginal
<1>1. IInv => DuplicateHasOriginal
  <2> SUFFICES ASSUME IInv, NEW d \in Deliveries, row[d] = "DUPLICATE"
               PROVE  \E e \in Deliveries \ {d} :
                        /\ claimed[callback[d].status] = e
                        /\ row[e] # "NONE" /\ callback[e].status = callback[d].status
    BY DEF DuplicateHasOriginal
  <2>1. /\ callback[d].status \in Result
        /\ claimed[callback[d].status] \notin {Nobody, d}
    BY CallbackHasResult DEF IInv, DuplicatesInv
  <2> QED
    BY <2>1 DEF IInv, TypeOK, ClaimsInv
<1> QED
  BY <1>1, InductiveInvariant, PTL

\* FinalPaymentKept: Apply and Reconcile write only a payment that is PENDING.
THEOREM FinalPaymentStays == Spec => FinalPaymentKept
<1>1. IInv /\ [Next]_vars => [(payStatus \in Settlement) => payStatus' = payStatus]_vars
  BY NextStep
<1> QED
  BY <1>1, InductiveInvariant, PTL DEF Spec, FinalPaymentKept
=============================================================================
