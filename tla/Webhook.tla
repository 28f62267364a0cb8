------------------------------ MODULE Webhook -------------------------------
(***************************************************************************)
(* The callbacks a payment gateway sends about ONE payment, the reconcile  *)
(* requests of an organizer for it, and the expiry of its order.           *)
(*                                                                         *)
(* ProcessRaw works on two database connections.  The transaction that     *)
(* settles the payment holds SELECT ... FOR UPDATE on the payment's row    *)
(* while MarkWebhookProcessed runs on the pool, on a connection of its     *)
(* own.  When that statement sets processed_payment_id, its foreign key    *)
(* must lock the same payment row, so it waits for the transaction, which  *)
(* waits for it: nothing in the database sees the cycle, and it lasts      *)
(* until the request's context is cancelled.                               *)
(***************************************************************************)
EXTENDS Naturals

CONSTANTS
    Deliveries,     \* HTTP requests of the gateway, retries included
    Reconciles,     \* calls of Reconcile
    Callbacks,      \* the callbacks the gateway may deliver
    NoCallback, Nobody

Settlement == {"PAID", "EXPIRED", "FAILED"}
Result == Settlement \cup {"PENDING"}

\* What the processor can tell about a callback: the body is a JSON document,
\* the signature verifies, the fields parse, the amount is the payment's.
Callback == [json : BOOLEAN, signed : BOOLEAN, parses : BOOLEAN,
             amountOk : BOOLEAN, status : Result]

ASSUME CallbacksAssumption == Callbacks \subseteq Callback /\ NoCallback \notin Callbacks
ASSUME NobodyAssumption == Nobody \notin Deliveries

VARIABLES
    pc,             \* where the processing of each delivery is
    callback,       \* what it delivered
    row,            \* processing_status of its payment_webhooks row
    reply,          \* the HTTP status sent back
    claimed,        \* dedupe_key index: the delivery whose row has the key of a result
    rowLock,        \* the delivery whose transaction has the payment's row locked
    payStatus,      \* payments.status, "NONE" before CreatePayment inserts it
    orderStatus,    \* orders.status
    reconcile       \* the result each Reconcile got from the gateway

deliveryVars == <<pc, callback, row, reply>>
vars == <<pc, callback, row, reply, claimed, rowLock, payStatus, orderStatus, reconcile>>

Working == {"stored", "claimed", "duplicate"}

\* The type of every variable.
TypeOK ==
    /\ pc \in [Deliveries -> {"idle", "marking", "done"} \cup Working]
    /\ callback \in [Deliveries -> Callbacks \cup {NoCallback}]
    /\ row \in [Deliveries ->
            {"NONE", "RECEIVED", "PROCESSED", "REJECTED", "DUPLICATE", "FAILED"}]
    /\ reply \in [Deliveries -> {"NONE", "OK", "UNAUTHORIZED"}]
    /\ claimed \in [Result -> Deliveries \cup {Nobody}]
    /\ rowLock \in Deliveries \cup {Nobody}
    /\ payStatus \in Result \cup {"NONE"}
    /\ orderStatus \in {"PENDING_PAYMENT", "PAID", "EXPIRED"}
    /\ reconcile \in [Reconciles -> Result \cup {"idle", "done"}]

Init ==
    /\ pc = [d \in Deliveries |-> "idle"]
    /\ callback = [d \in Deliveries |-> NoCallback]
    /\ row = [d \in Deliveries |-> "NONE"]
    /\ reply = [d \in Deliveries |-> "NONE"]
    /\ claimed = [s \in Result |-> Nobody]
    /\ rowLock = Nobody
    /\ payStatus = "NONE"
    /\ orderStatus = "PENDING_PAYMENT"
    /\ reconcile = [r \in Reconciles |-> "idle"]

\* The gateway knows the payment once CreateCharge returns; the row comes later.
InsertPayment ==
    /\ payStatus = "NONE"
    /\ payStatus' = "PENDING"
    /\ UNCHANGED <<deliveryVars, claimed, rowLock, orderStatus, reconcile>>

-----------------------------------------------------------------------------
(***************************************************************************)
(* ProcessRaw.                                                             *)
(***************************************************************************)

\* The end of a request that is answered: the row's status and the HTTP code.
\* Only an invalid signature is not answered 200.
Finish(d, status, code) ==
    /\ pc' = [pc EXCEPT ![d] = "done"]
    /\ row' = [row EXCEPT ![d] = status]
    /\ reply' = [reply EXCEPT ![d] = code]

\* The callback is stored first.  The column is jsonb: a body that is not JSON
\* (Duitku posts a form) fails the INSERT, and the request ends there.
Store(d, c) ==
    /\ pc[d] = "idle"
    /\ callback' = [callback EXCEPT ![d] = c]
    /\ IF c.json
       THEN /\ pc' = [pc EXCEPT ![d] = "stored"]
            /\ row' = [row EXCEPT ![d] = "RECEIVED"]
            /\ UNCHANGED reply
       ELSE Finish(d, "NONE", "OK")
    /\ UNCHANGED <<claimed, rowLock, payStatus, orderStatus, reconcile>>

\* Invalid signature, then callback that does not parse.
Refuse(d) ==
    /\ pc[d] = "stored"
    /\ \/ ~callback[d].signed /\ Finish(d, "REJECTED", "UNAUTHORIZED")
       \/ callback[d].signed /\ ~callback[d].parses /\ Finish(d, "FAILED", "OK")
    /\ UNCHANGED <<callback, claimed, rowLock, payStatus, orderStatus, reconcile>>

MutClaim(d) ==
    /\ pc[d] = "stored"
    /\ callback[d].signed /\ callback[d].parses
    /\ IF \A status \in Result : claimed[status] = Nobody
       THEN /\ claimed' = [claimed EXCEPT ![callback[d].status] = d]
            /\ pc' = [pc EXCEPT ![d] = "claimed"]
       ELSE /\ pc' = [pc EXCEPT ![d] = "duplicate"]
            /\ UNCHANGED claimed
    /\ UNCHANGED <<callback, row, reply, rowLock, payStatus, orderStatus, reconcile>>
\* The dedupe key (gateway, reference, result) is claimed by a statement that
\* commits at once, before the transaction and whatever becomes of it.
Claim(d) ==
    /\ pc[d] = "stored"
    /\ callback[d].signed /\ callback[d].parses
    /\ IF claimed[callback[d].status] = Nobody
       THEN /\ claimed' = [claimed EXCEPT ![callback[d].status] = d]
            /\ pc' = [pc EXCEPT ![d] = "claimed"]
       ELSE /\ pc' = [pc EXCEPT ![d] = "duplicate"]
            /\ UNCHANGED claimed
    /\ UNCHANGED <<callback, row, reply, rowLock, payStatus, orderStatus, reconcile>>

MarkDuplicate(d) ==
    /\ pc[d] = "duplicate"
    /\ Finish(d, "DUPLICATE", "OK")
    /\ UNCHANGED <<callback, claimed, rowLock, payStatus, orderStatus, reconcile>>

\* The transaction finds nothing to change: no such payment, another amount, a
\* payment already settled, or a result that settles nothing.  Here
\* MarkWebhookProcessed names no payment, so nothing blocks it.
ApplyNothing(d) ==
    /\ pc[d] = "claimed"
    /\ rowLock = Nobody
    /\ \/ payStatus = "NONE" /\ Finish(d, "REJECTED", "OK")
       \/ payStatus # "NONE" /\ ~callback[d].amountOk /\ Finish(d, "REJECTED", "OK")
       \/ /\ payStatus # "NONE" /\ callback[d].amountOk
          /\ payStatus # "PENDING" \/ callback[d].status = "PENDING"
          /\ Finish(d, "PROCESSED", "OK")
    /\ UNCHANGED <<callback, claimed, rowLock, payStatus, orderStatus, reconcile>>

\* The transaction locks the pending payment, writes the settlement (nobody sees
\* it yet) and waits for MarkWebhookProcessed, which waits for the payment's row.
ApplySettlement(d) ==
    /\ pc[d] = "claimed"
    /\ rowLock = Nobody
    /\ payStatus = "PENDING" /\ callback[d].amountOk
    /\ callback[d].status \in Settlement
    /\ rowLock' = d
    /\ pc' = [pc EXCEPT ![d] = "marking"]
    /\ UNCHANGED <<callback, row, reply, claimed, payStatus, orderStatus, reconcile>>

MutHangUp(d) ==
    /\ pc[d] = "marking"
    /\ pc' = [pc EXCEPT ![d] = "done"]
    /\ \E status \in {row[d], "PROCESSED"} : row' = [row EXCEPT ![d] = status]
    /\ UNCHANGED <<callback, reply, claimed, rowLock, payStatus, orderStatus, reconcile>>
\* The gateway hangs up, or the server stops: the context is cancelled, COMMIT
\* fails and the transaction rolls back.  The waiting UPDATE may have been
\* cancelled with it, or goes through once the row is free.
HangUp(d) ==
    /\ pc[d] = "marking"
    /\ rowLock' = Nobody
    /\ pc' = [pc EXCEPT ![d] = "done"]
    /\ \E status \in {row[d], "PROCESSED"} : row' = [row EXCEPT ![d] = status]
    /\ UNCHANGED <<callback, reply, claimed, payStatus, orderStatus, reconcile>>

\* The same between two statements: what was committed stays.
Abort(d) ==
    /\ pc[d] \in Working
    /\ pc' = [pc EXCEPT ![d] = "done"]
    /\ UNCHANGED <<callback, row, reply, claimed, rowLock, payStatus, orderStatus,
                   reconcile>>

-----------------------------------------------------------------------------
(***************************************************************************)
(* Reconcile, and the expiry worker.                                       *)
(***************************************************************************)

\* The gateway is asked before the payment is locked.
ReconcileQuery(r, result) ==
    /\ reconcile[r] = "idle"
    /\ payStatus # "NONE"
    /\ reconcile' = [reconcile EXCEPT ![r] = result]
    /\ UNCHANGED <<deliveryVars, claimed, rowLock, payStatus, orderStatus>>

MutSettle(result) ==
    IF result \in Settlement
    THEN /\ payStatus' = result
         /\ orderStatus' = IF result = "PAID" /\ orderStatus = "PENDING_PAYMENT"
                           THEN "PAID" ELSE orderStatus
    ELSE UNCHANGED <<payStatus, orderStatus>>
MutSettleOrder(result) ==
    IF payStatus = "PENDING" /\ result \in Settlement
    THEN /\ payStatus' = result
         /\ orderStatus' = IF orderStatus = "PENDING_PAYMENT"
                           THEN "PAID" ELSE orderStatus
    ELSE UNCHANGED <<payStatus, orderStatus>>
\* A pending payment takes the result; a paid one pays its order if that is
\* still waiting.
Settle(result) ==
    IF payStatus = "PENDING" /\ result \in Settlement
    THEN /\ payStatus' = result
         /\ orderStatus' = IF result = "PAID" /\ orderStatus = "PENDING_PAYMENT"
                           THEN "PAID" ELSE orderStatus
    ELSE UNCHANGED <<payStatus, orderStatus>>

\* Apply without a webhook row: it marks nothing, so its transaction commits.
ReconcileApply(r) ==
    /\ reconcile[r] \in Result
    /\ rowLock = Nobody
    /\ Settle(reconcile[r])
    /\ reconcile' = [reconcile EXCEPT ![r] = "done"]
    /\ UNCHANGED <<deliveryVars, claimed, rowLock>>

\* applyPaid locks the order after the payment; the worker SKIPs a locked order.
OrderLocked == rowLock # Nobody /\ callback[rowLock].status = "PAID"

ExpireOrder ==
    /\ orderStatus = "PENDING_PAYMENT"
    /\ ~OrderLocked
    /\ orderStatus' = "EXPIRED"
    /\ UNCHANGED <<deliveryVars, claimed, rowLock, payStatus, reconcile>>

-----------------------------------------------------------------------------
Process(d) ==
    \/ Refuse(d)
    \/ Claim(d)
    \/ MarkDuplicate(d)
    \/ ApplyNothing(d)
    \/ ApplySettlement(d)

Next ==
    \/ InsertPayment
    \/ \E d \in Deliveries :
        \/ \E c \in Callbacks : Store(d, c)
        \/ Process(d)
        \/ HangUp(d)
        \/ Abort(d)
    \/ \E r \in Reconciles :
        \/ \E result \in Result : ReconcileQuery(r, result)
        \/ ReconcileApply(r)
    \/ ExpireOrder

Spec == Init /\ [][Next]_vars

(***************************************************************************)
(* A request that runs goes on, the gateway's HTTP client gives up in the  *)
(* end on a request that is not answered, and a reconcile that has its     *)
(* result goes on.  Nobody is bound to deliver, to retry or to reconcile.  *)
(***************************************************************************)
Fairness ==
    /\ \A d \in Deliveries : WF_vars(Process(d)) /\ WF_vars(HangUp(d))
    /\ \A r \in Reconciles : WF_vars(ReconcileApply(r))

FairSpec == Spec /\ Fairness

-----------------------------------------------------------------------------
(***************************************************************************)
(* Properties.                                                             *)
(***************************************************************************)

\* A settled payment keeps its result, whatever is reconciled or delivered
\* later and however old the gateway's answer is.
FinalPaymentKept == [][(payStatus \in Settlement) => payStatus' = payStatus]_vars

\* The order is PAID only with its payment.
SaleFollowsPayment == orderStatus = "PAID" => payStatus = "PAID"

\* A callback is only called a duplicate when another one, stored and with the
\* same result, has the key.
DuplicateHasOriginal ==
    \A d \in Deliveries : row[d] = "DUPLICATE" =>
        \E e \in Deliveries \ {d} :
            /\ claimed[callback[d].status] = e
            /\ row[e] # "NONE" /\ callback[e].status = callback[d].status

\* A reconcile ends, even behind deliveries that hold the payment's row and wait.
ReconcileEnds == \A r \in Reconciles : reconcile[r] \in Result ~> reconcile[r] = "done"

-----------------------------------------------------------------------------
(***************************************************************************)
(* What the repository says and the code does not do (see README.md).      *)
(***************************************************************************)

Genuine(c) == c.json /\ c.signed /\ c.parses /\ c.amountOk

\* A genuine settlement of a pending payment that was acknowledged as processed,
\* or as a duplicate of one that was, takes effect: "a gateway can safely retry
\* a callback".
AcknowledgedIsApplied ==
    \A d \in Deliveries :
        (/\ reply[d] = "OK" /\ row[d] \in {"PROCESSED", "DUPLICATE"}
         /\ Genuine(callback[d]) /\ callback[d].status \in Settlement
         /\ payStatus = "PENDING")
            ~> payStatus # "PENDING"

\* A callback that is answered is in the database, whatever it looks like.
AnsweredIsStored == \A d \in Deliveries : reply[d] # "NONE" => row[d] # "NONE"
=============================================================================
