----------------------------- MODULE OrderFlow ------------------------------
(***************************************************************************)
(* The life of the orders of ONE event category: checkout, cancellation,   *)
(* expiry, payment, refund.  Every handler is a PostgreSQL transaction at  *)
(* READ COMMITTED, so a step of this module is a statement whose result    *)
(* another transaction can make stale, or a commit that makes a            *)
(* transaction's writes visible at once.  All locks and all counts of the  *)
(* code are per category, so categories do not interact and one is enough. *)
(*                                                                         *)
(* A member of Orders is a checkout attempt and, once it commits, the row  *)
(* of orders (and its one row of inventory_reservations) it inserted.      *)
(***************************************************************************)
EXTENDS Integers, FiniteSets

CONSTANTS
    Orders,             \* checkout attempts
    Users,              \* logged-in participants
    Guests,             \* guest e-mail addresses
    Payments,           \* calls of CreatePayment, and the rows they insert
    Grants,             \* rows of access_grants for this category
    GrantOwner,         \* GrantOwner[g]: the grant's participant_id
    Winners,            \* participants with a WINNER ballot entry
    Capacities,         \* the capacities the organizer ever gives the category
    Limits,             \* and the values of max_order_per_user
    MaxRefunders,       \* bound: refunds of one order ever started
    NoOrder, NoToken, NoBuyer

ASSUME CategoryAssumption == Capacities \subseteq Nat \ {0} /\ Limits \subseteq Nat \ {0}
ASSUME OrdersAssumption == IsFiniteSet(Orders) /\ NoOrder \notin Orders
ASSUME BuyersAssumption ==
    /\ Users \cap Guests = {}
    /\ NoBuyer \notin Users \cup Guests
    /\ Winners \subseteq Users
ASSUME GrantsAssumption == NoToken \notin Grants /\ GrantOwner \in [Grants -> Users]
ASSUME RefundersAssumption == MaxRefunders \in Nat

VARIABLES
    capacity,       \* event_categories.capacity
    limit,          \* event_categories.max_order_per_user
    catLock,        \* the checkout holding FOR UPDATE on the category row
    pc,             \* where each checkout transaction is
    buyer,          \* participant_id or guest_email of the checkout
    token,          \* the admissionToken it carries
    seen,           \* its result of CountActiveReservationsByCategory
    orderStatus,    \* orders.status, "NONE" before the row exists
    reservation,    \* inventory_reservations.status
    overdue,        \* orders whose expired_at is in the past
    payStatus,      \* payments.status; "READ" while CreatePayment runs
    payOrder,       \* payments.order_id
    ticketed,       \* orders with a row of tickets
    feeCharged,     \* orders with a row of platform_fee_ledger
    refunders,      \* RefundOrder calls that have read the order as PAID
    refunds,        \* refunds recorded for the order
    grantStatus,    \* access_grants.status
    grantOrder,     \* access_grants.order_id
    winner,         \* ballot_entries.status of each participant's entry
    overwritten     \* history: entries the ballot module has written by their id alone and
                    \* no payment has converted since

categoryVars == <<capacity, limit>>
checkoutVars == <<catLock, pc, buyer, token, seen>>
orderVars == <<orderStatus, reservation, overdue>>
paymentVars == <<payStatus, payOrder>>
saleVars == <<ticketed, feeCharged>>
refundVars == <<refunders, refunds>>
grantVars == <<grantStatus, grantOrder>>
ballotVars == <<winner, overwritten>>

vars == <<capacity, limit, catLock, pc, buyer, token, seen, orderStatus,
          reservation, overdue, payStatus, payOrder, ticketed, feeCharged,
          refunders, refunds, grantStatus, grantOrder, winner, overwritten>>

\* A checkout inside its transaction has written nothing another transaction
\* sees.  After a rollback it is "idle" again (the buyer may retry), except that
\* a rollback forced by a constraint is kept apart as "dbError".
InTx == {"counted", "admitted", "limited"}
CheckoutPC == {"idle", "committed", "dbError"} \cup InTx
OrderStatus == {"NONE", "PENDING_PAYMENT", "PAID", "EXPIRED", "CANCELLED", "REFUNDED"}
ReservationStatus == {"NONE", "ACTIVE", "EXPIRED", "COMPLETED", "RELEASED"}
EntryStatus == {"NONE", "WINNER", "LAPSED", "CONVERTED", "WITHDRAWN"}
PaymentStatus == {"NONE", "READ", "PENDING", "PAID", "EXPIRED", "FAILED", "REFUSED"}

\* The type of every variable.
TypeOK ==
    /\ capacity \in Capacities
    /\ limit \in Limits
    /\ catLock \in Orders \cup {NoOrder}
    /\ pc \in [Orders -> CheckoutPC]
    /\ buyer \in [Orders -> Users \cup Guests \cup {NoBuyer}]
    /\ token \in [Orders -> Grants \cup {NoToken}]
    /\ seen \in [Orders -> Nat]
    /\ orderStatus \in [Orders -> OrderStatus]
    /\ reservation \in [Orders -> ReservationStatus]
    /\ overdue \in SUBSET Orders
    /\ payStatus \in [Payments -> PaymentStatus]
    /\ payOrder \in [Payments -> Orders \cup {NoOrder}]
    /\ ticketed \in SUBSET Orders
    /\ feeCharged \in SUBSET Orders
    /\ refunders \in [Orders -> Nat]
    /\ refunds \in [Orders -> Nat]
    /\ grantStatus \in [Grants -> {"ACTIVE", "CONSUMED"}]
    /\ grantOrder \in [Grants -> Orders \cup {NoOrder}]
    /\ winner \in [Users -> EntryStatus]
    /\ overwritten \in SUBSET Winners

\* The draw has marked its winners and nobody has checked out yet.
Init ==
    /\ capacity \in Capacities
    /\ limit \in Limits
    /\ catLock = NoOrder
    /\ pc = [o \in Orders |-> "idle"]
    /\ buyer = [o \in Orders |-> NoBuyer]
    /\ token = [o \in Orders |-> NoToken]
    /\ seen = [o \in Orders |-> 0]
    /\ orderStatus = [o \in Orders |-> "NONE"]
    /\ reservation = [o \in Orders |-> "NONE"]
    /\ overdue = {}
    /\ payStatus = [p \in Payments |-> "NONE"]
    /\ payOrder = [p \in Payments |-> NoOrder]
    /\ ticketed = {} /\ feeCharged = {}
    /\ refunders = [o \in Orders |-> 0]
    /\ refunds = [o \in Orders |-> 0]
    /\ grantStatus = [g \in Grants |-> "ACTIVE"]
    /\ grantOrder = [g \in Grants |-> NoOrder]
    /\ winner = [u \in Users |-> IF u \in Winners THEN "WINNER" ELSE "NONE"]
    /\ overwritten = {}

-----------------------------------------------------------------------------
(***************************************************************************)
(* The counts a checkout makes.                                            *)
(***************************************************************************)

Held == {o \in Orders : reservation[o] = "ACTIVE"}
Sold == {o \in Orders : orderStatus[o] = "PAID"}

MutCounts == <<Cardinality(Sold), Cardinality(Held)>>
\* The two counts of CheckAndLock, in the order it takes them.  They are two
\* statements, so two snapshots: a payment may commit between them.
Counts == <<Cardinality(Held), Cardinality(Sold)>>

Remaining(reserved, paid) ==
    LET free == capacity - reserved - paid
    IN  IF free < 0 THEN 0 ELSE free

MutActiveOrdersOf(b) ==
    {o \in Orders : buyer[o] = b /\ orderStatus[o] = "PENDING_PAYMENT"}
ActiveOrdersOf(b) ==
    {o \in Orders : buyer[o] = b /\ orderStatus[o] \in {"PENDING_PAYMENT", "PAID"}}

\* The organizer edits the category, at any time and to any valid value: the
\* UPDATE waits for a checkout that has the row locked, and looks at no order.
UpdateCategory(c, m) ==
    /\ catLock = NoOrder
    /\ capacity' = c
    /\ limit' = m
    /\ UNCHANGED <<checkoutVars, orderVars, paymentVars, saleVars, refundVars,
                   grantVars, ballotVars>>

-----------------------------------------------------------------------------
(***************************************************************************)
(* Checkout and GuestCheckout.                                             *)
(***************************************************************************)

\* SELECT ... FOR UPDATE on the category row, which waits while another
\* checkout has it, and the count of active reservations.
LockCategory(o, b, t) ==
    /\ pc[o] = "idle"
    /\ catLock = NoOrder
    /\ catLock' = o
    /\ pc' = [pc EXCEPT ![o] = "counted"]
    /\ buyer' = [buyer EXCEPT ![o] = b]
    /\ token' = [token EXCEPT ![o] = t]
    /\ seen' = [seen EXCEPT ![o] = Counts[1]]
    /\ UNCHANGED <<categoryVars, orderVars, paymentVars, saleVars, refundVars,
                   grantVars, ballotVars>>

\* The count of paid orders, and the sold-out test on the two counts.
CheckCapacity(o) ==
    /\ pc[o] = "counted"
    /\ Remaining(seen[o], Counts[2]) > 0
    /\ pc' = [pc EXCEPT ![o] = "admitted"]
    /\ seen' = [seen EXCEPT ![o] = 0]
    /\ UNCHANGED <<categoryVars, catLock, buyer, token, orderVars, paymentVars,
                   saleVars, refundVars, grantVars, ballotVars>>

\* The registration window is open and the buyer is below the limit.
CheckOrderLimit(o) ==
    /\ pc[o] = "admitted"
    /\ Cardinality(ActiveOrdersOf(buyer[o])) < limit
    /\ pc' = [pc EXCEPT ![o] = "limited"]
    /\ UNCHANGED <<categoryVars, catLock, buyer, token, seen, orderVars,
                   paymentVars, saleVars, refundVars, grantVars, ballotVars>>

MutGrantUsable(o) == token[o] \in Grants => GrantOwner[token[o]] = buyer[o]
\* The grant a token names is the buyer's and unused.  A token that names no
\* grant is ignored.
GrantUsable(o) ==
    token[o] \in Grants =>
        /\ GrantOwner[token[o]] = buyer[o]
        /\ grantStatus[token[o]] = "ACTIVE"

ConsumeGrant(o) ==
    IF token[o] \in Grants
    THEN /\ grantStatus' = [grantStatus EXCEPT ![token[o]] = "CONSUMED"]
         /\ grantOrder' = [grantOrder EXCEPT ![token[o]] = o]
    ELSE UNCHANGED grantVars

\* CreateOrder, Reserve and ConsumeAccessGrant, then COMMIT.  The reservation's
\* participant_id references users(id), so only a participant's checkout gets
\* this far.
CommitCheckout(o) ==
    /\ pc[o] = "limited"
    /\ buyer[o] \in Users
    /\ GrantUsable(o)
    /\ orderStatus' = [orderStatus EXCEPT ![o] = "PENDING_PAYMENT"]
    /\ reservation' = [reservation EXCEPT ![o] = "ACTIVE"]
    /\ ConsumeGrant(o)
    /\ pc' = [pc EXCEPT ![o] = "committed"]
    /\ catLock' = NoOrder
    /\ UNCHANGED <<categoryVars, buyer, token, seen, overdue, paymentVars,
                   saleVars, refundVars, ballotVars>>

\* Reserve for a guest inserts participant_id = uuid.Nil, which is no user:
\* the foreign key fails and the transaction rolls back.
GuestReserveFails(o) ==
    /\ pc[o] = "limited"
    /\ buyer[o] \in Guests
    /\ pc' = [pc EXCEPT ![o] = "dbError"]
    /\ catLock' = NoOrder
    /\ UNCHANGED <<categoryVars, buyer, token, seen, orderVars, paymentVars,
                   saleVars, refundVars, grantVars, ballotVars>>

Forget(o) ==
    /\ buyer' = [buyer EXCEPT ![o] = NoBuyer]
    /\ token' = [token EXCEPT ![o] = NoToken]
    /\ seen' = [seen EXCEPT ![o] = 0]

MutRollback(o) ==
    /\ pc[o] \in InTx
    /\ pc' = [pc EXCEPT ![o] = "idle"]
    /\ Forget(o)
    /\ UNCHANGED <<categoryVars, catLock, orderVars, paymentVars, saleVars,
                   refundVars, grantVars, ballotVars>>
\* Any other end of the transaction: sold out, closed, over the limit, grant
\* refused or expired, connection lost.  Nothing is written, the lock is freed.
Rollback(o) ==
    /\ pc[o] \in InTx
    /\ pc' = [pc EXCEPT ![o] = "idle"]
    /\ catLock' = NoOrder
    /\ Forget(o)
    /\ UNCHANGED <<categoryVars, orderVars, paymentVars, saleVars, refundVars,
                   grantVars, ballotVars>>

-----------------------------------------------------------------------------
(***************************************************************************)
(* Giving a held seat back.                                                *)
(***************************************************************************)

MutReleased(S, status) == reservation
\* inventory.Release on each order of S: only ACTIVE reservations change.
Released(S, status) ==
    [o \in Orders |->
        IF o \in S /\ reservation[o] = "ACTIVE" THEN status ELSE reservation[o]]

\* Time reaches expired_at of an order nobody has paid.
DeadlinePasses(o) ==
    /\ orderStatus[o] = "PENDING_PAYMENT"
    /\ o \notin overdue
    /\ overdue' = overdue \cup {o}
    /\ UNCHANGED <<categoryVars, checkoutVars, orderStatus, reservation,
                   paymentVars, saleVars, refundVars, grantVars, ballotVars>>

MutCancel(o) ==
    /\ orderStatus[o] = "PENDING_PAYMENT"
    /\ orderStatus' = [orderStatus EXCEPT ![o] = "CANCELLED"]
    /\ reservation' = Released({o}, "CANCELLED")
    /\ UNCHANGED <<categoryVars, checkoutVars, overdue, paymentVars, saleVars,
                   refundVars, grantVars, ballotVars>>
\* The participant cancels.  The status is read first, but the UPDATE repeats
\* the test under the row lock, so the commit is what decides.
Cancel(o) ==
    /\ orderStatus[o] = "PENDING_PAYMENT"
    /\ orderStatus' = [orderStatus EXCEPT ![o] = "CANCELLED"]
    /\ reservation' = Released({o}, "RELEASED")
    /\ UNCHANGED <<categoryVars, checkoutVars, overdue, paymentVars, saleVars,
                   refundVars, grantVars, ballotVars>>

Expirable == {o \in overdue : orderStatus[o] = "PENDING_PAYMENT"}

MutExpireOrders(S) ==
    /\ S # {} /\ S \subseteq Expirable
    /\ \A o \in S, p \in Payments : ~(payOrder[p] = o /\ payStatus[p] = "PENDING")
    /\ orderStatus' = [o \in Orders |-> IF o \in S THEN "EXPIRED" ELSE orderStatus[o]]
    /\ reservation' = Released(S, "EXPIRED")
    /\ UNCHANGED <<categoryVars, checkoutVars, overdue, paymentVars, saleVars,
                   refundVars, grantVars, ballotVars>>
\* One run of the expiry worker: the overdue pending orders it could lock (the
\* others it SKIPs, or leaves to the next batch) expire in one transaction.
ExpireOrders(S) ==
    /\ S # {} /\ S \subseteq Expirable
    /\ orderStatus' = [o \in Orders |-> IF o \in S THEN "EXPIRED" ELSE orderStatus[o]]
    /\ reservation' = Released(S, "EXPIRED")
    /\ UNCHANGED <<categoryVars, checkoutVars, overdue, paymentVars, saleVars,
                   refundVars, grantVars, ballotVars>>

-----------------------------------------------------------------------------
(***************************************************************************)
(* Payments.                                                               *)
(***************************************************************************)

HasActivePayment(o) ==
    \E p \in Payments : payOrder[p] = o /\ payStatus[p] \in {"PENDING", "PAID"}

\* CreatePayment reads the order and its active payment.  Its FOR UPDATE is a
\* statement of its own, outside any transaction, so the lock is gone at once;
\* the gateway is called next.
CreatePaymentRead(p, o) ==
    /\ payStatus[p] = "NONE"
    /\ orderStatus[o] = "PENDING_PAYMENT"
    /\ ~HasActivePayment(o)
    /\ payStatus' = [payStatus EXCEPT ![p] = "READ"]
    /\ payOrder' = [payOrder EXCEPT ![p] = o]
    /\ UNCHANGED <<categoryVars, checkoutVars, orderVars, saleVars, refundVars,
                   grantVars, ballotVars>>

MutCreatePaymentInsert(p) ==
    /\ payStatus[p] = "READ"
    /\ payStatus' = [payStatus EXCEPT ![p] = "PENDING"]
    /\ UNCHANGED <<categoryVars, checkoutVars, orderVars, payOrder, saleVars,
                   refundVars, grantVars, ballotVars>>
\* The row is inserted on what was read, unless the unique index on an order's
\* PENDING or PAID payment refuses it.
CreatePaymentInsert(p) ==
    /\ payStatus[p] = "READ"
    /\ payStatus' = [payStatus EXCEPT
                      ![p] = IF HasActivePayment(payOrder[p])
                             THEN "REFUSED" ELSE "PENDING"]
    /\ UNCHANGED <<categoryVars, checkoutVars, orderVars, payOrder, saleVars,
                   refundVars, grantVars, ballotVars>>

\* CreateCharge fails or the server dies: no row.
CreatePaymentFails(p) ==
    /\ payStatus[p] = "READ"
    /\ payStatus' = [payStatus EXCEPT ![p] = "REFUSED"]
    /\ UNCHANGED <<categoryVars, checkoutVars, orderVars, payOrder, saleVars,
                   refundVars, grantVars, ballotVars>>

MutConverted(w, o) == [w EXCEPT ![buyer[o]] = IF @ = "WINNER" THEN "CONVERTED" ELSE @]
\* ConvertBallotWinnerForOrder: the entry of the order's participant.
Converted(w, o) ==
    [w EXCEPT ![buyer[o]] = IF @ \in {"WINNER", "LAPSED"} THEN "CONVERTED" ELSE @]

MutTicketAnyOrder(o) ==
    IF orderStatus[o] = "PENDING_PAYMENT"
    THEN /\ orderStatus' = [orderStatus EXCEPT ![o] = "PAID"]
         /\ reservation' = Released({o}, "COMPLETED")
         /\ winner' = Converted(winner, o)
         /\ overwritten' = {u \in overwritten : winner'[u] # "CONVERTED"}
         /\ ticketed' = ticketed \cup {o}
         /\ feeCharged' = feeCharged \cup {o}
    ELSE /\ ticketed' = ticketed \cup {o}
         /\ UNCHANGED <<orderStatus, reservation, ballotVars, feeCharged>>
MutSellOrder(o) ==
    /\ orderStatus' = [orderStatus EXCEPT ![o] = "PAID"]
    /\ reservation' = Released({o}, "COMPLETED")
    /\ winner' = Converted(winner, o)
    /\ overwritten' = {u \in overwritten : winner'[u] # "CONVERTED"}
    /\ ticketed' = ticketed \cup {o}
    /\ feeCharged' = feeCharged \cup {o}
\* What applyPaid does to the order it has locked.  An order that is no longer
\* pending keeps its status: the money is in, the seat is gone.
SellOrder(o) ==
    IF orderStatus[o] = "PENDING_PAYMENT"
    THEN /\ orderStatus' = [orderStatus EXCEPT ![o] = "PAID"]
         /\ reservation' = Released({o}, "COMPLETED")
         /\ winner' = Converted(winner, o)
         /\ overwritten' = {u \in overwritten : winner'[u] # "CONVERTED"}
         /\ ticketed' = ticketed \cup {o}
         /\ feeCharged' = feeCharged \cup {o}
    ELSE UNCHANGED <<orderStatus, reservation, ballotVars, saleVars>>

\* The gateway's result is PAID and the payment is still PENDING: payment,
\* order, reservation, ballot entry, ticket and fee change in one transaction.
ApplyPaid(p) ==
    /\ payStatus[p] = "PENDING"
    /\ payStatus' = [payStatus EXCEPT ![p] = "PAID"]
    /\ SellOrder(payOrder[p])
    /\ UNCHANGED <<categoryVars, checkoutVars, overdue, payOrder, refundVars,
                   grantVars>>

\* The gateway's result is EXPIRED or FAILED: only the payment changes.
ApplyUnpaid(p, result) ==
    /\ payStatus[p] = "PENDING"
    /\ payStatus' = [payStatus EXCEPT ![p] = result]
    /\ UNCHANGED <<categoryVars, checkoutVars, orderVars, payOrder, saleVars,
                   refundVars, grantVars, ballotVars>>

\* The ballot expirer, once the winner's payment deadline is past: a winner
\* with no paid order and no order still in time lapses.
LapseWinner(u) ==
    /\ winner[u] = "WINNER"
    /\ \A o \in ActiveOrdersOf(u) : orderStatus[o] = "PENDING_PAYMENT" /\ o \in overdue
    /\ winner' = [winner EXCEPT ![u] = "LAPSED"]
    /\ UNCHANGED <<categoryVars, checkoutVars, orderVars, paymentVars,
                   saleVars, refundVars, grantVars, overwritten>>

\* UpdateBallotEntryStatus, which names the entry by its id and not the status that was read:
\* an AnnounceDraw that listed the winner writes WINNER, whatever has happened to the entry
\* since, and a Withdraw that began while the draw was open writes WITHDRAWN.
WriteBallotEntry(u, s) ==
    /\ winner[u] # s
    /\ winner' = [winner EXCEPT ![u] = s]
    /\ overwritten' = overwritten \cup {u}
    /\ UNCHANGED <<categoryVars, checkoutVars, orderVars, paymentVars,
                   saleVars, refundVars, grantVars>>

-----------------------------------------------------------------------------
(***************************************************************************)
(* Refunds.                                                                *)
(***************************************************************************)

\* RefundOrder reads the order as PAID, without locking it.
RefundRead(o) ==
    /\ orderStatus[o] = "PAID"
    /\ refunders[o] + refunds[o] < MaxRefunders
    /\ refunders' = [refunders EXCEPT ![o] = @ + 1]
    /\ UNCHANGED <<categoryVars, checkoutVars, orderVars, paymentVars,
                   saleVars, refunds, grantVars, ballotVars>>

\* RecordOrderRefund has no guard on the status.  The payment, the ticket, the
\* fee and the reservation stay as they are.
RefundWrite(o) ==
    /\ refunders[o] > 0
    /\ refunders' = [refunders EXCEPT ![o] = @ - 1]
    /\ refunds' = [refunds EXCEPT ![o] = @ + 1]
    /\ orderStatus' = [orderStatus EXCEPT ![o] = "REFUNDED"]
    /\ UNCHANGED <<categoryVars, checkoutVars, reservation, overdue,
                   paymentVars, saleVars, grantVars, ballotVars>>

-----------------------------------------------------------------------------
CheckoutStep(o) ==
    \/ CheckCapacity(o)
    \/ CheckOrderLimit(o)
    \/ CommitCheckout(o)
    \/ GuestReserveFails(o)
    \/ Rollback(o)

OrderStep(o) ==
    \/ \E b \in Users \cup Guests, t \in Grants \cup {NoToken} : LockCategory(o, b, t)
    \/ CheckoutStep(o)
    \/ DeadlinePasses(o)
    \/ Cancel(o)
    \/ RefundRead(o)
    \/ RefundWrite(o)

PaymentStep(p) ==
    \/ \E o \in Orders : CreatePaymentRead(p, o)
    \/ CreatePaymentInsert(p)
    \/ CreatePaymentFails(p)
    \/ ApplyPaid(p)
    \/ \E result \in {"EXPIRED", "FAILED"} : ApplyUnpaid(p, result)

Next ==
    \/ \E o \in Orders : OrderStep(o)
    \/ \E p \in Payments : PaymentStep(p)
    \/ \E S \in SUBSET Orders : ExpireOrders(S)
    \/ \E u \in Users : LapseWinner(u)
    \/ \E u \in Winners, s \in {"WINNER", "WITHDRAWN"} : WriteBallotEntry(u, s)
    \/ \E c \in Capacities, m \in Limits : UpdateCategory(c, m)

Spec == Init /\ [][Next]_vars

(***************************************************************************)
(* What must happen: a handler that has begun ends, with a commit or a     *)
(* rollback; time passes; the worker's ticker keeps calling ExpireOrders.  *)
(* Nobody is bound to check out, to pay, to cancel or to refund.           *)
(***************************************************************************)
Fairness ==
    /\ \A o \in Orders : WF_vars(CheckoutStep(o)) /\ WF_vars(DeadlinePasses(o))
    /\ WF_vars(\E S \in SUBSET Orders : ExpireOrders(S))

FairSpec == Spec /\ Fairness

-----------------------------------------------------------------------------
(***************************************************************************)
(* Properties.                                                             *)
(***************************************************************************)

Taken == Cardinality(Held) + Cardinality(Sold)

\* No step takes a seat beyond the capacity of that moment, although a checkout
\* adds up two counts taken at different moments, payments, cancellations,
\* expiries and refunds commit without the category lock, and the organizer
\* may have put the capacity below what was sold.
NoOversell == [][Taken' > Taken => Taken' <= capacity]_vars

\* The status of an order decides the status of its reservation, whatever the
\* order in which payment, cancellation, expiry and refund race.
SeatAgreesWithOrder ==
    \A o \in Orders :
        reservation[o] = [NONE            |-> "NONE",
                          PENDING_PAYMENT |-> "ACTIVE",
                          PAID            |-> "COMPLETED",
                          REFUNDED        |-> "COMPLETED",
                          EXPIRED         |-> "EXPIRED",
                          CANCELLED       |-> "RELEASED"][orderStatus[o]]

\* A sale is all or nothing: a ticket and a fee exist for exactly the orders
\* that were paid, such an order has a PAID payment, and no order waits for
\* payment while one of its payments is PAID.
SaleIsWhole ==
    /\ \A o \in Orders :
        /\ o \in ticketed <=> orderStatus[o] \in {"PAID", "REFUNDED"}
        /\ o \in feeCharged <=> o \in ticketed
        /\ o \in ticketed => \E p \in Payments : payOrder[p] = o /\ payStatus[p] = "PAID"
    /\ \A p \in Payments :
        payStatus[p] = "PAID" => orderStatus[payOrder[p]] # "PENDING_PAYMENT"

\* An order has at most one payment that is PENDING or PAID, although two
\* CreatePayment calls may both find none.
OneActivePayment ==
    \A p, q \in Payments :
        /\ payOrder[p] = payOrder[q]
        /\ payStatus[p] \in {"PENDING", "PAID"}
        /\ payStatus[q] \in {"PENDING", "PAID"}
        => p = q

\* Concurrent checkouts of one participant never take the participant past the
\* max_order_per_user of that moment: an order counts while it can still be, or
\* is, paid.
OpenOrdersOf(u) == {o \in Orders : buyer[o] = u
                        /\ (reservation[o] = "ACTIVE" \/ orderStatus[o] = "PAID")}
OrderLimitKept ==
    [][\A u \in Users : Cardinality(OpenOrdersOf(u)') > Cardinality(OpenOrdersOf(u))
            => Cardinality(OpenOrdersOf(u)') <= limit]_vars

\* A grant lets in one order of its owner, and is CONSUMED exactly when that
\* order exists: a checkout that rolls back leaves its grant usable.
GrantAdmitsOnce ==
    /\ \A g \in Grants : grantStatus[g] = "CONSUMED" =>
        /\ grantOrder[g] \in Orders
        /\ pc[grantOrder[g]] = "committed"
        /\ buyer[grantOrder[g]] = GrantOwner[g]
    /\ \A o \in Orders : pc[o] = "committed" /\ token[o] \in Grants =>
        grantStatus[token[o]] = "CONSUMED" /\ grantOrder[token[o]] = o

\* A ballot winner who has paid is CONVERTED, even when the expirer lapsed the entry first
\* because the order was overdue, or an announcement wrote WINNER over it: only a write of
\* the ballot module that comes after the last conversion can leave it otherwise.
PaidWinnerConverted ==
    \A o \in Orders :
        orderStatus[o] = "PAID" /\ buyer[o] \in Winners \ overwritten =>
            winner[buyer[o]] = "CONVERTED"

\* A late payment or a late worker never revives a closed order, and a paid
\* order is never cancelled or expired.
ClosedOrdersStayClosed ==
    [][\A o \in Orders :
        /\ orderStatus[o] \in {"EXPIRED", "CANCELLED", "REFUNDED"}
                => orderStatus'[o] = orderStatus[o]
        /\ orderStatus[o] = "PAID" => orderStatus'[o] \in {"PAID", "REFUNDED"}]_vars

\* Every hold ends: an order that waits for payment is eventually paid,
\* cancelled or expired.
HoldsEnd ==
    \A o \in Orders :
        orderStatus[o] = "PENDING_PAYMENT" ~> orderStatus[o] # "PENDING_PAYMENT"

\* The category lock is never kept: a checkout that has it lets it go.
CategoryLockFreed == \A o \in Orders : catLock = o ~> catLock # o

\* The orders and reservations of the code implement the seat ledger.
Ledger == INSTANCE SeatLedger WITH held <- Held, sold <- Sold, size <- capacity
ImplementsLedger == Ledger!Spec

-----------------------------------------------------------------------------
(***************************************************************************)
(* The inductive invariant behind NoOversell and ImplementsLedger, proved  *)
(* in OrderFlow_proofs.                                                    *)
(***************************************************************************)

PaymentsNameOrders == \A p \in Payments : payStatus[p] # "NONE" => payOrder[p] \in Orders

\* The category row is locked exactly by the checkout inside its transaction.
LockInv == \A o \in Orders : pc[o] \in InTx <=> catLock = o

\* What a checkout knows while it has the lock: its count of holds can only
\* have become too large, and once admitted there is a seat for it.
AdmissionInv ==
    \A o \in Orders :
        /\ pc[o] = "counted" => Cardinality(Held) <= seen[o]
        /\ pc[o] \in {"admitted", "limited"} => Taken < capacity

\* An order has a row once its checkout commits; a refund under way is of an
\* order that was paid.
RowInv ==
    \A o \in Orders :
        /\ pc[o] # "committed" => orderStatus[o] = "NONE"
        /\ refunders[o] > 0 => orderStatus[o] \in {"PAID", "REFUNDED"}

IInv == /\ TypeOK /\ PaymentsNameOrders /\ LockInv /\ RowInv
        /\ SeatAgreesWithOrder /\ AdmissionInv

-----------------------------------------------------------------------------
(***************************************************************************)
(* What the repository says and the code does not do (see README.md).      *)
(***************************************************************************)

\* A refund is a transition from PAID, so an order is refunded at most once.
RefundedAtMostOnce == \A o \in Orders : refunds[o] <= 1

\* The category never has more tickets than seats.
TicketsWithinCapacity == Cardinality(ticketed) <= capacity

\* CONVERTED is the last status of a ballot entry: the order's life takes over.
ConvertedIsTerminal ==
    [][\A u \in Users : winner[u] = "CONVERTED" => winner'[u] = "CONVERTED"]_vars

\* A guest checkout that passed every check of the service creates its order.
GuestCheckoutStores == \A o \in Orders : pc[o] # "dbError"
=============================================================================
