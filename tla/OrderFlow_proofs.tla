-------------------------- MODULE OrderFlow_proofs --------------------------
(***************************************************************************)
(* Theorems about OrderFlow, for any number of orders, participants,       *)
(* payments and grants and any capacities.                                 *)
(*                                                                         *)
(* The argument: a checkout that has the category row locked cannot see a  *)
(* seat taken behind its back, because only a checkout takes seats; the    *)
(* other transactions only free seats or turn held ones into sold ones.    *)
(* IInv says so, and gives both the refinement of SeatLedger and           *)
(* NoOversell.  What a sale consists of (SaleInv) is kept by each step     *)
(* in a state of IInv and comes last.                                      *)
(***************************************************************************)
EXTENDS OrderFlow, FiniteSetTheorems, TLAPS

-----------------------------------------------------------------------------
(***************************************************************************)
(* Types.                                                                  *)
(***************************************************************************)

\* The counts of a checkout are natural numbers: the rows are finitely many.
LEMMA CountsAreNaturals ==
    /\ IsFiniteSet(Held) /\ Cardinality(Held) \in Nat
    /\ IsFiniteSet(Sold) /\ Cardinality(Sold) \in Nat
<1>1. IsFiniteSet(Held) /\ IsFiniteSet(Sold)
  BY OrdersAssumption, FS_Subset DEF Held, Sold
<1> QED
  BY <1>1, FS_CardinalityType

\* A checkout's own steps respect the types.
LEMMA CheckoutTypes ==
    ASSUME TypeOK, PaymentsNameOrders, NEW o \in Orders,
           \/ \E b \in Users \cup Guests, t \in Grants \cup {NoToken} : LockCategory(o, b, t)
           \/ CheckoutStep(o)
    PROVE  TypeOK' /\ PaymentsNameOrders'
<1> USE DEF TypeOK, PaymentsNameOrders, CheckoutPC, InTx, OrderStatus,
            ReservationStatus, PaymentStatus, categoryVars, orderVars,
            paymentVars, saleVars, refundVars, grantVars, ballotVars, EntryStatus
<1>1. ASSUME NEW b \in Users \cup Guests, NEW t \in Grants \cup {NoToken},
             LockCategory(o, b, t)
      PROVE  TypeOK' /\ PaymentsNameOrders'
  BY <1>1, CountsAreNaturals DEF LockCategory, Counts
<1>2. CASE CheckCapacity(o)
  BY <1>2 DEF CheckCapacity
<1>3. CASE CheckOrderLimit(o)
  BY <1>3 DEF CheckOrderLimit
<1>4. CASE CommitCheckout(o)
  BY <1>4 DEF CommitCheckout, ConsumeGrant
<1>5. CASE GuestReserveFails(o)
  BY <1>5 DEF GuestReserveFails
<1>6. CASE Rollback(o)
  BY <1>6 DEF Rollback, Forget
<1> QED
  BY <1>1, <1>2, <1>3, <1>4, <1>5, <1>6 DEF CheckoutStep

\* So do cancellation, refund and the passing of a deadline.
LEMMA OrderTypes ==
    ASSUME TypeOK, PaymentsNameOrders, NEW o \in Orders,
           DeadlinePasses(o) \/ Cancel(o) \/ RefundRead(o) \/ RefundWrite(o)
    PROVE  TypeOK' /\ PaymentsNameOrders'
<1> USE DEF TypeOK, PaymentsNameOrders, OrderStatus, ReservationStatus,
            PaymentStatus, categoryVars, checkoutVars, orderVars, paymentVars,
            saleVars, refundVars, grantVars, ballotVars, EntryStatus
<1>1. CASE DeadlinePasses(o)
  BY <1>1 DEF DeadlinePasses
<1>2. CASE Cancel(o)
  BY <1>2 DEF Cancel, Released
<1>3. CASE RefundRead(o)
  BY <1>3 DEF RefundRead
<1>4. CASE RefundWrite(o)
  BY <1>4 DEF RefundWrite
<1> QED
  BY <1>1, <1>2, <1>3, <1>4

\* So do the steps of a payment.
LEMMA PaymentTypes ==
    ASSUME TypeOK, PaymentsNameOrders, NEW p \in Payments, PaymentStep(p)
    PROVE  TypeOK' /\ PaymentsNameOrders'
<1> USE DEF TypeOK, PaymentsNameOrders, OrderStatus, ReservationStatus,
            PaymentStatus, categoryVars, checkoutVars, orderVars, paymentVars,
            saleVars, refundVars, grantVars, ballotVars, EntryStatus
<1>1. ASSUME NEW o \in Orders, CreatePaymentRead(p, o)
      PROVE  TypeOK' /\ PaymentsNameOrders'
  BY <1>1 DEF CreatePaymentRead
<1>2. CASE CreatePaymentInsert(p)
  BY <1>2 DEF CreatePaymentInsert
<1>3. CASE CreatePaymentFails(p)
  BY <1>3 DEF CreatePaymentFails
<1>4. CASE ApplyPaid(p)
  <2>1. payOrder[p] \in Orders
    BY <1>4 DEF ApplyPaid
  <2>2. CASE orderStatus[payOrder[p]] = "PENDING_PAYMENT"
    <3>1. Released({payOrder[p]}, "COMPLETED") \in [Orders -> ReservationStatus]
      BY <2>1 DEF Released
    <3>2. Converted(winner, payOrder[p])
            \in [Users -> EntryStatus]
      BY <2>1 DEF Converted
    <3>3. /\ orderStatus' \in [Orders -> OrderStatus]
          /\ ticketed' \in SUBSET Orders
          /\ feeCharged' \in SUBSET Orders
          /\ reservation' \in [Orders -> ReservationStatus]
          /\ winner' \in [Users -> EntryStatus]
          /\ overwritten' \in SUBSET Winners
      <4> HIDE DEF TypeOK, PaymentsNameOrders
      <4>1. /\ orderStatus' = [orderStatus EXCEPT ![payOrder[p]] = "PAID"]
            /\ reservation' = Released({payOrder[p]}, "COMPLETED")
            /\ winner' = Converted(winner, payOrder[p])
            /\ overwritten' \in SUBSET overwritten
            /\ ticketed' = ticketed \cup {payOrder[p]}
            /\ feeCharged' = feeCharged \cup {payOrder[p]}
        BY <1>4, <2>2 DEF ApplyPaid, SellOrder
      <4> QED
        BY <4>1, <2>1, <3>1, <3>2 DEF TypeOK
    <3>4. /\ payStatus' \in [Payments -> PaymentStatus]
          /\ UNCHANGED <<payOrder, capacity, limit, catLock, pc, buyer, token, seen,
                         overdue, refunders, refunds, grantStatus, grantOrder>>
      BY <1>4 DEF ApplyPaid
    <3>5. PaymentsNameOrders'
      BY <1>4, <2>1 DEF ApplyPaid
    <3> QED
      BY <3>3, <3>4, <3>5
  <2>3. CASE orderStatus[payOrder[p]] # "PENDING_PAYMENT"
    BY <1>4, <2>1, <2>3 DEF ApplyPaid, SellOrder
  <2> QED
    BY <2>2, <2>3
<1>5. ASSUME NEW result \in {"EXPIRED", "FAILED"}, ApplyUnpaid(p, result)
      PROVE  TypeOK' /\ PaymentsNameOrders'
  BY <1>5 DEF ApplyUnpaid
<1> QED
  BY <1>1, <1>2, <1>3, <1>4, <1>5 DEF PaymentStep

\* Every step respects the types.
LEMMA TypesPreserved ==
    TypeOK /\ PaymentsNameOrders /\ [Next]_vars => TypeOK' /\ PaymentsNameOrders'
<1> SUFFICES ASSUME TypeOK, PaymentsNameOrders, [Next]_vars
             PROVE  TypeOK' /\ PaymentsNameOrders'
  OBVIOUS
<1>1. ASSUME NEW o \in Orders, OrderStep(o)
      PROVE  TypeOK' /\ PaymentsNameOrders'
  BY <1>1, CheckoutTypes, OrderTypes DEF OrderStep
<1>2. ASSUME NEW p \in Payments, PaymentStep(p)
      PROVE  TypeOK' /\ PaymentsNameOrders'
  BY <1>2, PaymentTypes
<1>3. ASSUME NEW S \in SUBSET Orders, ExpireOrders(S)
      PROVE  TypeOK' /\ PaymentsNameOrders'
  BY <1>3 DEF ExpireOrders, Released, TypeOK, PaymentsNameOrders, OrderStatus,
     ReservationStatus, categoryVars, checkoutVars, paymentVars, saleVars,
     refundVars, grantVars, ballotVars, EntryStatus
<1>4. ASSUME NEW u \in Users, LapseWinner(u)
      PROVE  TypeOK' /\ PaymentsNameOrders'
  BY <1>4 DEF LapseWinner, TypeOK, PaymentsNameOrders, categoryVars, checkoutVars,
     orderVars, paymentVars, saleVars, refundVars, grantVars, ballotVars, EntryStatus
<1>7. ASSUME NEW u \in Winners, NEW s \in {"WINNER", "WITHDRAWN"}, WriteBallotEntry(u, s)
      PROVE  TypeOK' /\ PaymentsNameOrders'
  BY <1>7, BuyersAssumption DEF WriteBallotEntry, TypeOK, PaymentsNameOrders, EntryStatus,
     categoryVars, checkoutVars, orderVars, paymentVars, saleVars, refundVars, grantVars
<1>5. ASSUME NEW c \in Capacities, NEW m \in Limits, UpdateCategory(c, m)
      PROVE  TypeOK' /\ PaymentsNameOrders'
  BY <1>5 DEF UpdateCategory, TypeOK, PaymentsNameOrders, checkoutVars,
     orderVars, paymentVars, saleVars, refundVars, grantVars, ballotVars, EntryStatus
<1>6. CASE UNCHANGED vars
  BY <1>6 DEF vars, TypeOK, PaymentsNameOrders
<1> QED
  BY <1>1, <1>2, <1>3, <1>4, <1>5, <1>6, <1>7 DEF Next

\* The type invariant holds in every reachable state, and a payment that is
\* under way or stored names an order.
THEOREM TypeCorrect == Spec => [](TypeOK /\ PaymentsNameOrders)
<1>1. Init => TypeOK /\ PaymentsNameOrders
  BY DEF Init, TypeOK, PaymentsNameOrders, CheckoutPC, InTx, OrderStatus,
     ReservationStatus, PaymentStatus, EntryStatus
<1> QED
  BY <1>1, TypesPreserved, PTL DEF Spec

-----------------------------------------------------------------------------
(***************************************************************************)
(* Locks, and the reservation of each order.                               *)
(***************************************************************************)

\* The lock and the program counters change together.
LEMMA LockPreserved ==
    TypeOK /\ LockInv /\ [Next]_vars => LockInv'
<1> SUFFICES ASSUME TypeOK, LockInv, [Next]_vars
             PROVE  LockInv'
  OBVIOUS
<1> USE OrdersAssumption DEF TypeOK, LockInv, CheckoutPC, InTx
<1>1. ASSUME NEW o \in Orders, NEW b \in Users \cup Guests,
             NEW t \in Grants \cup {NoToken}, LockCategory(o, b, t)
      PROVE  LockInv'
  BY <1>1 DEF LockCategory
<1>2. ASSUME NEW o \in Orders, CheckoutStep(o)
      PROVE  LockInv'
  BY <1>2 DEF CheckoutStep, CheckCapacity, CheckOrderLimit, CommitCheckout,
     GuestReserveFails, Rollback
<1>3. CASE UNCHANGED <<catLock, pc>>
  BY <1>3
<1>4. ASSUME NEW o \in Orders,
             DeadlinePasses(o) \/ Cancel(o) \/ RefundRead(o) \/ RefundWrite(o)
      PROVE  UNCHANGED <<catLock, pc>>
  BY <1>4 DEF DeadlinePasses, Cancel, RefundRead, RefundWrite, checkoutVars
<1>5. ASSUME NEW p \in Payments, PaymentStep(p)
      PROVE  UNCHANGED <<catLock, pc>>
  BY <1>5 DEF PaymentStep, CreatePaymentRead, CreatePaymentInsert,
     CreatePaymentFails, ApplyPaid, ApplyUnpaid, checkoutVars
<1>6. ASSUME \/ \E S \in SUBSET Orders : ExpireOrders(S)
             \/ \E u \in Users : LapseWinner(u)
             \/ \E v \in Winners, s \in {"WINNER", "WITHDRAWN"} : WriteBallotEntry(v, s)
             \/ \E c \in Capacities, m \in Limits : UpdateCategory(c, m)
             \/ UNCHANGED vars
      PROVE  UNCHANGED <<catLock, pc>>
  BY <1>6 DEF ExpireOrders, LapseWinner, WriteBallotEntry, UpdateCategory, checkoutVars, vars
<1> QED
  BY <1>1, <1>2, <1>3, <1>4, <1>5, <1>6 DEF Next, OrderStep

\* What a step other than a sale, a release, a refund or a commit leaves alone.
LEMMA QuietSteps ==
    ASSUME [Next]_vars
    PROVE  \/ UNCHANGED <<orderStatus, reservation>>
           \/ \E o \in Orders : CommitCheckout(o) \/ Cancel(o) \/ RefundWrite(o)
           \/ \E S \in SUBSET Orders : ExpireOrders(S)
           \/ \E p \in Payments : ApplyPaid(p)
<1>1. ASSUME NEW o \in Orders, OrderStep(o)
      PROVE  UNCHANGED <<orderStatus, reservation>>
             \/ CommitCheckout(o) \/ Cancel(o) \/ RefundWrite(o)
  BY <1>1 DEF OrderStep, CheckoutStep, LockCategory, CheckCapacity, CheckOrderLimit,
     GuestReserveFails, Rollback, DeadlinePasses, RefundRead, orderVars
<1>2. ASSUME NEW p \in Payments, PaymentStep(p)
      PROVE  UNCHANGED <<orderStatus, reservation>> \/ ApplyPaid(p)
  BY <1>2 DEF PaymentStep, CreatePaymentRead, CreatePaymentInsert,
     CreatePaymentFails, ApplyUnpaid, orderVars
<1>3. ASSUME NEW u \in Users, LapseWinner(u)
      PROVE  UNCHANGED <<orderStatus, reservation>>
  BY <1>3 DEF LapseWinner, orderVars
<1>6. ASSUME NEW u \in Winners, NEW s \in {"WINNER", "WITHDRAWN"}, WriteBallotEntry(u, s)
      PROVE  UNCHANGED <<orderStatus, reservation>>
  BY <1>6 DEF WriteBallotEntry, orderVars
<1>4. ASSUME NEW c \in Capacities, NEW m \in Limits, UpdateCategory(c, m)
      PROVE  UNCHANGED <<orderStatus, reservation>>
  BY <1>4 DEF UpdateCategory, orderVars
<1>5. CASE UNCHANGED vars
  BY <1>5 DEF vars
<1> QED
  BY <1>1, <1>2, <1>3, <1>4, <1>5, <1>6 DEF Next

\* The row of an order follows its checkout, and its refunds its status.
LEMMA RowsPreserved ==
    TypeOK /\ PaymentsNameOrders /\ RowInv /\ [Next]_vars => RowInv'
<1> SUFFICES ASSUME TypeOK, PaymentsNameOrders, RowInv, [Next]_vars
             PROVE  RowInv'
  OBVIOUS
<1> USE DEF TypeOK, RowInv, CheckoutPC, InTx, OrderStatus
<1>1. ASSUME NEW o \in Orders, NEW b \in Users \cup Guests,
             NEW t \in Grants \cup {NoToken}, LockCategory(o, b, t)
      PROVE  RowInv'
  BY <1>1 DEF LockCategory, orderVars, refundVars
<1>2. ASSUME NEW o \in Orders, CheckoutStep(o)
      PROVE  RowInv'
  <2>1. CASE CommitCheckout(o)
    BY <2>1 DEF CommitCheckout, refundVars
  <2>2. CASE CheckCapacity(o)
    BY <2>2 DEF CheckCapacity, orderVars, refundVars
  <2>3. CASE CheckOrderLimit(o)
    BY <2>3 DEF CheckOrderLimit, orderVars, refundVars
  <2>4. CASE GuestReserveFails(o)
    BY <2>4 DEF GuestReserveFails, orderVars, refundVars
  <2>5. CASE Rollback(o)
    BY <2>5 DEF Rollback, orderVars, refundVars
  <2> QED
    BY <1>2, <2>1, <2>2, <2>3, <2>4, <2>5 DEF CheckoutStep
<1>3. ASSUME NEW o \in Orders, DeadlinePasses(o) \/ Cancel(o)
      PROVE  RowInv'
  BY <1>3 DEF DeadlinePasses, Cancel, checkoutVars, refundVars
<1>4. ASSUME NEW o \in Orders, RefundRead(o) \/ RefundWrite(o)
      PROVE  RowInv'
  BY <1>4 DEF RefundRead, RefundWrite, checkoutVars, orderVars
<1>5. ASSUME NEW S \in SUBSET Orders, ExpireOrders(S)
      PROVE  RowInv'
  BY <1>5 DEF ExpireOrders, Expirable, checkoutVars, refundVars
<1>6. ASSUME NEW p \in Payments, PaymentStep(p)
      PROVE  RowInv'
  <2>1. CASE UNCHANGED <<pc, orderStatus, refunders>>
    BY <2>1
  <2>2. CASE ApplyPaid(p)
    <3>1. /\ payOrder[p] \in Orders
          /\ UNCHANGED <<pc, refunders>>
      BY <2>2 DEF ApplyPaid, PaymentsNameOrders, checkoutVars, refundVars
    <3>2. \/ UNCHANGED orderStatus
          \/ /\ orderStatus[payOrder[p]] = "PENDING_PAYMENT"
             /\ orderStatus' = [orderStatus EXCEPT ![payOrder[p]] = "PAID"]
      BY <2>2 DEF ApplyPaid, SellOrder
    <3> QED
      BY <3>1, <3>2
  <2> QED
    BY <1>6, <2>1, <2>2 DEF PaymentStep, CreatePaymentRead, CreatePaymentInsert,
       CreatePaymentFails, ApplyUnpaid, checkoutVars, orderVars, refundVars
<1>7. ASSUME \/ \E u \in Users : LapseWinner(u)
             \/ \E v \in Winners, s \in {"WINNER", "WITHDRAWN"} : WriteBallotEntry(v, s)
             \/ \E c \in Capacities, m \in Limits : UpdateCategory(c, m)
             \/ UNCHANGED vars
      PROVE  RowInv'
  BY <1>7 DEF LapseWinner, WriteBallotEntry, UpdateCategory, checkoutVars, orderVars,
     refundVars, vars
<1> QED
  BY <1>1, <1>2, <1>3, <1>4, <1>5, <1>6, <1>7 DEF Next, OrderStep

\* The reservation follows the order's status through every step.
LEMMA SeatAgreementPreserved ==
    TypeOK /\ PaymentsNameOrders /\ RowInv /\ SeatAgreesWithOrder /\ [Next]_vars
        => SeatAgreesWithOrder'
<1> SUFFICES ASSUME TypeOK, PaymentsNameOrders, RowInv, SeatAgreesWithOrder,
                    [Next]_vars
             PROVE  SeatAgreesWithOrder'
  OBVIOUS
<1> USE DEF TypeOK, SeatAgreesWithOrder, OrderStatus, ReservationStatus
<1>1. CASE UNCHANGED <<orderStatus, reservation>>
  BY <1>1
<1>2. ASSUME NEW o \in Orders, CommitCheckout(o)
      PROVE  SeatAgreesWithOrder'
  BY <1>2 DEF CommitCheckout
<1>3. ASSUME NEW o \in Orders, Cancel(o)
      PROVE  SeatAgreesWithOrder'
  BY <1>3 DEF Cancel, Released
<1>4. ASSUME NEW o \in Orders, RefundWrite(o)
      PROVE  SeatAgreesWithOrder'
  BY <1>4 DEF RefundWrite, RowInv
<1>5. ASSUME NEW S \in SUBSET Orders, ExpireOrders(S)
      PROVE  SeatAgreesWithOrder'
  BY <1>5 DEF ExpireOrders, Expirable, Released
<1>6. ASSUME NEW p \in Payments, ApplyPaid(p)
      PROVE  SeatAgreesWithOrder'
  <2> DEFINE o == payOrder[p]
  <2>1. o \in Orders
    BY <1>6 DEF ApplyPaid, PaymentsNameOrders
  <2>2. CASE orderStatus[o] = "PENDING_PAYMENT"
    <3>1. /\ orderStatus' = [orderStatus EXCEPT ![o] = "PAID"]
          /\ reservation' = Released({o}, "COMPLETED")
      BY <1>6, <2>2 DEF ApplyPaid, SellOrder
    <3> QED
      BY <2>1, <2>2, <3>1 DEF Released
  <2>3. CASE orderStatus[o] # "PENDING_PAYMENT"
    BY <1>6, <2>3 DEF ApplyPaid, SellOrder
  <2> QED
    BY <2>2, <2>3
<1> QED
  BY <1>1, <1>2, <1>3, <1>4, <1>5, <1>6, QuietSteps

-----------------------------------------------------------------------------
(***************************************************************************)
(* The seats.                                                              *)
(***************************************************************************)

\* The five things a step can do to the seats.
SeatsUnchanged == UNCHANGED <<Held, Sold>>
SeatTaken(o) == /\ CommitCheckout(o)
                /\ o \notin Held \cup Sold
                /\ Held' = Held \cup {o} /\ UNCHANGED <<capacity, Sold>>
SeatSold(o) == /\ o \in Held /\ o \notin Sold
               /\ Held' = Held \ {o} /\ Sold' = Sold \cup {o} /\ UNCHANGED capacity
SeatsReleased(S) == /\ S # {} /\ S \subseteq Held
                    /\ Held' = Held \ S /\ UNCHANGED <<capacity, Sold>>
SeatRefunded(o) == /\ o \in Sold
                   /\ Sold' = Sold \ {o} /\ UNCHANGED <<capacity, Held>>

\* Every step does one of them.
LEMMA SeatSteps ==
    ASSUME TypeOK, PaymentsNameOrders, RowInv, SeatAgreesWithOrder, [Next]_vars
    PROVE  \/ SeatsUnchanged
           \/ \E o \in Orders : SeatTaken(o) \/ SeatSold(o) \/ SeatRefunded(o)
           \/ \E S \in SUBSET Orders : SeatsReleased(S)
<1> USE DEF TypeOK, SeatAgreesWithOrder, OrderStatus, ReservationStatus, Held, Sold
<1>1. CASE UNCHANGED <<orderStatus, reservation>>
  BY <1>1 DEF SeatsUnchanged
<1>2. ASSUME NEW o \in Orders, CommitCheckout(o)
      PROVE  SeatTaken(o)
  <2>1. orderStatus[o] = "NONE" /\ reservation[o] = "NONE"
    BY <1>2 DEF CommitCheckout, RowInv
  <2> QED
    BY <1>2, <2>1 DEF CommitCheckout, SeatTaken, categoryVars
<1>3. ASSUME NEW o \in Orders, Cancel(o)
      PROVE  SeatsReleased({o})
  BY <1>3 DEF Cancel, Released, SeatsReleased, categoryVars
<1>4. ASSUME NEW o \in Orders, RefundWrite(o)
      PROVE  SeatsUnchanged \/ SeatRefunded(o)
  <2>1. /\ orderStatus[o] \in {"PAID", "REFUNDED"}
        /\ orderStatus' = [orderStatus EXCEPT ![o] = "REFUNDED"]
        /\ UNCHANGED <<capacity, reservation>>
    BY <1>4 DEF RefundWrite, RowInv, categoryVars
  <2> QED
    BY <2>1 DEF SeatsUnchanged, SeatRefunded
<1>5. ASSUME NEW S \in SUBSET Orders, ExpireOrders(S)
      PROVE  SeatsReleased(S)
  BY <1>5 DEF ExpireOrders, Expirable, Released, SeatsReleased, categoryVars
<1>6. ASSUME NEW p \in Payments, ApplyPaid(p)
      PROVE  SeatsUnchanged \/ SeatSold(payOrder[p])
  <2> DEFINE o == payOrder[p]
  <2>1. o \in Orders /\ UNCHANGED capacity
    BY <1>6 DEF ApplyPaid, PaymentsNameOrders, categoryVars
  <2>2. CASE orderStatus[o] = "PENDING_PAYMENT"
    <3>1. /\ orderStatus' = [orderStatus EXCEPT ![o] = "PAID"]
          /\ reservation' = Released({o}, "COMPLETED")
      BY <1>6, <2>2 DEF ApplyPaid, SellOrder
    <3> QED
      BY <2>1, <2>2, <3>1 DEF Released, SeatSold
  <2>3. CASE orderStatus[o] # "PENDING_PAYMENT"
    BY <1>6, <2>3 DEF ApplyPaid, SellOrder, SeatsUnchanged
  <2> QED
    BY <2>2, <2>3
<1>7. \A p \in Payments : ApplyPaid(p) => payOrder[p] \in Orders
  BY DEF ApplyPaid, PaymentsNameOrders
<1>8. \A o \in Orders : {o} \in SUBSET Orders
  OBVIOUS
<1> HIDE DEF TypeOK, SeatAgreesWithOrder, OrderStatus, ReservationStatus, Held, Sold
<1> QED
  BY <1>1, <1>2, <1>3, <1>4, <1>5, <1>6, <1>7, <1>8, QuietSteps

\* Only a commit of a checkout takes a seat: any other step leaves no more
\* seats held, and no more seats held or sold, than there were.
LEMMA SeatsOnlyShrink ==
    ASSUME TypeOK,
           \/ SeatsUnchanged
           \/ \E o \in Orders : SeatSold(o) \/ SeatRefunded(o)
           \/ \E S \in SUBSET Orders : SeatsReleased(S)
    PROVE  /\ Cardinality(Held') <= Cardinality(Held)
           /\ Taken' <= Taken
<1> USE CountsAreNaturals DEF Taken
<1>1. CASE SeatsUnchanged
  BY <1>1 DEF SeatsUnchanged
<1>2. ASSUME NEW o \in Orders, SeatSold(o)
      PROVE  /\ Cardinality(Held') <= Cardinality(Held)
             /\ Taken' <= Taken
  <2>1. Cardinality(Held') = Cardinality(Held) - 1
    BY <1>2, FS_RemoveElement DEF SeatSold
  <2>2. Cardinality(Sold') = Cardinality(Sold) + 1
    BY <1>2, FS_AddElement DEF SeatSold
  <2> QED
    BY <2>1, <2>2
<1>3. ASSUME NEW o \in Orders, SeatRefunded(o)
      PROVE  /\ Cardinality(Held') <= Cardinality(Held)
             /\ Taken' <= Taken
  <2>1. Cardinality(Sold') = Cardinality(Sold) - 1
    BY <1>3, FS_RemoveElement DEF SeatRefunded
  <2> QED
    BY <1>3, <2>1 DEF SeatRefunded
<1>4. ASSUME NEW S \in SUBSET Orders, SeatsReleased(S)
      PROVE  /\ Cardinality(Held') <= Cardinality(Held)
             /\ Taken' <= Taken
  <2>1. Held' \subseteq Held
    BY <1>4 DEF SeatsReleased
  <2>2. Cardinality(Held') <= Cardinality(Held) /\ Cardinality(Held') \in Nat
    BY <2>1, FS_Subset, FS_CardinalityType
  <2> QED
    BY <1>4, <2>2 DEF SeatsReleased
<1> QED
  BY <1>1, <1>2, <1>3, <1>4

-----------------------------------------------------------------------------
(***************************************************************************)
(* What the holder of the lock may rely on.                                *)
(***************************************************************************)

\* A step of somebody else, or of a checkout that has not got the lock, leaves
\* the capacity alone while a checkout has the lock.
LEMMA CapacityUnderLock ==
    ASSUME [Next]_vars, catLock # NoOrder
    PROVE  UNCHANGED capacity
<1>1. ASSUME NEW o \in Orders, OrderStep(o)
      PROVE  UNCHANGED capacity
  BY <1>1 DEF OrderStep, CheckoutStep, LockCategory, CheckCapacity, CheckOrderLimit,
     CommitCheckout, GuestReserveFails, Rollback, DeadlinePasses, Cancel,
     RefundRead, RefundWrite, categoryVars
<1>2. ASSUME NEW p \in Payments, PaymentStep(p)
      PROVE  UNCHANGED capacity
  BY <1>2 DEF PaymentStep, CreatePaymentRead, CreatePaymentInsert,
     CreatePaymentFails, ApplyPaid, ApplyUnpaid, categoryVars
<1>3. ASSUME \/ \E S \in SUBSET Orders : ExpireOrders(S)
             \/ \E u \in Users : LapseWinner(u)
             \/ \E v \in Winners, s \in {"WINNER", "WITHDRAWN"} : WriteBallotEntry(v, s)
             \/ UNCHANGED vars
      PROVE  UNCHANGED capacity
  BY <1>3 DEF ExpireOrders, LapseWinner, WriteBallotEntry, categoryVars, vars
<1> QED
  BY <1>1, <1>2, <1>3 DEF Next, UpdateCategory

\* What a checkout's program counter and count may become in a step.
LEMMA CheckoutProgress ==
    ASSUME TypeOK, [Next]_vars, NEW o \in Orders
    PROVE  \/ UNCHANGED <<pc[o], seen[o]>>
           \/ pc'[o] = "counted" /\ seen'[o] = Cardinality(Held)
                /\ UNCHANGED <<orderStatus, reservation>>
           \/ pc[o] = "counted" /\ pc'[o] = "admitted" /\ UNCHANGED <<orderStatus, reservation>>
                /\ Remaining(seen[o], Cardinality(Sold)) > 0
           \/ pc[o] = "admitted" /\ pc'[o] = "limited" /\ UNCHANGED <<orderStatus, reservation>>
           \/ pc'[o] \in {"idle", "committed", "dbError"}
<1> USE DEF TypeOK, CheckoutPC, InTx
<1>1. ASSUME NEW q \in Orders, NEW b \in Users \cup Guests,
             NEW t \in Grants \cup {NoToken}, LockCategory(q, b, t)
      PROVE  \/ UNCHANGED <<pc[o], seen[o]>>
             \/ pc'[o] = "counted" /\ seen'[o] = Cardinality(Held)
                  /\ UNCHANGED <<orderStatus, reservation>>
  BY <1>1 DEF LockCategory, Counts, orderVars
<1>2. ASSUME NEW q \in Orders, CheckCapacity(q)
      PROVE  \/ UNCHANGED <<pc[o], seen[o]>>
             \/ pc[o] = "counted" /\ pc'[o] = "admitted" /\ UNCHANGED <<orderStatus, reservation>>
                  /\ Remaining(seen[o], Cardinality(Sold)) > 0
  BY <1>2 DEF CheckCapacity, Counts, orderVars
<1>3. ASSUME NEW q \in Orders, CheckOrderLimit(q)
      PROVE  \/ UNCHANGED <<pc[o], seen[o]>>
             \/ pc[o] = "admitted" /\ pc'[o] = "limited" /\ UNCHANGED <<orderStatus, reservation>>
  BY <1>3 DEF CheckOrderLimit, orderVars
<1>4. ASSUME NEW q \in Orders, CommitCheckout(q) \/ GuestReserveFails(q) \/ Rollback(q)
      PROVE  \/ UNCHANGED <<pc[o], seen[o]>>
             \/ pc'[o] \in {"idle", "committed", "dbError"}
  BY <1>4 DEF CommitCheckout, GuestReserveFails, Rollback, Forget
<1>5. ASSUME NEW q \in Orders,
             DeadlinePasses(q) \/ Cancel(q) \/ RefundRead(q) \/ RefundWrite(q)
      PROVE  UNCHANGED <<pc[o], seen[o]>>
  BY <1>5 DEF DeadlinePasses, Cancel, RefundRead, RefundWrite, checkoutVars
<1>6. ASSUME NEW p \in Payments, PaymentStep(p)
      PROVE  UNCHANGED <<pc[o], seen[o]>>
  BY <1>6 DEF PaymentStep, CreatePaymentRead, CreatePaymentInsert,
     CreatePaymentFails, ApplyPaid, ApplyUnpaid, checkoutVars
<1>7. ASSUME \/ \E S \in SUBSET Orders : ExpireOrders(S)
             \/ \E u \in Users : LapseWinner(u)
             \/ \E v \in Winners, s \in {"WINNER", "WITHDRAWN"} : WriteBallotEntry(v, s)
             \/ \E c \in Capacities, m \in Limits : UpdateCategory(c, m)
             \/ UNCHANGED vars
      PROVE  UNCHANGED <<pc[o], seen[o]>>
  BY <1>7 DEF ExpireOrders, LapseWinner, WriteBallotEntry, UpdateCategory, checkoutVars, vars
<1> HIDE DEF TypeOK, CheckoutPC, InTx
<1> QED
  BY <1>1, <1>2, <1>3, <1>4, <1>5, <1>6, <1>7 DEF Next, OrderStep, CheckoutStep

\* The count of holds stays an upper bound, and an admitted checkout keeps its
\* seat: whoever else commits has not got the lock, so takes no seat.
LEMMA AdmissionPreserved ==
    IInv /\ [Next]_vars => AdmissionInv'
<1> SUFFICES ASSUME IInv, [Next]_vars, NEW o \in Orders,
                    pc'[o] \in InTx
             PROVE  /\ pc'[o] = "counted" => Cardinality(Held') <= seen'[o]
                    /\ pc'[o] \in {"admitted", "limited"} => Taken' < capacity'
  BY DEF AdmissionInv, InTx
<1>1. TypeOK' /\ LockInv' /\ TypeOK /\ AdmissionInv /\ LockInv
  BY TypesPreserved, LockPreserved DEF IInv
<1>2. /\ Cardinality(Held) \in Nat /\ Cardinality(Sold) \in Nat
      /\ Cardinality(Held') \in Nat /\ Cardinality(Sold') \in Nat
      /\ capacity \in Nat /\ capacity' \in Nat /\ seen[o] \in Nat
  <2>1. IsFiniteSet(Held') /\ IsFiniteSet(Sold')
    BY OrdersAssumption, FS_Subset DEF Held, Sold
  <2> QED
    BY <1>1, <2>1, FS_CardinalityType, CountsAreNaturals, CategoryAssumption DEF TypeOK
<1>3. CASE UNCHANGED <<orderStatus, reservation>> /\ ~ UNCHANGED <<pc[o], seen[o]>>
  <2>1. UNCHANGED <<Held, Sold, Taken>>
    BY <1>3 DEF Held, Sold, Taken
  <2>2. pc[o] \in InTx => UNCHANGED capacity
    BY <1>1, CapacityUnderLock, OrdersAssumption DEF LockInv
  <2> QED
    BY <1>1, <1>2, <1>3, <2>1, <2>2, CheckoutProgress
       DEF AdmissionInv, Remaining, Taken, InTx
<1>4. CASE UNCHANGED <<pc[o], seen[o]>>
  <2>1. catLock = o /\ UNCHANGED capacity
    BY <1>1, <1>4, CapacityUnderLock, OrdersAssumption DEF LockInv, TypeOK
  <2>2. ASSUME NEW q \in Orders, CommitCheckout(q)
        PROVE  FALSE
    <3>1. pc[q] = "limited" /\ catLock' = NoOrder
      BY <2>2 DEF CommitCheckout
    <3> QED
      BY <1>1, <3>1, OrdersAssumption DEF LockInv
  <2>3. /\ Cardinality(Held') <= Cardinality(Held)
        /\ Taken' <= Taken
    BY <2>2, SeatSteps, SeatsOnlyShrink DEF IInv, SeatTaken
  <2>4. Taken \in Nat /\ Taken' \in Nat
    BY <1>2 DEF Taken
  <2> QED
    BY <1>1, <1>2, <1>4, <2>1, <2>3, <2>4 DEF AdmissionInv
<1> QED
  BY <1>1, <1>3, <1>4, CheckoutProgress DEF InTx

-----------------------------------------------------------------------------
(***************************************************************************)
(* The theorems.                                                           *)
(***************************************************************************)

\* Every conjunct of IInv, so every fact the arguments above use, holds in
\* every reachable state.
THEOREM InductiveInvariant == Spec => []IInv
<1>1. Init => IInv
  <2> SUFFICES ASSUME Init
               PROVE  IInv
    OBVIOUS
  <2>1. TypeOK /\ PaymentsNameOrders
    BY DEF Init, TypeOK, PaymentsNameOrders, CheckoutPC, InTx, OrderStatus,
       ReservationStatus, PaymentStatus, EntryStatus
  <2>2. LockInv /\ RowInv /\ AdmissionInv
    BY OrdersAssumption DEF Init, LockInv, RowInv, AdmissionInv, InTx
  <2>3. SeatAgreesWithOrder
    BY DEF Init, SeatAgreesWithOrder
  <2> QED
    BY <2>1, <2>2, <2>3 DEF IInv
<1>2. IInv /\ [Next]_vars => IInv'
  BY TypesPreserved, LockPreserved, RowsPreserved, SeatAgreementPreserved,
     AdmissionPreserved DEF IInv
<1> QED
  BY <1>1, <1>2, PTL DEF Spec

\* The reservation of an order is ACTIVE, COMPLETED, EXPIRED or RELEASED exactly
\* as the order's status says, however payment, cancellation, expiry and refund
\* interleave.
THEOREM SeatsAgree == Spec => []SeatAgreesWithOrder
BY InductiveInvariant, PTL DEF IInv

\* A seat is taken only within the capacity of that moment.
THEOREM NeverOversold == Spec => NoOversell
<1>1. IInv /\ [Next]_vars => [Taken' > Taken => Taken' <= capacity]_vars
  <2> SUFFICES ASSUME IInv, [Next]_vars, Taken' > Taken
               PROVE  Taken' <= capacity
    OBVIOUS
  <2>1. /\ Cardinality(Held) \in Nat /\ Cardinality(Sold) \in Nat
        /\ Taken \in Nat /\ capacity \in Nat
    BY CountsAreNaturals, CategoryAssumption DEF IInv, TypeOK, Taken
  <2>2. CASE \E o \in Orders : SeatTaken(o)
    <3>1. PICK o \in Orders : SeatTaken(o)
      BY <2>2
    <3>2. Taken < capacity
      BY <3>1 DEF IInv, AdmissionInv, SeatTaken, CommitCheckout
    <3>3. Cardinality(Held') = Cardinality(Held) + 1
      BY <3>1, FS_AddElement, CountsAreNaturals DEF IInv, SeatTaken
    <3>4. Taken' = Taken + 1
      BY <2>1, <3>1, <3>3 DEF SeatTaken, Taken
    <3> QED
      BY <2>1, <3>2, <3>4
  <2>3. CASE ~ \E o \in Orders : SeatTaken(o)
    <3>1. Taken' <= Taken
      BY <2>3, SeatSteps, SeatsOnlyShrink DEF IInv
    <3>2. IsFiniteSet(Held') /\ IsFiniteSet(Sold')
      BY OrdersAssumption, FS_Subset DEF Held, Sold
    <3>3. Taken' \in Nat
      BY <3>2, FS_CardinalityType DEF Taken
    <3> QED
      BY <2>1, <3>1, <3>3
  <2> QED
    BY <2>2, <2>3
<1> QED
  BY <1>1, InductiveInvariant, PTL DEF Spec, NoOversell

\* A closed order stays closed, and a paid one is never cancelled or expired.
THEOREM ClosedForGood == Spec => ClosedOrdersStayClosed
<1> DEFINE Step == \A o \in Orders :
        /\ orderStatus[o] \in {"EXPIRED", "CANCELLED", "REFUNDED"}
                => orderStatus'[o] = orderStatus[o]
        /\ orderStatus[o] = "PAID" => orderStatus'[o] \in {"PAID", "REFUNDED"}
<1>1. IInv /\ [Next]_vars => [Step]_vars
  <2> SUFFICES ASSUME IInv, [Next]_vars
               PROVE  Step
    OBVIOUS
  <2> USE DEF IInv, TypeOK, RowInv
  <2>1. CASE UNCHANGED <<orderStatus, reservation>>
    BY <2>1
  <2>2. ASSUME NEW o \in Orders, CommitCheckout(o) \/ Cancel(o) \/ RefundWrite(o)
        PROVE  Step
    BY <2>2 DEF CommitCheckout, Cancel, RefundWrite
  <2>3. ASSUME NEW S \in SUBSET Orders, ExpireOrders(S)
        PROVE  Step
    BY <2>3 DEF ExpireOrders, Expirable
  <2>4. ASSUME NEW p \in Payments, ApplyPaid(p)
        PROVE  Step
    BY <2>4 DEF ApplyPaid, SellOrder
  <2> QED
    BY <2>1, <2>2, <2>3, <2>4, QuietSteps
<1> QED
  BY <1>1, InductiveInvariant, PTL DEF Spec, ClosedOrdersStayClosed

\* The orders, reservations and locks of the code implement the seat ledger:
\* every step holds, sells, releases or refunds a seat the way the ledger
\* allows, changes the capacity, or is invisible to it.
THEOREM LedgerImplemented == Spec => ImplementsLedger
<1>1. Init => Ledger!Init
  BY DEF Init, Ledger!Init, Held, Sold
<1>2. IInv /\ [Next]_vars => [Ledger!Next]_(Ledger!vars)
  <2> SUFFICES ASSUME IInv, [Next]_vars
               PROVE  Ledger!Next \/ UNCHANGED Ledger!vars
    OBVIOUS
  <2>1. CASE SeatsUnchanged
    <3>1. capacity' \in Capacities
      BY TypesPreserved DEF IInv, TypeOK
    <3> QED
      BY <2>1, <3>1 DEF SeatsUnchanged, Ledger!Next, Ledger!Resize
  <2>2. ASSUME NEW o \in Orders, SeatTaken(o)
        PROVE  Ledger!Hold(o)
    <3>1. Taken < capacity
      BY <2>2 DEF IInv, AdmissionInv, SeatTaken, CommitCheckout
    <3>2. Ledger!Taken < capacity
      BY <3>1, Zenon DEF Ledger!Taken, Taken, Ledger!Cardinality, Cardinality
    <3> QED
      BY <2>2, <3>2 DEF SeatTaken, Ledger!Hold
  <2>3. ASSUME NEW o \in Orders, SeatSold(o)
        PROVE  Ledger!Sell(o)
    BY <2>3 DEF SeatSold, Ledger!Sell
  <2>4. ASSUME NEW o \in Orders, SeatRefunded(o)
        PROVE  Ledger!Refund(o)
    BY <2>4 DEF SeatRefunded, Ledger!Refund
  <2>5. ASSUME NEW S \in SUBSET Orders, SeatsReleased(S)
        PROVE  Ledger!Release(S)
    BY <2>5 DEF SeatsReleased, Ledger!Release
  <2> QED
    BY <2>1, <2>2, <2>3, <2>4, <2>5, SeatSteps DEF IInv, Ledger!Next
<1>3. Spec => Ledger!Init /\ [][Ledger!Next]_(Ledger!vars)
  BY <1>1, <1>2, InductiveInvariant, PTL DEF Spec
<1> QED
  BY <1>3 DEF ImplementsLedger, Ledger!Spec

-----------------------------------------------------------------------------
(***************************************************************************)
(* Sales, payments, grants and ballot winners: what IInv does not say but  *)
(* each step keeps, given IInv.                                            *)
(***************************************************************************)

\* A payment is of an order that has a row.
PaymentsHaveRows ==
    \A p \in Payments : payStatus[p] # "NONE" => orderStatus[payOrder[p]] # "NONE"

\* An entry that no write of the ballot module has replaced can be, or is, converted.
WinnersHaveEntries ==
    \A u \in Winners \ overwritten : winner[u] \in {"WINNER", "LAPSED", "CONVERTED"}

SaleInv == /\ PaymentsHaveRows /\ SaleIsWhole /\ OneActivePayment
           /\ GrantAdmitsOnce /\ WinnersHaveEntries /\ PaidWinnerConverted

\* The steps that write none of the rows a sale consists of.
LEMMA StepsOutsideSales ==
    ASSUME NEW o \in Orders,
           CheckCapacity(o) \/ CheckOrderLimit(o) \/ GuestReserveFails(o) \/ DeadlinePasses(o)
             \/ RefundRead(o)
    PROVE  UNCHANGED <<buyer, token, orderStatus, payStatus, payOrder, ticketed, feeCharged,
                       grantStatus, grantOrder, winner, overwritten>>
BY DEF CheckCapacity, CheckOrderLimit, GuestReserveFails, DeadlinePasses, RefundRead,
       checkoutVars, orderVars, paymentVars, saleVars, grantVars, ballotVars

\* What is left to show of each kind of step.
LEMMA StepKinds ==
    ASSUME [Next]_vars
    PROVE  \/ \E o \in Orders :
                \/ \E b \in Users \cup Guests, t \in Grants \cup {NoToken} :
                        LockCategory(o, b, t)
                \/ CheckCapacity(o) \/ CheckOrderLimit(o) \/ CommitCheckout(o)
                \/ GuestReserveFails(o) \/ Rollback(o) \/ DeadlinePasses(o)
                \/ Cancel(o) \/ RefundRead(o) \/ RefundWrite(o)
           \/ \E p \in Payments :
                \/ \E o \in Orders : CreatePaymentRead(p, o)
                \/ CreatePaymentInsert(p) \/ CreatePaymentFails(p) \/ ApplyPaid(p)
                \/ \E result \in {"EXPIRED", "FAILED"} : ApplyUnpaid(p, result)
           \/ \E S \in SUBSET Orders : ExpireOrders(S)
           \/ \E u \in Users : LapseWinner(u)
           \/ \E v \in Winners, s \in {"WINNER", "WITHDRAWN"} : WriteBallotEntry(v, s)
           \/ \E c \in Capacities, m \in Limits : UpdateCategory(c, m)
           \/ UNCHANGED vars
BY Zenon DEF Next, OrderStep, CheckoutStep, PaymentStep

\* The rows of sales: what a step does to an order's status and to its payments.
LEMMA SalesPreserved ==
    ASSUME IInv, PaymentsHaveRows, SaleIsWhole, [Next]_vars
    PROVE  PaymentsHaveRows' /\ SaleIsWhole'
<1> DEFINE Whole == PaymentsHaveRows' /\ SaleIsWhole'
<1>1. TypeOK /\ PaymentsNameOrders
  BY DEF IInv
<1>2. CASE UNCHANGED <<orderStatus, payStatus, payOrder, ticketed, feeCharged>>
  BY <1>2 DEF PaymentsHaveRows, SaleIsWhole
<1>3. ASSUME NEW o \in Orders, CommitCheckout(o) PROVE Whole
  <2>1. orderStatus[o] = "NONE"
    BY <1>3 DEF IInv, RowInv, CommitCheckout
  <2>2. /\ orderStatus' = [orderStatus EXCEPT ![o] = "PENDING_PAYMENT"]
        /\ UNCHANGED <<payStatus, payOrder, ticketed, feeCharged>>
    BY <1>3 DEF CommitCheckout, paymentVars, saleVars
  <2> QED
    BY <1>1, <2>1, <2>2 DEF TypeOK, PaymentsNameOrders, PaymentsHaveRows, SaleIsWhole
<1>4. ASSUME NEW o \in Orders, Cancel(o) PROVE Whole
  <2>1. /\ orderStatus[o] = "PENDING_PAYMENT"
        /\ orderStatus' = [orderStatus EXCEPT ![o] = "CANCELLED"]
        /\ UNCHANGED <<payStatus, payOrder, ticketed, feeCharged>>
    BY <1>4 DEF Cancel, paymentVars, saleVars
  <2> QED
    BY <1>1, <2>1 DEF TypeOK, PaymentsNameOrders, PaymentsHaveRows, SaleIsWhole
<1>5. ASSUME NEW o \in Orders, RefundWrite(o) PROVE Whole
  <2>1. /\ orderStatus[o] \in {"PAID", "REFUNDED"}
        /\ orderStatus' = [orderStatus EXCEPT ![o] = "REFUNDED"]
        /\ UNCHANGED <<payStatus, payOrder, ticketed, feeCharged>>
    BY <1>5 DEF IInv, RowInv, RefundWrite, paymentVars, saleVars
  <2> QED
    BY <1>1, <2>1 DEF TypeOK, PaymentsNameOrders, PaymentsHaveRows, SaleIsWhole
<1>6. ASSUME NEW S \in SUBSET Orders, ExpireOrders(S) PROVE Whole
  <2>1. /\ \A o \in S : orderStatus[o] = "PENDING_PAYMENT"
        /\ orderStatus' = [o \in Orders |-> IF o \in S THEN "EXPIRED" ELSE orderStatus[o]]
        /\ UNCHANGED <<payStatus, payOrder, ticketed, feeCharged>>
    BY <1>6 DEF ExpireOrders, Expirable, paymentVars, saleVars
  <2> QED
    BY <1>1, <2>1 DEF TypeOK, PaymentsNameOrders, PaymentsHaveRows, SaleIsWhole
<1>7. ASSUME NEW p \in Payments, ApplyPaid(p) PROVE Whole
  <2> DEFINE o == payOrder[p]
  <2>1. /\ o \in Orders /\ payStatus[p] = "PENDING"
        /\ payStatus' = [payStatus EXCEPT ![p] = "PAID"] /\ payOrder' = payOrder
    BY <1>1, <1>7 DEF PaymentsNameOrders, ApplyPaid
  <2>2. CASE orderStatus[o] = "PENDING_PAYMENT"
    <3>1. /\ orderStatus' = [orderStatus EXCEPT ![o] = "PAID"]
          /\ ticketed' = ticketed \cup {o} /\ feeCharged' = feeCharged \cup {o}
      BY <1>7, <2>2 DEF ApplyPaid, SellOrder
    <3>2. PaymentsHaveRows'
      BY <1>1, <2>1, <3>1 DEF TypeOK, PaymentsNameOrders, PaymentsHaveRows
    <3>3. SaleIsWhole'
      BY <1>1, <2>1, <3>1 DEF TypeOK, PaymentsNameOrders, SaleIsWhole
    <3> QED
      BY <3>2, <3>3
  <2>3. CASE orderStatus[o] # "PENDING_PAYMENT"
    <3>1. UNCHANGED <<orderStatus, ticketed, feeCharged>>
      BY <1>7, <2>3 DEF ApplyPaid, SellOrder, saleVars
    <3> QED
      BY <1>1, <2>1, <2>3, <3>1 DEF TypeOK, PaymentsHaveRows, SaleIsWhole
  <2> QED
    BY <2>2, <2>3
\* The other steps of a payment pay nothing.
<1>8. ASSUME NEW p \in Payments, NEW o \in Orders, CreatePaymentRead(p, o) PROVE Whole
  <2>1. /\ orderStatus[o] = "PENDING_PAYMENT" /\ payStatus[p] = "NONE"
        /\ payStatus' = [payStatus EXCEPT ![p] = "READ"]
        /\ payOrder' = [payOrder EXCEPT ![p] = o]
        /\ UNCHANGED <<orderStatus, ticketed, feeCharged>>
    BY <1>8 DEF CreatePaymentRead, orderVars, saleVars
  <2> QED
    BY <1>1, <2>1 DEF TypeOK, PaymentsHaveRows, SaleIsWhole
<1>9. ASSUME NEW p \in Payments,
             \/ CreatePaymentInsert(p) \/ CreatePaymentFails(p)
             \/ \E result \in {"EXPIRED", "FAILED"} : ApplyUnpaid(p, result)
      PROVE  Whole
  <2>1. PICK s \in {"REFUSED", "PENDING", "EXPIRED", "FAILED"} :
          payStatus' = [payStatus EXCEPT ![p] = s]
    BY <1>9 DEF CreatePaymentInsert, CreatePaymentFails, ApplyUnpaid
  <2>2. payStatus[p] \in {"READ", "PENDING"}
    BY <1>9 DEF CreatePaymentInsert, CreatePaymentFails, ApplyUnpaid
  <2>3. UNCHANGED <<payOrder, orderStatus, ticketed, feeCharged>>
    BY <1>9 DEF CreatePaymentInsert, CreatePaymentFails, ApplyUnpaid, orderVars, saleVars
  <2> QED
    BY <1>1, <2>1, <2>2, <2>3 DEF TypeOK, PaymentsHaveRows, SaleIsWhole
<1>10. CASE \E o \in Orders :
             (\E b \in Users \cup Guests, t \in Grants \cup {NoToken} : LockCategory(o, b, t))
               \/ Rollback(o)
  BY <1>2, <1>10 DEF LockCategory, Rollback, orderVars, paymentVars, saleVars
<1>11. CASE \/ \E u \in Users : LapseWinner(u)
            \/ \E v \in Winners, s \in {"WINNER", "WITHDRAWN"} : WriteBallotEntry(v, s)
            \/ \E c \in Capacities, m \in Limits : UpdateCategory(c, m)
            \/ UNCHANGED vars
  BY <1>2, <1>11 DEF LapseWinner, WriteBallotEntry, UpdateCategory, vars, orderVars,
     paymentVars, saleVars
<1> QED
  BY <1>2, <1>3, <1>4, <1>5, <1>6, <1>7, <1>8, <1>9, <1>10, <1>11, StepsOutsideSales,
     StepKinds

\* The index on an order's PENDING or PAID payment.
LEMMA OneActivePreserved ==
    ASSUME IInv, OneActivePayment, [Next]_vars PROVE OneActivePayment'
<1> DEFINE Active(x) == payStatus[x] \in {"PENDING", "PAID"}
<1>1. TypeOK
  BY DEF IInv
<1>2. CASE UNCHANGED <<payStatus, payOrder>>
  BY <1>2 DEF OneActivePayment
<1>3. ASSUME NEW p \in Payments, CreatePaymentInsert(p) PROVE OneActivePayment'
  <2>1. /\ UNCHANGED payOrder
        /\ \/ payStatus' = [payStatus EXCEPT ![p] = "REFUSED"]
           \/ /\ payStatus' = [payStatus EXCEPT ![p] = "PENDING"]
              /\ \A q \in Payments : payOrder[q] = payOrder[p] => ~Active(q)
    BY <1>3 DEF CreatePaymentInsert, HasActivePayment
  <2> QED
    BY <1>1, <2>1 DEF TypeOK, OneActivePayment
<1>4. ASSUME NEW p \in Payments, ApplyPaid(p) PROVE OneActivePayment'
  BY <1>1, <1>4 DEF ApplyPaid, TypeOK, OneActivePayment
<1>5. ASSUME NEW p \in Payments,
             \/ \E o \in Orders : CreatePaymentRead(p, o)
             \/ CreatePaymentFails(p)
             \/ \E result \in {"EXPIRED", "FAILED"} : ApplyUnpaid(p, result)
      PROVE  OneActivePayment'
  <2>1. /\ \A q \in Payments \ {p} : payStatus'[q] = payStatus[q] /\ payOrder'[q] = payOrder[q]
        /\ payStatus'[p] \in {"READ", "REFUSED", "EXPIRED", "FAILED"}
    BY <1>1, <1>5 DEF TypeOK, CreatePaymentRead, CreatePaymentFails, ApplyUnpaid
  <2> QED
    BY <2>1 DEF OneActivePayment
<1>6. CASE \E o \in Orders :
            \/ \E b \in Users \cup Guests, t \in Grants \cup {NoToken} : LockCategory(o, b, t)
            \/ CommitCheckout(o) \/ Rollback(o) \/ Cancel(o) \/ RefundWrite(o)
  BY <1>2, <1>6 DEF LockCategory, CommitCheckout, Rollback, Cancel, RefundWrite, paymentVars
<1>7. CASE \/ \E S \in SUBSET Orders : ExpireOrders(S)
           \/ \E u \in Users : LapseWinner(u)
           \/ \E v \in Winners, s \in {"WINNER", "WITHDRAWN"} : WriteBallotEntry(v, s)
           \/ \E c \in Capacities, m \in Limits : UpdateCategory(c, m)
           \/ UNCHANGED vars
  BY <1>2, <1>7 DEF ExpireOrders, LapseWinner, WriteBallotEntry, UpdateCategory, vars, paymentVars
<1> QED
  BY <1>2, <1>3, <1>4, <1>5, <1>6, <1>7, StepsOutsideSales, StepKinds

\* A grant is consumed by the commit of its one order, and neither changes again.
LEMMA GrantsPreserved ==
    ASSUME IInv, GrantAdmitsOnce, [Next]_vars PROVE GrantAdmitsOnce'
<1>1. TypeOK
  BY DEF IInv
<1>2. ASSUME UNCHANGED <<grantStatus, grantOrder>>,
             \A x \in Orders : pc[x] = "committed" <=> pc'[x] = "committed",
             \A x \in Orders : pc[x] = "committed" =>
                buyer'[x] = buyer[x] /\ token'[x] = token[x]
      PROVE  GrantAdmitsOnce'
  BY <1>2 DEF GrantAdmitsOnce
<1>3. ASSUME NEW o \in Orders, CommitCheckout(o) PROVE GrantAdmitsOnce'
  <2>1. /\ pc' = [pc EXCEPT ![o] = "committed"] /\ pc[o] = "limited"
        /\ UNCHANGED <<buyer, token>>
    BY <1>3 DEF CommitCheckout
  <2>2. CASE token[o] \in Grants
    <3>1. /\ grantStatus' = [grantStatus EXCEPT ![token[o]] = "CONSUMED"]
          /\ grantOrder' = [grantOrder EXCEPT ![token[o]] = o]
          /\ GrantOwner[token[o]] = buyer[o] /\ grantStatus[token[o]] = "ACTIVE"
      BY <1>3, <2>2 DEF CommitCheckout, ConsumeGrant, GrantUsable
    <3> QED
      BY <1>1, <2>1, <2>2, <3>1 DEF TypeOK, GrantAdmitsOnce
  <2>3. CASE token[o] \notin Grants
    <3>1. UNCHANGED <<grantStatus, grantOrder>>
      BY <1>3, <2>3 DEF CommitCheckout, ConsumeGrant, grantVars
    <3> QED
      BY <1>1, <2>1, <2>3, <3>1 DEF TypeOK, GrantAdmitsOnce
  <2> QED
    BY <2>2, <2>3
<1>4. ASSUME NEW o \in Orders, NEW b \in Users \cup Guests, NEW t \in Grants \cup {NoToken},
             LockCategory(o, b, t)
      PROVE  GrantAdmitsOnce'
  BY <1>1, <1>2, <1>4 DEF TypeOK, LockCategory, grantVars
<1>5. ASSUME NEW o \in Orders, Rollback(o) PROVE GrantAdmitsOnce'
  BY <1>1, <1>2, <1>5 DEF TypeOK, Rollback, Forget, InTx, grantVars
<1>6. ASSUME NEW o \in Orders, CheckCapacity(o) \/ CheckOrderLimit(o) \/ GuestReserveFails(o)
      PROVE  GrantAdmitsOnce'
  BY <1>1, <1>2, <1>6
  DEF TypeOK, CheckCapacity, CheckOrderLimit, GuestReserveFails, grantVars
<1>7. CASE UNCHANGED <<pc, buyer, token, grantStatus, grantOrder>>
  BY <1>2, <1>7
<1>8. CASE \E o \in Orders : DeadlinePasses(o) \/ Cancel(o) \/ RefundRead(o) \/ RefundWrite(o)
  BY <1>7, <1>8 DEF DeadlinePasses, Cancel, RefundRead, RefundWrite, checkoutVars, grantVars
<1>9. ASSUME NEW p \in Payments,
             \/ \E o \in Orders : CreatePaymentRead(p, o)
             \/ CreatePaymentInsert(p) \/ CreatePaymentFails(p) \/ ApplyPaid(p)
             \/ \E result \in {"EXPIRED", "FAILED"} : ApplyUnpaid(p, result)
      PROVE  GrantAdmitsOnce'
  BY <1>7, <1>9 DEF CreatePaymentRead, CreatePaymentInsert, CreatePaymentFails, ApplyPaid,
                    ApplyUnpaid, checkoutVars, grantVars
<1>10. CASE \/ \E S \in SUBSET Orders : ExpireOrders(S)
            \/ \E u \in Users : LapseWinner(u)
            \/ \E v \in Winners, s \in {"WINNER", "WITHDRAWN"} : WriteBallotEntry(v, s)
            \/ \E c \in Capacities, m \in Limits : UpdateCategory(c, m)
            \/ UNCHANGED vars
  BY <1>7, <1>10 DEF ExpireOrders, LapseWinner, WriteBallotEntry, UpdateCategory, vars,
     checkoutVars, grantVars
<1> QED
  BY <1>3, <1>4, <1>5, <1>6, <1>8, <1>9, <1>10, StepKinds

\* The ballot entries: a payment converts them, and only the ballot module takes that back.
LEMMA WinnersPreserved ==
    ASSUME IInv, WinnersHaveEntries, PaidWinnerConverted, [Next]_vars
    PROVE  WinnersHaveEntries' /\ PaidWinnerConverted'
<1> DEFINE Kept == WinnersHaveEntries' /\ PaidWinnerConverted'
<1>1. TypeOK /\ \A o \in Orders : pc[o] # "committed" => orderStatus[o] = "NONE"
  BY DEF IInv, RowInv
<1>2. ASSUME UNCHANGED ballotVars,
             \A o \in Orders : orderStatus'[o] = "PAID" =>
                orderStatus[o] = "PAID" /\ buyer'[o] = buyer[o]
      PROVE  Kept
  BY <1>2 DEF WinnersHaveEntries, PaidWinnerConverted, ballotVars
<1>3. ASSUME NEW o \in Orders,
             \/ \E b \in Users \cup Guests, t \in Grants \cup {NoToken} : LockCategory(o, b, t)
             \/ Rollback(o)
      PROVE  Kept
  <2>1. /\ UNCHANGED <<ballotVars, orderStatus>> /\ orderStatus[o] = "NONE"
        /\ \A x \in Orders \ {o} : buyer'[x] = buyer[x]
    BY <1>1, <1>3 DEF TypeOK, LockCategory, Rollback, Forget, InTx, orderVars
  <2> QED
    BY <1>2, <2>1
<1>4. ASSUME NEW o \in Orders, CommitCheckout(o) \/ Cancel(o) \/ RefundWrite(o) PROVE Kept
  <2>1. UNCHANGED <<ballotVars, buyer>> /\ \A x \in Orders :
          orderStatus'[x] = "PAID" => orderStatus[x] = "PAID"
    BY <1>1, <1>4 DEF TypeOK, CommitCheckout, Cancel, RefundWrite, checkoutVars
  <2> QED
    BY <1>2, <2>1
<1>5. ASSUME NEW S \in SUBSET Orders, ExpireOrders(S) PROVE Kept
  BY <1>2, <1>5 DEF ExpireOrders, checkoutVars
<1>6. ASSUME NEW p \in Payments, ApplyPaid(p) PROVE Kept
  <2> DEFINE o == payOrder[p]
  <2>1. o \in Orders /\ UNCHANGED buyer
    BY <1>6 DEF IInv, PaymentsNameOrders, ApplyPaid, checkoutVars
  <2>2. CASE orderStatus[o] = "PENDING_PAYMENT"
    <3>1. /\ orderStatus' = [orderStatus EXCEPT ![o] = "PAID"]
          /\ winner' = Converted(winner, o)
          /\ overwritten' = {u \in overwritten : winner'[u] # "CONVERTED"}
      BY <1>6, <2>2 DEF ApplyPaid, SellOrder
    <3>2. \A u \in Users : winner'[u] =
            IF u = buyer[o] /\ winner[u] \in {"WINNER", "LAPSED"} THEN "CONVERTED"
            ELSE winner[u]
      BY <1>1, <3>1 DEF TypeOK, Converted
    <3>3. \A u \in Winners \ overwritten' :
            \/ winner'[u] = "CONVERTED"
            \/ /\ u \notin overwritten /\ winner'[u] = winner[u]
               /\ u = buyer[o] => winner[u] \notin {"WINNER", "LAPSED"}
      BY <3>1, <3>2, BuyersAssumption
    <3>4. WinnersHaveEntries'
      BY <3>3 DEF WinnersHaveEntries
    <3>5. ASSUME NEW x \in Orders, orderStatus'[x] = "PAID", buyer[x] \in Winners \ overwritten'
          PROVE  winner'[buyer[x]] = "CONVERTED"
      <4>1. SUFFICES ASSUME buyer[x] \notin overwritten, winner'[buyer[x]] = winner[buyer[x]],
                            buyer[x] = buyer[o] => winner[buyer[x]] \notin {"WINNER", "LAPSED"}
                     PROVE  winner[buyer[x]] = "CONVERTED"
        BY <3>3, <3>5
      <4>2. CASE x = o
        BY <3>5, <4>1, <4>2 DEF WinnersHaveEntries
      <4>3. CASE x # o
        <5>1. orderStatus[x] = "PAID"
          BY <1>1, <2>1, <3>1, <3>5, <4>3 DEF TypeOK
        <5> QED
          BY <3>5, <4>1, <5>1 DEF PaidWinnerConverted
      <4> QED
        BY <4>2, <4>3
    <3> QED
      BY <2>1, <3>4, <3>5 DEF PaidWinnerConverted
  <2>3. CASE orderStatus[o] # "PENDING_PAYMENT"
    BY <1>2, <1>6, <2>1, <2>3 DEF ApplyPaid, SellOrder
  <2> QED
    BY <2>2, <2>3
<1>7. ASSUME NEW u \in Users, LapseWinner(u) PROVE Kept
  <2>1. /\ winner' = [winner EXCEPT ![u] = "LAPSED"] /\ winner[u] = "WINNER"
        /\ UNCHANGED <<orderStatus, buyer, overwritten>>
    BY <1>7 DEF LapseWinner, orderVars, checkoutVars
  <2>2. \A v \in Users : winner'[v] = IF v = u THEN "LAPSED" ELSE winner[v]
    BY <1>1, <2>1 DEF TypeOK
  <2>3. WinnersHaveEntries'
    BY <2>1, <2>2, BuyersAssumption DEF WinnersHaveEntries
  <2> QED
    BY <2>1, <2>2, <2>3, BuyersAssumption DEF PaidWinnerConverted
<1>8. CASE UNCHANGED <<ballotVars, orderStatus, buyer>>
  BY <1>2, <1>8
<1>9. ASSUME NEW p \in Payments,
             \/ \E o \in Orders : CreatePaymentRead(p, o)
             \/ CreatePaymentInsert(p) \/ CreatePaymentFails(p)
             \/ \E result \in {"EXPIRED", "FAILED"} : ApplyUnpaid(p, result)
      PROVE  Kept
  BY <1>8, <1>9 DEF CreatePaymentRead, CreatePaymentInsert, CreatePaymentFails, ApplyUnpaid,
                    orderVars, checkoutVars
<1>10. CASE (\E c \in Capacities, m \in Limits : UpdateCategory(c, m)) \/ UNCHANGED vars
  BY <1>8, <1>10 DEF UpdateCategory, vars, orderVars, checkoutVars, ballotVars
<1>11. ASSUME NEW u \in Winners, NEW s \in {"WINNER", "WITHDRAWN"}, WriteBallotEntry(u, s)
       PROVE  Kept
  <2>1. /\ UNCHANGED <<orderStatus, buyer>> /\ overwritten' = overwritten \cup {u}
        /\ \A v \in Users : v # u => winner'[v] = winner[v]
    BY <1>1, <1>11 DEF TypeOK, WriteBallotEntry, orderVars, checkoutVars
  <2> QED
    BY <2>1, BuyersAssumption DEF WinnersHaveEntries, PaidWinnerConverted
<1> QED
  BY <1>3, <1>4, <1>5, <1>6, <1>7, <1>8, <1>9, <1>10, <1>11, StepsOutsideSales, StepKinds
     DEF ballotVars

\* The invariant of the theorems on sales.
THEOREM SaleInvariant == Spec => []SaleInv
<1>1. ASSUME Init PROVE SaleInv
  <2>1. PaymentsHaveRows /\ SaleIsWhole /\ OneActivePayment
    BY <1>1 DEF Init, PaymentsHaveRows, SaleIsWhole, OneActivePayment
  <2>2. GrantAdmitsOnce
    BY <1>1 DEF Init, GrantAdmitsOnce
  <2>3. WinnersHaveEntries /\ PaidWinnerConverted
    BY <1>1, BuyersAssumption DEF Init, WinnersHaveEntries, PaidWinnerConverted
  <2> QED
    BY <2>1, <2>2, <2>3 DEF SaleInv
<1>2. IInv /\ SaleInv /\ [Next]_vars => SaleInv'
  BY SalesPreserved, OneActivePreserved, GrantsPreserved, WinnersPreserved DEF SaleInv
<1> QED
  BY <1>1, <1>2, InductiveInvariant, PTL DEF Spec

\* SaleIsWhole: applyPaid sells an order, its ticket and its fee together or not at all.
THEOREM SalesAreWhole == Spec => []SaleIsWhole
BY SaleInvariant, PTL DEF SaleInv

\* OneActivePayment: of any number of concurrent CreatePayment calls for an order one
\* inserts its row.
THEOREM OnePaymentOnly == Spec => []OneActivePayment
BY SaleInvariant, PTL DEF SaleInv

\* GrantAdmitsOnce: ConsumeAccessGrant lets one order of the grant's owner in.
THEOREM GrantsAdmitOnce == Spec => []GrantAdmitsOnce
BY SaleInvariant, PTL DEF SaleInv

\* PaidWinnerConverted: ConvertBallotWinnerForOrder converts every winner who pays, before
\* or after the ballot expirer has lapsed the entry or an announcement has written it again;
\* only a later write of the ballot module leaves a paid winner's entry otherwise.
THEOREM PaidWinnersConverted == Spec => []PaidWinnerConverted
BY SaleInvariant, PTL DEF SaleInv

-----------------------------------------------------------------------------
(***************************************************************************)
(* The limit of orders per participant.                                    *)
(***************************************************************************)

\* A checkout that has passed CheckOrderLimit may still add an order.
LimitInv == \A o \in Orders :
    pc[o] = "limited" => Cardinality(ActiveOrdersOf(buyer[o])) < limit

\* Only a checkout of a buyer adds to the orders that count for the buyer.
LEMMA ActiveOrdersSteps ==
    ASSUME IInv, [Next]_vars, NEW u
    PROVE  \/ ActiveOrdersOf(u)' \subseteq ActiveOrdersOf(u)
           \/ \E o \in Orders : /\ CommitCheckout(o) /\ buyer[o] = u
                               /\ ActiveOrdersOf(u)' = ActiveOrdersOf(u) \cup {o}
<1> USE DEF ActiveOrdersOf
<1>1. ASSUME NEW o \in Orders,
             \/ Rollback(o)
             \/ \E b \in Users \cup Guests, t \in Grants \cup {NoToken} : LockCategory(o, b, t)
      PROVE  ActiveOrdersOf(u)' \subseteq ActiveOrdersOf(u)
  <2>1. /\ orderStatus[o] = "NONE" /\ orderStatus' = orderStatus
        /\ \A d \in Orders : d # o => buyer'[d] = buyer[d]
    BY <1>1 DEF IInv, RowInv, TypeOK, Rollback, LockCategory, Forget, InTx, orderVars
  <2> QED
    BY <2>1
<1>2. ASSUME NEW o \in Orders, CommitCheckout(o)
      PROVE  \/ ActiveOrdersOf(u)' \subseteq ActiveOrdersOf(u)
             \/ buyer[o] = u /\ ActiveOrdersOf(u)' = ActiveOrdersOf(u) \cup {o}
  <2>1. /\ orderStatus'[o] = "PENDING_PAYMENT" /\ buyer' = buyer
        /\ \A d \in Orders : d # o => orderStatus'[d] = orderStatus[d]
    BY <1>2 DEF IInv, TypeOK, CommitCheckout
  <2> QED
    BY <2>1
<1>3. ASSUME NEW o \in Orders, Cancel(o) \/ RefundWrite(o)
      PROVE  ActiveOrdersOf(u)' \subseteq ActiveOrdersOf(u)
  BY <1>3 DEF IInv, TypeOK, Cancel, RefundWrite, checkoutVars
<1>4. ASSUME NEW S \in SUBSET Orders, ExpireOrders(S)
      PROVE  ActiveOrdersOf(u)' \subseteq ActiveOrdersOf(u)
  BY <1>4 DEF ExpireOrders, checkoutVars
<1>5. ASSUME NEW p \in Payments, ApplyPaid(p)
      PROVE  ActiveOrdersOf(u)' \subseteq ActiveOrdersOf(u)
  <2>1. buyer' = buyer
    BY <1>5 DEF ApplyPaid, checkoutVars
  <2>2. \A d \in Orders : orderStatus'[d] \in {"PENDING_PAYMENT", "PAID"} =>
            orderStatus[d] \in {"PENDING_PAYMENT", "PAID"}
    BY <1>5 DEF IInv, TypeOK, ApplyPaid, SellOrder
  <2> QED
    BY <2>1, <2>2
<1>6. CASE UNCHANGED <<buyer, orderStatus>>
  BY <1>6
<1>7. ASSUME NEW o \in Orders,
             CheckCapacity(o) \/ CheckOrderLimit(o) \/ GuestReserveFails(o) \/ DeadlinePasses(o)
               \/ RefundRead(o)
      PROVE  UNCHANGED <<buyer, orderStatus>>
  BY <1>7, StepsOutsideSales
<1>8. ASSUME NEW p \in Payments, PaymentStep(p), ~ApplyPaid(p)
      PROVE  UNCHANGED <<buyer, orderStatus>>
  BY <1>8 DEF PaymentStep, CreatePaymentRead, CreatePaymentInsert, CreatePaymentFails,
     ApplyUnpaid, checkoutVars, orderVars
<1>9. ASSUME \/ \E v \in Users : LapseWinner(v)
             \/ \E v \in Winners, s \in {"WINNER", "WITHDRAWN"} : WriteBallotEntry(v, s)
             \/ \E c \in Capacities, m \in Limits : UpdateCategory(c, m)
             \/ UNCHANGED vars
      PROVE  UNCHANGED <<buyer, orderStatus>>
  BY <1>9 DEF LapseWinner, WriteBallotEntry, UpdateCategory, checkoutVars, orderVars, vars
<1> QED
  <2> HIDE DEF ActiveOrdersOf
  <2> QED
    BY <1>1, <1>2, <1>3, <1>4, <1>5, <1>6, <1>7, <1>8, <1>9 DEF Next, OrderStep, CheckoutStep

\* The limit is not edited and the buyer of a checkout not changed while it has the lock.
LEMMA LimitUnderLock ==
    ASSUME IInv, [Next]_vars, NEW o \in Orders, pc'[o] = "limited"
    PROVE  /\ buyer'[o] = buyer[o] /\ limit' = limit
           /\ \A d \in Orders : ~CommitCheckout(d)
           /\ pc[o] = "limited" \/ CheckOrderLimit(o)
<1> DEFINE Goal == /\ buyer'[o] = buyer[o] /\ limit' = limit
                   /\ pc[o] = "limited" \/ CheckOrderLimit(o)
<1>1. /\ pc \in [Orders -> CheckoutPC] /\ buyer \in [Orders -> Users \cup Guests \cup {NoBuyer}]
      /\ catLock = NoOrder => pc[o] # "limited"
      /\ \A d \in Orders : pc[d] \in InTx /\ pc[o] = "limited" => d = o
  BY OrdersAssumption DEF IInv, TypeOK, LockInv, InTx
<1>2. ASSUME NEW d \in Orders, NEW b \in Users \cup Guests,
             NEW t \in Grants \cup {NoToken}, LockCategory(d, b, t)
      PROVE  FALSE
  BY <1>1, <1>2 DEF LockCategory
<1>3. ASSUME NEW d \in Orders, CommitCheckout(d) \/ GuestReserveFails(d) \/ Rollback(d)
      PROVE  FALSE
  <2>1. pc'[d] # "limited" /\ pc[d] \in InTx /\ \A e \in Orders : e # d => pc'[e] = pc[e]
    BY <1>1, <1>3 DEF CommitCheckout, GuestReserveFails, Rollback, InTx
  <2> QED
    BY <1>1, <2>1
<1>4. ASSUME NEW d \in Orders, CheckCapacity(d) \/ CheckOrderLimit(d)
      PROVE  Goal
  <2>1. /\ buyer' = buyer /\ limit' = limit
        /\ \A e \in Orders : e # d => pc'[e] = pc[e]
    BY <1>1, <1>4 DEF CheckCapacity, CheckOrderLimit, categoryVars
  <2>2. CheckCapacity(d) => pc'[d] # "limited"
    BY <1>1 DEF CheckCapacity
  <2> QED
    BY <1>4, <2>1, <2>2
<1>5. ASSUME UNCHANGED <<buyer, pc, limit>>
      PROVE  Goal
  BY <1>5
<1>6. ASSUME NEW d \in Orders, DeadlinePasses(d) \/ Cancel(d) \/ RefundRead(d) \/ RefundWrite(d)
      PROVE  UNCHANGED <<buyer, pc, limit>>
  BY <1>6 DEF DeadlinePasses, Cancel, RefundRead, RefundWrite, checkoutVars, categoryVars
<1>7. ASSUME NEW p \in Payments, PaymentStep(p)
      PROVE  UNCHANGED <<buyer, pc, limit>>
  BY <1>7 DEF PaymentStep, CreatePaymentRead, CreatePaymentInsert, CreatePaymentFails,
     ApplyPaid, ApplyUnpaid, checkoutVars, categoryVars
<1>8. ASSUME \/ \E S \in SUBSET Orders : ExpireOrders(S)
             \/ \E v \in Users : LapseWinner(v)
             \/ \E v \in Winners, s \in {"WINNER", "WITHDRAWN"} : WriteBallotEntry(v, s)
             \/ UNCHANGED vars
      PROVE  UNCHANGED <<buyer, pc, limit>>
  BY <1>8 DEF ExpireOrders, LapseWinner, WriteBallotEntry, checkoutVars, categoryVars, vars
<1>9. ASSUME NEW c \in Capacities, NEW m \in Limits, UpdateCategory(c, m)
      PROVE  FALSE
  BY <1>1, <1>9 DEF UpdateCategory, checkoutVars
<1>10. Goal
  BY <1>2, <1>3, <1>4, <1>5, <1>6, <1>7, <1>8, <1>9 DEF Next, OrderStep, CheckoutStep
<1> QED
  BY <1>3, <1>10

\* No step of another lets the buyer's orders reach the limit before the commit.
LEMMA LimitPreserved == ASSUME IInv, LimitInv, [Next]_vars PROVE LimitInv'
<1> SUFFICES ASSUME NEW o \in Orders, pc'[o] = "limited", NEW u, u = buyer[o]
             PROVE  Cardinality(ActiveOrdersOf(u)') < limit'
  <2>1. ASSUME NEW o \in Orders, pc'[o] = "limited" PROVE buyer'[o] = buyer[o]
    BY <2>1, LimitUnderLock
  <2> QED
    BY <2>1 DEF LimitInv, ActiveOrdersOf
<1>1. /\ limit' = limit /\ \A d \in Orders : ~CommitCheckout(d)
      /\ pc[o] = "limited" \/ CheckOrderLimit(o)
  BY LimitUnderLock
<1>2. Cardinality(ActiveOrdersOf(u)) < limit
  BY <1>1 DEF LimitInv, CheckOrderLimit
<1>3. ActiveOrdersOf(u)' \subseteq ActiveOrdersOf(u)
  BY <1>1, ActiveOrdersSteps
<1>4. IsFiniteSet(ActiveOrdersOf(u))
  BY OrdersAssumption, FS_Subset DEF ActiveOrdersOf
<1>5. /\ Cardinality(ActiveOrdersOf(u)') <= Cardinality(ActiveOrdersOf(u))
      /\ Cardinality(ActiveOrdersOf(u)') \in Nat /\ Cardinality(ActiveOrdersOf(u)) \in Nat
  BY <1>3, <1>4, FS_Subset, FS_CardinalityType
<1>6. limit \in Nat
  BY CategoryAssumption DEF IInv, TypeOK
<1> QED
  BY <1>1, <1>2, <1>5, <1>6

\* The orders that hold or have a seat are those CheckOrderLimit counts.
LEMMA OpenOrdersAreActive == IInv => \A u : OpenOrdersOf(u) = ActiveOrdersOf(u)
<1> SUFFICES ASSUME IInv, NEW o \in Orders
             PROVE  (reservation[o] = "ACTIVE" \/ orderStatus[o] = "PAID")
                      <=> orderStatus[o] \in {"PENDING_PAYMENT", "PAID"}
  BY DEF OpenOrdersOf, ActiveOrdersOf
<1>1. orderStatus[o] \in OrderStatus
  BY DEF IInv, TypeOK
<1> QED
  BY <1>1 DEF IInv, SeatAgreesWithOrder, OrderStatus

\* Concurrent checkouts never take a participant past max_order_per_user.
THEOREM LimitKept == Spec => OrderLimitKept
<1> DEFINE Grows == \A u \in Users :
        Cardinality(OpenOrdersOf(u)') > Cardinality(OpenOrdersOf(u))
            => Cardinality(OpenOrdersOf(u)') <= limit
<1>1. IInv' => (\A u : OpenOrdersOf(u) = ActiveOrdersOf(u))'
  BY OpenOrdersAreActive, PTL
<1>2. IInv /\ LimitInv /\ [Next]_vars => [Grows]_vars
  <2> SUFFICES ASSUME IInv, LimitInv, [Next]_vars, NEW u \in Users,
                      Cardinality(OpenOrdersOf(u)') > Cardinality(OpenOrdersOf(u))
               PROVE  Cardinality(OpenOrdersOf(u)') <= limit
    BY DEF Grows
  <2>1. IInv'
    BY TypesPreserved, LockPreserved, RowsPreserved, SeatAgreementPreserved,
       AdmissionPreserved DEF IInv
  <2>2. OpenOrdersOf(u) = ActiveOrdersOf(u) /\ OpenOrdersOf(u)' = ActiveOrdersOf(u)'
    BY <1>1, <2>1, OpenOrdersAreActive
  <2>3. IsFiniteSet(ActiveOrdersOf(u)) /\ Cardinality(ActiveOrdersOf(u)) \in Nat
    BY OrdersAssumption, FS_Subset, FS_CardinalityType DEF ActiveOrdersOf
  <2>4. CASE ActiveOrdersOf(u)' \subseteq ActiveOrdersOf(u)
    <3>1. /\ Cardinality(ActiveOrdersOf(u)') <= Cardinality(ActiveOrdersOf(u))
          /\ Cardinality(ActiveOrdersOf(u)') \in Nat
      BY <2>3, <2>4, FS_Subset, FS_CardinalityType
    <3> QED
      BY <2>2, <2>3, <3>1
  <2>5. ASSUME NEW o \in Orders, CommitCheckout(o), buyer[o] = u,
               ActiveOrdersOf(u)' = ActiveOrdersOf(u) \cup {o}
        PROVE  Cardinality(OpenOrdersOf(u)') <= limit
    <3>1. Cardinality(ActiveOrdersOf(u)) < limit
      BY <2>5 DEF LimitInv, CommitCheckout
    <3>2. Cardinality(ActiveOrdersOf(u)') <= Cardinality(ActiveOrdersOf(u)) + 1
      BY <2>3, <2>5, FS_AddElement
    <3>3. limit \in Nat /\ Cardinality(ActiveOrdersOf(u)') \in Nat
      BY <2>3, <2>5, FS_AddElement, FS_CardinalityType, CategoryAssumption DEF IInv, TypeOK
    <3> QED
      BY <2>2, <2>3, <3>1, <3>2, <3>3
  <2> QED
    BY <2>4, <2>5, ActiveOrdersSteps
<1>3. Init => LimitInv
  BY DEF Init, LimitInv
<1>4. Spec => [](IInv /\ LimitInv)
  BY <1>3, InductiveInvariant, LimitPreserved, PTL DEF Spec
<1> QED
  BY <1>2, <1>4, PTL DEF Spec, OrderLimitKept, Grows
=============================================================================
