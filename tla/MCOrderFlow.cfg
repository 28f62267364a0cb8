SPECIFICATION Spec
CONSTANTS
    u1 = u1
    u2 = u2
    Orders = {o1, o2, o3}
    Users = {u1, u2}
    Guests = {}
    Payments = {p1, p2}
    Grants = {g1}
    GrantOwner <- MCGrantOwner
    Winners = {u1}
    Capacities = {1, 2}
    Limits = {1}
    MaxRefunders = 1
    NoOrder = NoOrder
    NoToken = NoToken
    NoBuyer = NoBuyer
CHECK_DEADLOCK FALSE
SYMMETRY MCSymmetry
INVARIANTS
    TypeOK
    SeatAgreesWithOrder
    SaleIsWhole
    OneActivePayment
    GrantAdmitsOnce
    PaidWinnerConverted
PROPERTIES
    NoOversell
    OrderLimitKept
    ClosedOrdersStayClosed
    ImplementsLedger
