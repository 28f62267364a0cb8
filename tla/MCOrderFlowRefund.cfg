SPECIFICATION Spec
CONSTANTS
    u1 = u1
    u2 = u2
    Orders = {o1}
    Users = {u1}
    Guests = {}
    Payments = {p1}
    Grants = {}
    GrantOwner <- MCGrantOwner
    Winners = {}
    Capacities = {1}
    Limits = {1}
    MaxRefunders = 2
    NoOrder = NoOrder
    NoToken = NoToken
    NoBuyer = NoBuyer
CHECK_DEADLOCK FALSE
INVARIANT RefundedAtMostOnce
