SPECIFICATION Spec
CONSTANTS
    u1 = u1
    u2 = u2
    Orders = {o1, o2}
    Users = {u1}
    Guests = {}
    Payments = {p1, p2}
    Grants = {}
    GrantOwner <- MCGrantOwner
    Winners = {}
    Capacities = {1}
    Limits = {1}
    MaxRefunders = 1
    NoOrder = NoOrder
    NoToken = NoToken
    NoBuyer = NoBuyer
CHECK_DEADLOCK FALSE
INVARIANT TicketsWithinCapacity
