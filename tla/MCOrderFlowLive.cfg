SPECIFICATION FairSpec
CONSTANTS
    u1 = u1
    u2 = u2
    Orders = {o1, o2}
    Users = {u1}
    Guests = {e1}
    Payments = {p1}
    Grants = {g1}
    GrantOwner <- MCGrantOwner
    Winners = {u1}
    Capacities = {1, 2}
    Limits = {1, 2}
    MaxRefunders = 1
    NoOrder = NoOrder
    NoToken = NoToken
    NoBuyer = NoBuyer
CHECK_DEADLOCK FALSE
PROPERTIES
    HoldsEnd
    CategoryLockFreed
