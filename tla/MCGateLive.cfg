SPECIFICATION FairSpec
CONSTANTS
    t1 = t1
    d1 = d1
    c1 = c1
    c2 = c2
    r1 = r1
    k1 = k1
    k2 = k2
    NoOp = NoOp
    Tickets = {t1}
    Devices = {d1}
    Ops = {c1, r1}
    Kind <- MCKind
    TicketOf <- MCTicketOf
    DeviceOf <- MCDeviceOf
    Capacities = {1}
    MaxCopies = 2
    MaxLosses = 2
CHECK_DEADLOCK FALSE
PROPERTIES
    ScansSettle
