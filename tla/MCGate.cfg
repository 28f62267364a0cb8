SPECIFICATION Spec
CONSTANTS
    t1 = t1
    d1 = d1
    c1 = c1
    c2 = c2
    r1 = r1
    k1 = k1
    k2 = k2
    NoOp = NoOp
    Tickets = {t1}
    Devices = {d1}
    Ops = {c1, c2, k1, k2}
    Kind <- MCKind
    TicketOf <- MCTicketOf
    DeviceOf <- MCDeviceOf
    Capacities = {0, 1}
    MaxCopies = 2
    MaxLosses = 1
SYMMETRY ScansAlike
CHECK_DEADLOCK FALSE
INVARIANTS
    DrainedIsRecorded
    FirstIsOwner
    SlotCovers
PROPERTIES
    FirstScanKept
