SPECIFICATION FairSpec
CONSTANTS
    Deliveries = {d1, d2}
    Reconciles = {r1, r2}
    Callbacks <- MCCallbacks
    NoCallback = NoCallback
    Nobody = Nobody
CHECK_DEADLOCK FALSE
INVARIANTS
    SaleFollowsPayment
    DuplicateHasOriginal
PROPERTIES
    FinalPaymentKept
    ReconcileEnds
