SPECIFICATION FairSpec
CONSTANTS
    Deliveries = {d1, d2}
    Reconciles = {}
    Callbacks <- MCGenuine
    NoCallback = NoCallback
    Nobody = Nobody
CHECK_DEADLOCK FALSE
PROPERTY AcknowledgedIsApplied
