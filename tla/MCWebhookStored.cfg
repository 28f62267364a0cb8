SPECIFICATION Spec
CONSTANTS
    Deliveries = {d1}
    Reconciles = {}
    Callbacks <- MCCallbacks
    NoCallback = NoCallback
    Nobody = Nobody
CHECK_DEADLOCK FALSE
INVARIANT AnsweredIsStored
