SPECIFICATION FairSpec
CONSTANTS
    Jobs = {w1, w2}
    Goroutine = api
    MaxRetryAttempts = 3
    MaxFaults = 2
CHECK_DEADLOCK FALSE
INVARIANT OutcomeIsEarned
PROPERTY Settles
