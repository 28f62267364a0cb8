SPECIFICATION Spec
CONSTANTS
    N = 2
    Quota = 1
    WaitlistSize = 1
    Runs = {r1, r2}
    Announces = {a1, a2}
SYMMETRY CallsAlike
CHECK_DEADLOCK FALSE
INVARIANTS TypeOK OneDrawOnly DrawnIsWhole GrantsGoToWinners
