SPECIFICATION Spec
CONSTANTS
    p1 = p1
    Participants = {p1, p2}
    Workers = {w1}
    Checkouts = {k1}
    Buyer <- MCBuyer
    Rates = {1}
    DefaultRate = 1
    HasPresale = TRUE
    MaxWindows = 2
PROPERTIES
    PausedUntilResumed
