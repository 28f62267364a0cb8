SPECIFICATION Spec
CONSTANTS
    p1 = p1
    Participants = {p1, p2}
    Workers = {w1, w2}
    Checkouts = {k1}
    Buyer <- MCBuyer
    Rates = {1}
    DefaultRate = 1
    HasPresale = FALSE
    MaxWindows = 3
SYMMETRY WorkersAlike
INVARIANTS
    TypeOK
    NobodyStranded
PROPERTIES
    TokenLifecycle
