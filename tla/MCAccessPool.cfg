SPECIFICATION AccessSpec
CONSTANTS
    p1 = p1
    p2 = p2
    r1 = r1
    r2 = r2
    r3 = r3
    k1 = k1
    k2 = k2
    k3 = k3
    Participants = {p1, p2}
    Redeems = {r1, r2, r3}
    Checks = {k1, k2}
    Caller <- MCCaller
    MaxUses = 2
    Totals = {2, 4}
SYMMETRY CallsAlike
CHECK_DEADLOCK FALSE
INVARIANTS GrantsHavePlaces AnsweredWithinUses
