SPECIFICATION Spec
CONSTANTS
    N = 5
    Calls = {c1, c2}
    Recorded <- MCPath
    Named = {2, 6}
    Statuses = {"SCHEDULED", "LIVE", "COMPLETED"}
    GroupSize = 4
    Name <- MCName
    Results <- MCResults
    WinPoints = 3
    DrawPoints = 1
SYMMETRY CallsAlike
INVARIANTS
    WinnerPlaysOn
    SeedsMeetLate
    EveryPairMeetsOnce
    TablesStable
    BadmintonByRule
PROPERTIES
    StartedKeepsSides
