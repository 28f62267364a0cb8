SPECIFICATION Spec
CONSTANTS
    Bibs = {11, 12}
    Chips = {"c1", "c2"}
    NoBib = 0
    Readings <- MCReadings
    MatOf <- MCMat
    StartMat = "START"
    SplitMats = {"5K"}
    FinishMat = "FINISH"
    ChipOf <- MCChip
    BibOn <- MCBibOn
    TimeOf <- MCTime
    WaveStart <- MCWave
    Policies <- MCPolicies
    Debounce = 2
    Limit = 2
    Runs = {r1, r2}
    Assigns = {"wrong","right"}
    BibOf <- MCBibOf
    ChipFor <- MCChipFor
    ReplaceOld <- MCReplace
    CsvRows <- MCCsvRows
    MaxLosses = 1
SYMMETRY RunsAlike
INVARIANTS
    ResultsByRules
    NoReadingLost
