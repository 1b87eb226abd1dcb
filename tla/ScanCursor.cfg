\* Every kind of scan, with the rescans that work.
SPECIFICATION Spec
CONSTANTS
    TIDS_PER_BLOCK = 2
    Blocks = 3
    Offsets = 5
    MaxRowid = 3
    MaxPasses = 2
    MinTids <- LowerTids
    MaxTids <- UpperTids
    Rescans = {"seq", "tidrange", "bitmap"}
    EarlyRescans = {"seq", "tidrange"}
INVARIANTS TypeOK EndsComplete ReturnsInOrder AnalyzeCountsOnce
CHECK_DEADLOCK FALSE
