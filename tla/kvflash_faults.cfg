CONSTANTS
    k1 = k1
    k2 = k2
    k3 = k3
    v1 = v1
    Keys = {k1, k2, k3}
    Vals = {v1}
    BigVals = {v1}
    NumPages = 2
    PageCells = 5
    Slack = 1
    MaxVersion = 2
    RefMax = 1
    IndexCapacity = 2
    DeadSectors = 2
    DeadEntries = 1
    Tears <- AllTears
    MaxOps = 5
    MaxCuts = 2
SPECIFICATION Spec
INVARIANTS RefCountsExact
PROPERTIES LiveRecordsKept
SYMMETRY Symmetric
CHECK_DEADLOCK FALSE
