CONSTANTS
    k1 = k1
    k2 = k2
    v1 = v1
    v2 = v2
    Keys = {k1, k2}
    Vals = {v1, v2}
    BigVals = {}
    NumPages = 2
    PageCells = 5
    Slack = 1
    MaxVersion = 9
    RefMax = 9
    IndexCapacity = 2
    DeadSectors = 2
    DeadEntries = 1
    Tears <- SmallTears
    MaxOps = 5
    MaxCuts = 2
SPECIFICATION Spec
INVARIANTS TypeOK AcknowledgedIsReadable
PROPERTIES ImplementsMap
SYMMETRY Symmetric
CHECK_DEADLOCK FALSE
