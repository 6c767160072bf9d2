CONSTANTS
    v1 = v1
    v2 = v2
    Keys = {1, 2}
    Vals = {v1, v2}
    NumBlocks = 3
    BlockCap = 2
    Buckets <- Two
    Hash1 <- First0
    Hash2 <- Second1
    BucketCap = 1
    IndexMax = 1
    CacheSlots = 1
    MaxOps = 5
    MaxCuts = 1
SPECIFICATION Spec
INVARIANTS TypeOK CachesCoherent NoOverfill AcknowledgedIsReadable CopyOnWrite
SYMMETRY Symmetric
CHECK_DEADLOCK FALSE
