CONSTANTS
    k1 = k1
    s1 = s1
    s2 = s2
    Keys <- OneKey
    Slots <- TwoSlots
    RingSize = 2
    FifoDepth = 1
    MaxReqs = 4
    MaxClients = 2
    MaxRefused = 1
SPECIFICATION FairSpec
INVARIANTS TypeOK SlotsOwnedOnce DataIntact EntryFree BuffersHeld
PROPERTIES AnswersInOrder AnsweredUnlessLost
CHECK_DEADLOCK FALSE
