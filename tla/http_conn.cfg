CONSTANTS
    Clients = {c1, c2, c3}
    SlotCount = 2
    PollMax = 1
    MaxSends = 5
    MaxRefused = 1
SPECIFICATION Spec
INVARIANTS TypeOK SlotHasOwner NoRequestTwice
PROPERTIES RequestAnswered
CHECK_DEADLOCK FALSE
