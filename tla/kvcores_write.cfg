CONSTANTS
    Keys <- ThreeKeys
    NumPages = 2
    PageCells = 2
    Writers <- BothCores
    MaxCalls = 2
SPECIFICATION Spec
PROPERTY CopyOnWrite
CHECK_DEADLOCK FALSE
