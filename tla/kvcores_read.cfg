CONSTANTS
    Keys <- ThreeKeys
    NumPages = 2
    PageCells = 2
    Writers <- Core1
    MaxCalls = 5
SPECIFICATION Spec
INVARIANTS TypeOK AnswerIsTrue MissingIsTrue
PROPERTIES CopyOnWrite
CHECK_DEADLOCK FALSE
