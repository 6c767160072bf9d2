CONSTANTS
    big = big
    TooLong = big
    Keys = {1, 2}
    Requests <- SomeRequests
    MaxSessions = 2
    QueueSize = 2
    MaxBatch = 3
    PerPoll = 2
    MaxNonce = 1
    MaxIssued = 3
    MaxSeq = 2
    MaxReceived = 3
    MaxRestarts = 1
    MaxUnsent = 1
SPECIFICATION FairSpec
INVARIANTS TypeOK AppliedOnce AnswersTellTheTruth LastBatchWins
PROPERTY EveryBatchAnswered
CHECK_DEADLOCK FALSE
