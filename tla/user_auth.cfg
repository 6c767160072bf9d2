CONSTANTS
    admin = admin
    plain = plain
    root = root
    n1 = n1
    None = None
    Names = {root, n1}
    AdminName = root
    Roles = {admin, plain}
    AdminRole = admin
    Can <- RoleCan
    MaxId = 2
    ScanMax = 2
    SlotCount = 2
    FailMax = 2
    Timeout = 1
    ClockMod = 3
    RawCounts = {255}
    MaxOps = 4
    MaxRaw = 1
    MaxTime = 3
    MaxRestarts = 1
    MaxRefused = 1
SPECIFICATION Spec
INVARIANTS TypeOK GuessesBounded AdminFieldsSurvive SessionKeepsAccount
PROPERTIES LiveSessionKept
CHECK_DEADLOCK FALSE
