SPECIFICATION BuildSpec
CONSTANTS
    Logs <- MCLogs
    MaxSize = 11
    MaxRawLog = 6
    MagicLen = 2
    ScanFrom = 2
    ChecksHead = TRUE
    SizeMod = 32
    NoBuffer = NoBuffer
    Tasks <- MCTasks
    TTL = 1
    StartTime = 1
    MaxTime = 3
CHECK_DEADLOCK FALSE
INVARIANTS
    TypeOK
    WindowIsContiguous
    WholeReadIsComplete
PROPERTIES
    PlaysInOrder
    LossIsBounded
