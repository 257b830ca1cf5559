SPECIFICATION Spec
CONSTANTS
    Host = "little"
    Logs <- MCLogs
    Packet <- MCPacket
    MaxRawLog = 8
    MagicLen = 3
    ScanFrom = 2
    SizeMod = 64
    NoBuffer = NoBuffer
    PositionLen = 3
    Garbage <- MCGarbage
CHECK_DEADLOCK FALSE
INVARIANTS
    TalliesAgree
    FlightsAddUp
    CountsWhatWasSent
PROPERTIES
    EventuallyDone
