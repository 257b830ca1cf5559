SPECIFICATION FairSpec
CONSTANTS
    Callsigns = {"ANN", "BOB"}
    Aircraft = {"c172"}
    Axes <- MCAxes
    MinChange <- MCMinChange
    Packets <- MCPackets_
    TTL = 1
    MaxExpired = 1
    IdSpan = 4
    StartTime = 1
    MaxTime = 8
    Logs <- PairLogs
    MaxRawLog = 2
    MagicLen = 1
    SizeMod = 16
    NoBuffer = NoBuffer
    InitSize = 4
    HeadLen = 3
    ItemLen = 2
    TailLen = 1
    NoReply = NoReply
    use_sim_time2 = TRUE
CHECK_DEADLOCK FALSE
INVARIANTS
    NoFlightOverstays
    ResetIsClean
    FeedsAgree
PROPERTIES
    DrivesRawLog
    FirstRunIsPaced
    LogRestarts
    LogIsPlayed
