SPECIFICATION HSpec
CONSTANTS
    Callsigns = {"ANN"}
    Aircraft = {"c172"}
    Axes <- MCAxes
    MinChange <- MCMinChange
    Packets <- MixedPackets
    TTL = 2
    MaxExpired = 1
    IdSpan = 3
    StartTime = 1
    MaxPackets = 4
    MaxTime = 5
INVARIANTS
    TalliesAgree
    RecordTracksLatest
    EntryCountsPackets
    ElapsedReachesLatest
