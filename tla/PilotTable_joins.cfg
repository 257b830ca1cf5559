SPECIFICATION Spec
CONSTANTS
    Callsigns = {"ANN", "BOB"}
    Aircraft = {"c172", "b777"}
    Axes <- MCAxes
    MinChange <- MCMinChange
    Packets <- JoinPackets
    TTL = 1
    MaxExpired = 1
    IdSpan = 2
    StartTime = 1
    MaxPackets = 5
    MaxTime = 6
INVARIANTS
    OneEntryPerFlight
    UniqueFlightIds
    ExpiredWithinWatermark
PROPERTIES
    IdsNeverReissued
    LiveUntilSilent
