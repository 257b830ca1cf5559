SPECIFICATION Spec
CONSTANTS
    Host = "little"
    PropsAt = 232
    PacketSizes = {232, 240, 300, 600, 1200, 1584, 1588}
INVARIANTS
    TypeOK
    DecodedAsSent
    TruncatesToVersion1
CHECK_DEADLOCK FALSE
