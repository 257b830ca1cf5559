SPECIFICATION FairSpec
CONSTANTS
    Names <- MCNames
    def_log = "cf_client.log"
    NoName = NoName
    Upper <- MCUpper
    MX_BUFFERS = 3
    Disks = {"fine", "readonly", "full"}
    MaxLines = 2
    Programs = {"cf-log"}
    Args <- VerboseArgs
    MaxArgs = 3
    ArgLists <- MCArgLists
    Existing <- MCExisting
    LogNames <- MCLogNames
    PortSpan = 65536
    VerbSpan = 8
CHECK_DEADLOCK FALSE
PROPERTIES
    ParsingEnds
