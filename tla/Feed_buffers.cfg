SPECIFICATION Spec
CONSTANTS
    InitSize = 4
    HeadLen = 3
    ItemLen = 2
    TailLen = 1
    Tables <- MCTables
INVARIANTS
    JsonParsesWithFlights
    BuffersStayBounded
