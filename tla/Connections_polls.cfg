SPECIFICATION Spec
CONSTANTS
    Clients = {"A", "B"}
    Scripts <- MCScripts
    MAX_REQUEST_SIZE = 1
    MaxRecv = 2
    WireSize = 2
    IDLE_TIMEOUT_SECONDS = 1
    MaxFeed = 1
CHECK_DEADLOCK FALSE
INVARIANTS
    AnswersInOrder
    NoneForgotten
    FreshAnswers
    CrashOnlyWhenStalled
PROPERTIES
    DeliversWhole
    AnswerComes
