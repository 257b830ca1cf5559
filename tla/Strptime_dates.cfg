SPECIFICATION Spec
CONSTANTS
    Calls <- MCCalls
    NoDate = NoDate
    NULL = NULL
    tzname <- MCtzname
    TIME_MAX = 199
    MaxText = 3
CHECK_DEADLOCK FALSE
INVARIANT
    DatesComeBack
