CONSTANTS
    Track = {t1, t2}
    Mismatched = {t2}
    Setter = {s1}
    NULL = NULL
    MaxCalls = 1
    MaxInputs = 1
SPECIFICATION Safety
PROPERTY StartSucceedsOnlyIfActive
CHECK_DEADLOCK FALSE
