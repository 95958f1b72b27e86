CONSTANTS
    Caller = {c1, c2}
    Request <- MCRequest
    Delays = {0, 1, 2}
    NULL = NULL
    MaxPending = 2
SPECIFICATION Spec
CHECK_DEADLOCK FALSE
PROPERTY ExitReturns
