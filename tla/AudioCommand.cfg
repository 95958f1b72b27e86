CONSTANTS
    Caller = {c1, c2}
    Request <- MCRequest
    Delays = {0, 1, 2}
    NULL = NULL
    MaxPending = 3
SPECIFICATION Spec
INVARIANTS NewestLast WaiterIsQueued StatusIsThere
CHECK_DEADLOCK FALSE
PROPERTIES CallReturns NotPutOff
