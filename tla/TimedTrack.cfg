CONSTANTS
    Sizes = {3}
    MediaTimes = {0, 3}
    Offsets = {0, 2}
    CommonOffset = 1
    Requests = {2}
    Continuity = 2
    TooFar = 5
    Limit = 4
    W = 16
    MaxBuffers = 3
    MaxTime = 3
SPECIFICATION Spec
INVARIANTS HeadInFlightStays PendingCountsSkipped
PROPERTIES PlaysForward
CHECK_DEADLOCK TRUE
