CONSTANTS
    Sizes = {3}
    MediaTimes = {0, 3}
    Offsets = {0}
    CommonOffset = 1
    Requests = {2}
    Continuity = 2
    TooFar = 5
    Limit = 4
    W = 16
    MaxBuffers = 2
    MaxTime = 5
SPECIFICATION Spec
INVARIANT PendingCoversHead
CHECK_DEADLOCK TRUE
