CONSTANTS
    W = 16
    mFrameCount = 6
    Starts = {8}
    Requests = {2, 4, 8}
    MaxWritten = 10
    Callers = {"write", "callback", "timed", "poll"}
SPECIFICATION Spec
INVARIANTS RegionsApart
PROPERTIES PlaysWhatWasWritten NoLostWakeup StopReleasesWriter
CHECK_DEADLOCK TRUE
