CONSTANTS
    mMaxFrames = 4
    W = 8
    SeqMod = 2
    MaxCount = 2
    PTS = {5}
    kInvalidPTS = kInvalidPTS
    mWriteCanBlock = TRUE
    tsUsable = TRUE
SPECIFICATION Spec
INVARIANTS NeverOverrun
PROPERTIES ImplementsFifo ShutdownUnblocks ObservesOneRead TimestampCountsPending
CHECK_DEADLOCK TRUE
