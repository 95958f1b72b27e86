CONSTANTS
    Track = {t1}
    Slot = {1}
    NULL = NULL
    mFrameCount = 2
    frameCount = 2
    audioHALFrames = 1
    kMaxTrackRetries = 1
    kMaxTrackStartupRetries = 1
    MIN_WARMUP_CYCLES = 1
    MAX_WARMUP_CYCLES = 1
    WriteSizes = {2}
SPECIFICATION Spec
PROPERTIES DestroyedTrackIsRemoved StoppedTrackLeaves
CHECK_DEADLOCK TRUE
