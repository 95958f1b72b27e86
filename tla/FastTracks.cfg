CONSTANTS
    Track = {t1, t2}
    Slot = {1}
    NULL = NULL
    mFrameCount = 2
    frameCount = 2
    audioHALFrames = 1
    kMaxTrackRetries = 1
    kMaxTrackStartupRetries = 1
    MIN_WARMUP_CYCLES = 1
    MAX_WARMUP_CYCLES = 2
    WriteSizes = {1, 2}
SPECIFICATION Safety
INVARIANTS FastMixerReadsLiveTracks FreeSlotIsUnused
PROPERTIES NoResetWhileFastMixing
SYMMETRY TrackSymmetry
CHECK_DEADLOCK TRUE
