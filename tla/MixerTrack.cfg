CONSTANTS
    Track = {t1}
    mFrameCount = 4
    mNormalFrameCount = 2
    audioHALFrames = 3
    kMaxTrackRetries = 2
    kMaxTrackStartupRetries = 2
    WriteSizes = {1, 2}
SPECIFICATION Spec
INVARIANTS MixerReadsLiveTracks DroppedTrackIsDisabled
PROPERTIES StopDrains NoResetWhileMixing FullTrackPlays EndingTrackLeaves
CHECK_DEADLOCK TRUE
