CONSTANTS
    kN = 4
    State = {s0, s1, s2}
    InitState = s0
    NULL = NULL
SPECIFICATION Spec
INVARIANTS
    TypeOK
    SlotExclusion
    AckedMeansCurrent
PROPERTIES
    StableWhileRead
    PushReturns
    ImplementsMailbox
CHECK_DEADLOCK TRUE
