SPECIFICATION FairSpec
CONSTANTS
    Pods <- BothPods
    Rollouts <- AnyRollout
    PinnedPointers = TRUE
    FenceMargin = TRUE
    EarlyBootFails = TRUE
    ProcessRetries = 2
    AbortThreshold = 3
INVARIANTS
    TypeOK
    DoneIsServed
    NoOrphanWithoutRepair
    RecordedIsBuilt
    ServedWhenQuiet
PROPERTIES
    ActiveSlotUntouched
    RebuildCompletes
CHECK_DEADLOCK FALSE
