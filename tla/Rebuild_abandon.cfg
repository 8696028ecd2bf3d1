SPECIFICATION Spec
CONSTANTS
    Pods <- BothPods
    Rollouts <- Failing
    PinnedPointers = TRUE
    FenceMargin = TRUE
    EarlyBootFails = TRUE
    ProcessRetries = 2
    AbortThreshold = 3
INVARIANTS
    RecordedIsBuilt
CHECK_DEADLOCK FALSE
