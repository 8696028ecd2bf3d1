SPECIFICATION Spec
CONSTANTS
    Pods <- BothPods
    Rollouts <- NewViewCrash
    PinnedPointers = TRUE
    FenceMargin = TRUE
    EarlyBootFails = TRUE
    ProcessRetries = 2
    AbortThreshold = 3
INVARIANTS
    ServedWhenQuiet
CHECK_DEADLOCK FALSE
