SPECIFICATION Spec
CONSTANTS
    Pods <- BothPods
    Rollouts <- Crashing
    PinnedPointers = TRUE
    FenceMargin = TRUE
    EarlyBootFails = FALSE
    ProcessRetries = 2
    AbortThreshold = 3
PROPERTIES
    ActiveSlotUntouched
CHECK_DEADLOCK FALSE
