SPECIFICATION Spec
CONSTANTS
    Pods <- BothPods
    Rollouts <- TwoDrivers
    PinnedPointers = TRUE
    FenceMargin = TRUE
    EarlyBootFails = TRUE
    ProcessRetries = 2
    AbortThreshold = 3
PROPERTIES
    ActiveSlotUntouched
CHECK_DEADLOCK FALSE
