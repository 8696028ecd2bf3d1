SPECIFICATION Spec
CONSTANTS
    Pods <- BothPods
    Rollouts <- Calm
    PinnedPointers = TRUE
    FenceMargin = FALSE
    EarlyBootFails = TRUE
    ProcessRetries = 2
    AbortThreshold = 3
INVARIANTS
    DoneIsServed
CHECK_DEADLOCK FALSE
