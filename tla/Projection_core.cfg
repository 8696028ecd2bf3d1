SPECIFICATION FairSpec
CONSTANTS
    w1 = w1
    w2 = w2
    Workers = {w1, w2}
    Children = {c1}
    Services <- StreamingOrSweeping
    SerialWrites = TRUE
    AbortAfterWrite = FALSE
    LossyLedger = TRUE
    MaxEvents = 4
    MaxLives = 1
    MaxAborts = 1
    MaxParks = 1
INVARIANTS
    TypeOK
    ZombieCovered
    Converges
    RepairConverges
    DocIsCommitted
PROPERTIES
    WatermarkMonotone
    RemovalIsDue
    EventuallyConverges
    SweepRepairs
