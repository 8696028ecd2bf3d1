SPECIFICATION Spec
CONSTANTS
    w1 = w1
    w2 = w2
    Workers = {w1, w2}
    Children = {c1}
    Services <- KeepsArchived
    SerialWrites = TRUE
    AbortAfterWrite = TRUE
    LossyLedger = FALSE
    MaxEvents = 4
    MaxLives = 1
    MaxAborts = 1
    MaxParks = 0
INVARIANTS
    ZombieCovered
