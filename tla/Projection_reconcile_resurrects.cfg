SPECIFICATION Spec
CONSTANTS
    w1 = w1
    w2 = w2
    Workers = {w1, w2}
    Children = {c1}
    Services <- SweepsOnly
    SerialWrites = TRUE
    AbortAfterWrite = FALSE
    LossyLedger = FALSE
    MaxEvents = 4
    MaxLives = 1
    MaxAborts = 0
    MaxParks = 0
INVARIANTS
    DeletedIsGone
