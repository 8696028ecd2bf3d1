SPECIFICATION FairSpec
CHECK_DEADLOCK FALSE
CONSTANTS
    Pods = {p1, p2}
    k1 = k1
    k2 = k2
    w1 = w1
    w2 = w2
    Keys = {k1, k2}
    Workers = {w1, w2}
    Incomplete = {4}
    QueueDepth = 1
    FetchBuffer = 1
    MaxOffset = 4
    MaxFaults = 1
    KeyOf <- MCKeyOf
    BucketOf <- MCBucketOf
INVARIANTS
    TypeOK
    NothingSkipped
    KeyOrder
    KeySerial
PROPERTIES
    CommittedMonotone
    ImplementsPort
    EveryEventFinishes
