CONSTANTS
    MaxPairs = 2
    SyncEvery = 2
    QueueCapacity = 2
    MaxSessions = 3
    MaxCheckpoints = 0
    MayLosePower = FALSE
    WritesMayFail = FALSE
SPECIFICATION Spec
INVARIANTS PairsAreColourReversed
CHECK_DEADLOCK FALSE
