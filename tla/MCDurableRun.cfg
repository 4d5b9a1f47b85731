CONSTANTS
    MaxPairs = 2
    SyncEvery = 2
    QueueCapacity = 2
    MaxSessions = 2
    MaxCheckpoints = 1
    MayLosePower = TRUE
    WritesMayFail = TRUE
SPECIFICATION FairSpec
INVARIANTS AlwaysResumable LinesHaveMoves ResultBacked SettledIsDurable
PROPERTIES ImplementsLog RunEnds
CHECK_DEADLOCK FALSE
