CONSTANTS
    MaxPairs = 4
    Concurrency = 3
    Boundary = 2
    FaultAllowance = 1
    UnitBudget = 3
    MaxSessions = 2
SPECIFICATION FairSpec
INVARIANTS SampleEndsAtBoundary StatusIsRight ResumesUnlessTerminal
PROPERTIES StopEnds
CHECK_DEADLOCK FALSE
