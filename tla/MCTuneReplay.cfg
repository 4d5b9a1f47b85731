CONSTANTS
    Iterations = 2
    PairsPerIteration = 2
    Concurrency = 2
    FaultFloor = 1
    FaultPerMille = 250
    StopLimits = {1, 2}
    Outcomes = {"win"}
    CutAnywhere = TRUE
    MaxSessions = 2
SPECIFICATION Spec
INVARIANTS ReplayIsFaithful
CHECK_DEADLOCK FALSE
