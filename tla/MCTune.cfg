CONSTANTS
    Iterations = 2
    PairsPerIteration = 2
    Concurrency = 2
    FaultFloor = 1
    FaultPerMille = 250
    StopLimits = {1, 2}
    Outcomes = {"win", "loss", "forfeit", "unscorable"}
    CutAnywhere = FALSE
    MaxSessions = 2
SPECIFICATION Spec
INVARIANTS MiniMatchIsWhole CentresAreJournalled
PROPERTIES InvalidStands
CHECK_DEADLOCK FALSE
