CONSTANTS
    Games = 3
    Concurrency = 2
    MaxEngineFaults = 1
    MaxTimeLosses = 0
    KeepEngines = TRUE
    MaxSessions = 2
SPECIFICATION Spec
INVARIANTS SlotToItself CreditIsRight
PROPERTIES VerdictStands
CHECK_DEADLOCK FALSE
