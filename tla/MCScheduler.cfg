CONSTANTS
    NumGames = 3
    MaxConcurrency = 2
    MaxCommands = 3
    MaxLoads = 2
    MayPanic = TRUE
    StoreMayFail = FALSE
SPECIFICATION FairSpec
INVARIANTS HistoryAgrees SnapshotFresh FinishedIsComplete BusyWhilePlaying
PROPERTIES ImplementsLedger PlayEnds StopDrains
CHECK_DEADLOCK FALSE
