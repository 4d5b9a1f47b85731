CONSTANTS
    Plans <- MCPlans
    WordValues = 8
    MaxPlayed = 3
    MaxThreads = 4
    MaxEngineFaults = 1
    KeepEngines = TRUE
    MaxSessions = 2
SPECIFICATION FairSpec
INVARIANTS ScheduleIsFair GamesAreApart OpeningsAreFair
PROPERTIES KeptEnginesServe VerdictIsRight TournamentEnds
CHECK_DEADLOCK FALSE
