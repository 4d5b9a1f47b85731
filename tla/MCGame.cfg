CONSTANTS
    Controls = {"clock", "fixed"}
    Base = 1
    Inc = 1
    Margin = 1
    Rules <- BothAsked
    Scores = {1}
    MaxBook = 1
    MaxPlies = 3
    NumGames = 2
SPECIFICATION FairSpec
INVARIANTS NoSearchForgotten OnlyFitEnginesStay BlameIsEarned
PROPERTIES GameEnds
CHECK_DEADLOCK FALSE
