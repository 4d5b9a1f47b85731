CONSTANTS
    Controls = {"permove"}
    Base = 1
    Inc = 0
    Margin = 1
    Rules <- OneAsked
    Scores <- MCScores
    MaxBook = 1
    MaxPlies = 4
    NumGames = 1
SPECIFICATION Spec
INVARIANTS ResignsOnOwnScore
CHECK_DEADLOCK FALSE
