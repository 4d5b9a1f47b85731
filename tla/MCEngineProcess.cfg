CONSTANTS
    Deadline = 2
    LateWindow = 1
    MaxGo = 3
    MaxNoise = 1
SPECIFICATION FairProcessSpec
PROPERTIES OwnAnswer JudgedByArrival CallsReturn
CHECK_DEADLOCK FALSE
