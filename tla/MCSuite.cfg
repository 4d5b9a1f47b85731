CONSTANTS
    MaxCheckpoints = 3
    MayLosePower = TRUE
    WritesMayFail = TRUE
    SyncsDirectory = TRUE
    EntryCount = 2
SPECIFICATION SuiteSpec
INVARIANTS AcknowledgedStays ReadsAreFresh SearchedOnce CompletedIsWhole
CHECK_DEADLOCK FALSE
