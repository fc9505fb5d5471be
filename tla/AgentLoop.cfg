SPECIFICATION FairSpec
CONSTANTS
    MaxSteps = 2
    MaxBlockRuns = 2
    MaxExpensiveRuns = 1
    OwnIsExpensive = TRUE
    MaxCalls = 3
    MaxInstructions = 2
CHECK_DEADLOCK FALSE
INVARIANTS
    TypeOK
    SpendsAsAllowed
    HistoryIsSound
PROPERTIES
    RunEnds
    LivesAsAgreed
