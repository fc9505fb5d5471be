SPECIFICATION Spec
CONSTANTS
    MaxSteps = 1
    MaxBlockRuns = 2
    MaxExpensiveRuns = 1
    OwnIsExpensive = TRUE
    MaxCalls = 1
    MaxInstructions = 2
CHECK_DEADLOCK FALSE
INVARIANT TranscriptIsAnswered
