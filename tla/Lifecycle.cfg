SPECIFICATION MCFairSpec
CONSTANTS
    Executions = {e1}
    Workers = {w1, w2}
    NoExecution = noExec
    MaxSteps = 2
    MaxRetries = 1
    MaxCancels = 1
    MaxRetryRequests = 1
    MaxFaults = 1
CHECK_DEADLOCK FALSE
INVARIANTS
    TypeOK
    RunningIsAttended
    RunsAreContained
    CompleteWasAnnounced
    DeliveriesAccounted
PROPERTY RunningEnds
