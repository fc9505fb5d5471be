SPECIFICATION Spec
CONSTANTS
    Executions = {e1}
    Workers = {w1}
    NoExecution = noExec
    MaxSteps = 2
    MaxRetries = 0
    MaxCancels = 0
    MaxRetryRequests = 0
    MaxFaults = 0
CHECK_DEADLOCK FALSE
PROPERTY TerminalIsFinal
