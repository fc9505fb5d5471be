SPECIFICATION Spec
CONSTANTS
    Agents = {a1}
    Turn = turn
    Nobody = nobody
    Idle <- MCIdle
    Hard <- MCHard
    MaxRequests = 1
    MaxTurns = 1
    MaxInbox = 2
    MaxCancels = 0
CHECK_DEADLOCK FALSE
INVARIANT TurnReadIsAnswered
