SPECIFICATION FairSpec
CONSTANTS
    Agents = {a1, a2}
    Turn = turn
    Nobody = nobody
    Idle <- MCIdle
    Hard <- MCHard
    MaxRequests = 2
    MaxTurns = 0
    MaxInbox = 1
    MaxCancels = 0
CHECK_DEADLOCK FALSE
 
PROPERTIES
    
    WaitEnds
