SPECIFICATION Spec
CONSTANTS
    Agents = {a1, a2}
    Turn = turn
    Nobody = nobody
    Idle <- MCIdle
    Hard <- MCHard
    MaxRequests = 2
    MaxTurns = 1
    MaxInbox = 1
    MaxCancels = 1
SYMMETRY Symmetry
CHECK_DEADLOCK FALSE
INVARIANTS
    TypeOK
    EntriesAreSound
    LockGuardsEdits
