SPECIFICATION MCSpec
CONSTANTS
    Block = b1
    Blocks = {b1, b2}
    Turns = {t1, t2}
    NoTurn = noTurn
    Menu <- MCMenu
    Later = t2
    Plain = plain
    Callers = {plain, agent}
    Talkers = {agent}
    Cooldown = 2
    MaxTime = 2
    MaxTurns = 5
    Presses = {p1, p2}
    MaxAnswers = 3
    MaxChanges = 1
    Agents = {a1, a2}
    Stranger = stranger
    Nothing = nothing
    MaxSubTasks = 2
    Alone = {alone}
    Executions = {x1, x2}
    Watched = x1
    Elsewhere = s3
    Second = p2
    Single = a1
    Sockets = {s1, s2, s3}
    Watches <- MCWatches
    NoEvent = noEvent
    MaxEvents = 3
    MaxDrops = 1
CHECK_DEADLOCK FALSE
INVARIANTS
    ServicesTypeOK
    OutcomesAreHonest
    OnlyVoiceOutlives
    RoutingIsHonest
    WireIsWellFormed
    EntitlementIsCurrent
    ResultsAreKept
    StreamIsFaithful
PROPERTY PlaceholdersAreSettled
