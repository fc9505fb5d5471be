SPECIFICATION FairSpec
CONSTANTS
    clean = clean
    wider = wider
    renamed = renamed
    loose = loose
    cut = cut
    rule = rule
    m1 = m1
    m2 = m2
    ports1 = ports1
    ports2 = ports2
    Texts <- MCTexts
    NoText = noText
    Rules = {rule}
    Sound = {clean, wider, renamed, loose}
    Whole = {clean, wider, renamed, loose}
    Doubtful = {loose}
    Names = {m1, m2}
    NoName = noName
    Module <- MCModule
    Ports <- MCPorts
    NoPorts = noPorts
    Meets <- MCMeets
CHECK_DEADLOCK FALSE
INVARIANTS
    TypeOK
    OkIsEarned
    FailureIsNeutral
PROPERTIES
    RepairsFit
    RequestEnds
