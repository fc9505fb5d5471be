SPECIFICATION Spec
CONSTANTS
    Blocks = {b1, b2}
    MaxLoops = 2
    MaxRuns = 3
SYMMETRY Symmetry
CHECK_DEADLOCK FALSE
INVARIANTS
    TypeOK
    OnlyCurrentSpeaks
    RegistrationsMatch
    StopsAreFinal
PROPERTY FirstLivesAsAgreed
