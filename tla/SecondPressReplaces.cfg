SPECIFICATION Spec
CONSTANTS
    Blocks = {b1}
    MaxLoops = 3
    MaxRuns = 3
CHECK_DEADLOCK FALSE
PROPERTY SecondPressReplaces
