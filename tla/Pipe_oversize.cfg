SPECIFICATION Spec
CONSTANTS
    plain = plain
    split = split
    long = long
    App = {long}
    Script <- MCScript
    MaxLine = 4
    PipeBuf = 3
    PipeCap = 4
    MaxActive = 2
    MaxCrash = 0
    MaxEnd = 0
INVARIANTS OversizedLineDropped
CHECK_DEADLOCK FALSE
