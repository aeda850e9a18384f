SPECIFICATION LiveSpec
CONSTANTS
    plain = plain
    split = split
    long = long
    App = {plain, split, long}
    Script <- MCScript
    MaxLine = 4
    PipeBuf = 3
    PipeCap = 6
    MaxActive = 2
    MaxCrash = 1
    MaxEnd = 1
INVARIANTS TypeOK InOrder NoRawSecret
PROPERTIES LoneWriterDelivers AppsFinish LogSpec
CHECK_DEADLOCK FALSE
