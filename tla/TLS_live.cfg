SPECIFICATION LiveSpec
CONSTANTS
    Replica = {r1}
    MaxBundle = 9
    MaxAged = 2
    MaxFault <- MCMaxFault
    MaxRefused = 2
    MaxLost = 1
    MaxCrash = 2
PROPERTIES RotationCompletes LoneReplicaHeals
CHECK_DEADLOCK FALSE
