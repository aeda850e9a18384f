SPECIFICATION LiveSpec
CONSTANTS
    Replica = {r1, r2}
    MaxBundle = 6
    MaxAged = 1
    MaxFault <- MCMaxFault
    MaxRefused = 0
    MaxLost = 0
    MaxCrash = 0
PROPERTIES ReplicasShareTrustedCert
CHECK_DEADLOCK FALSE
