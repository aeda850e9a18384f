SPECIFICATION Spec
CONSTANTS
    Replica = {r1, r2}
    MaxBundle = 5
    MaxAged = 2
    MaxFault <- MCMaxFault
    MaxRefused = 1
    MaxLost = 1
    MaxCrash = 1
INVARIANTS TypeOK BootAgreement SomeReplicaReachable
PROPERTIES DistributionSpec BootEndsOnlyByFault
CHECK_DEADLOCK FALSE
