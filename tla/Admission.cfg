SPECIFICATION Spec
CONSTANTS
    Library <- MCLibrary
    SafeRegex <- MCSafeRegex
    PolicySpec <- MCPolicySpec
    NPolicy = 2
    Pod <- MCPod
    MaxMoments = 2
INVARIANTS TypeOK RulesOfOneMoment AnnotationsExtend NoneUnmaskedByError SidecarCanMask
