SPECIFICATION Spec
CONSTANTS
    Line <- MCLine
    PolicyRules <- MCPolicyRules
    AddedRules <- MCAddedRules
    Word <- MCWord
    Library <- MCLibrary
    AuditPolicy <- MCAuditPolicy
INVARIANTS NoMatchSurvives NamedFieldsGone AnnotationsOnlyHide UnmatchedUntouched AuditFindsExposure
CHECK_DEADLOCK FALSE
