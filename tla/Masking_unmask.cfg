SPECIFICATION Spec
CONSTANTS
    Line <- MCLine
    PolicyRules <- MCPolicyRules
    AddedRules <- MCAddedRules
    Word <- MCWord
    Library <- MCLibrary
    AuditPolicy <- MCAuditPolicy
INVARIANTS AnnotationsCannotUnmask
CHECK_DEADLOCK FALSE
