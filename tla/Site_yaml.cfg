SPECIFICATION Spec
CONSTANTS
    BUILTINS <- MCBUILTINS
    Library <- MCLibrary
    Name <- MCName
    Typed <- MCTyped
    Sample <- MCSample
    Log <- MCLog
    NamespaceInput <- MCNamespaceInput
    Letter <- MCLetter
    Digit <- MCDigit
    Separator <- MCSeparator
    Special <- MCSpecial
    MaxCustoms = 1
    MaxId = 1
    MaxSuggesting = 1
    Nothing = Nothing
    MaxPending = 1
    codes <- MCcodes
    Height = {1}
    Item = {"rbac"}
    Closed = Closed
INVARIANT YamlReadyToUse
