SPECIFICATION Spec
CONSTANTS
    BUILTINS <- MCBUILTINS
    Library <- MCLibrary
    Name <- MCName
    Typed <- MCTyped
    Sample <- MCSample
    Log <- MCLog
    NamespaceInput <- MCNamespaceInput
    Letter <- MCLetter
    Digit <- MCDigit
    Separator <- MCSeparator
    Special <- MCSpecial
    MaxCustoms = 2
    MaxId = 3
    MaxSuggesting = 1
    Nothing = Nothing
    MaxPending = 2
    codes <- MCcodes
    Height = {1, 2}
    Item = {"rbac"}
    Closed = Closed
INVARIANTS TypeOK RowsDistinct PreviewKeepsText  SuggestionFits
    EveryCodeHasPanel BarFollowsPanel HeightFits CheckHasTimer AnswerMatchesTrigger
PROPERTIES GuideSettles
