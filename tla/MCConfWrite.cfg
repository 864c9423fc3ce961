CONSTANTS
    Chars <- MCChars
    Normal = {"a"}
    Strings <- MCStrings
    EmptyString <- MCEmptyString
    FirstStrings <- MCFirstStrings
    NULL = NULL
    MaxTokens = 40
    ReadTokens = 7
SPECIFICATION WriteSpec
INVARIANTS
    TypeOK
    OneItemPerKey
    TreeShape
    ReadsBack
    CutIsPart
PROPERTIES
    ItemsSurvive
CHECK_DEADLOCK FALSE
