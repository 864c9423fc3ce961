CONSTANTS
    Strings = {k1, k2}
    EmptyString = ""
    NULL = NULL
    MaxTokens = 6
SPECIFICATION FileSpec
INVARIANT
    GrammarIsRead
CHECK_DEADLOCK FALSE
