CONSTANTS
    Strings = {k1, k2}
    EmptyString = ""
    NULL = NULL
    MaxTokens = 11
SPECIFICATION FileSpec
INVARIANTS
    Accepted
    BlocksAsWritten
    ValuesAsWritten
    ItemShape
CHECK_DEADLOCK FALSE
