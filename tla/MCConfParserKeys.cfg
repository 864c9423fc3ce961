CONSTANTS
    Strings = {k1, k2}
    EmptyString = ""
    NULL = NULL
    MaxTokens = 6
SPECIFICATION Spec
INVARIANT
    ItemsHaveKeys
CHECK_DEADLOCK FALSE
