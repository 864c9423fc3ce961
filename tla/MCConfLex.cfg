CONSTANTS
    Alphabet <- MCAlphabet
    NULL = NULL
    MaxText = 6
SPECIFICATION Spec
INVARIANTS
    TypeOK
    LinesAreIndependent
    LongestMatch
CHECK_DEADLOCK FALSE
