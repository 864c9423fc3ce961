CONSTANTS
    FileNames = {etc, other}
    DefaultFile = etc
    MaxArguments = 3
    NULL = NULL
    MAX_READERS = 2
    Contents <- MCContents
    Arguments <- MCArguments
SPECIFICATION Spec
INVARIANT
    NodebugWins
CHECK_DEADLOCK FALSE
