CONSTANTS
    k = k
    l = l
    c1 = c1
    c2 = c2
    NULL = NULL
    Keys = {k, l}
    Values = {"1", ""}
    Files <- MCFiles
    Tables <- MCTables
    Cells = {c1, c2}
    IntOf <- MCIntOf
    BoolOf <- MCBoolOf
    Size <- MCSize
    MaxBlocks = 6
    MaxCalls = 3
SPECIFICATION EntriesSpec
INVARIANTS
    OneOwner
    EntriesTypeOK
    ReadBack
PROPERTIES
    CopyIsEqual
    OneBlockGrows
    StopsAtFirst
CHECK_DEADLOCK FALSE
