CONSTANTS
    c1 = c1
    c2 = c2
    MaxActions = 3
    Tags = {t1, t2}
    NULL = NULL
    SigchldIgnored = FALSE
    Commands <- MCCommands
    TaggedCommands <- MCTagged
    Configs <- MCConfigs
SPECIFICATION Spec
INVARIANTS
    TypeOK
    OneShellAtATime
    ActionsInTurn
    OnErrorHonoured
PROPERTIES
    CallsEnd
CHECK_DEADLOCK FALSE
