CONSTANTS
    c1 = c1
    c2 = c2
    NumReaders = 2
    Tags = {t1, t2}
    NULL = NULL
    Device = Device
    Garbage = Garbage
    HeapCleared = FALSE
    LossySelect = TRUE
    SigchldIgnored = FALSE
    Commands <- MCCommands
    TaggedCommands <- MCTagged
    Configs <- MCConfigs
SPECIFICATION Spec
INVARIANT
    CallsMatch
PROPERTIES
    KeepsPromise
    NoPollingDuringCommands
    RecordedAfterActions
    KeepsPolling
