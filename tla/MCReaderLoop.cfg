CONSTANTS
    NumReaders = 2
    Tags = {t1, t2}
    NULL = NULL
    Device = Device
    Garbage = Garbage
    HeapCleared = FALSE
    LossySelect = FALSE
SPECIFICATION Spec
INVARIANTS
    TypeOK
PROPERTIES
    OncePerPresentation
    Refinement
    EventuallyAccurate
    FirstConnect
