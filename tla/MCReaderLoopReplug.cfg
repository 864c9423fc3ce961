CONSTANTS
    NumReaders = 2
    Tags = {t1, t2}
    NULL = NULL
    Device = Device
    Garbage = Garbage
    HeapCleared = TRUE
    LossySelect = FALSE
SPECIFICATION Spec
PROPERTY
    PluggedReadersServe
