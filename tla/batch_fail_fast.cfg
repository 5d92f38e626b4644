SPECIFICATION Spec
CONSTANTS
    MaxItems = 2
    MaxBatchSize = 3
    DefaultConcurrent = 2
    Modes = {"parallel"}
    Caps = {1}
    NoCap = nocap
    FailFasts = {TRUE}
    MayCancel = FALSE
PROPERTY StopsOnFirstError
