SPECIFICATION FairSpec
CONSTANTS
    MaxItems = 6
    MaxBatchSize = 5
    DefaultConcurrent = 2
    Modes = {"sequential", "parallel", "other"}
    Caps = {nocap, 0, 1, 2, 3}
    NoCap = nocap
    FailFasts = {TRUE, FALSE}
    MayCancel = TRUE
INVARIANT TypeOK
INVARIANT SlotsConserved
INVARIANT NoIdleSlot
INVARIANT NothingOutlivesTheCall
INVARIANT ReturnsAllInOrder
INVARIANT FailuresFillTheirSlots
PROPERTY KeepsContract
PROPERTY CallEnds
