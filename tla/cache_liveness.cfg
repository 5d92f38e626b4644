SPECIFICATION FairSpec
CONSTANTS
    Callers = {c1, c2, c3}
    Keys = {ka, kb}
    Locks = {l1, l2, l3}
    Cap = 1
    TTLs = {none}
    NoExpiry = none
    MaxTime = 0
    Coroutines = {TRUE}
    MayFail = TRUE
    MayCancel = TRUE
PROPERTY EveryWaitEnds
