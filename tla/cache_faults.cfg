SPECIFICATION Spec
CONSTANTS
    Callers = {c1, c2, c3}
    Keys = {ka, kb, kc}
    Locks = {l1, l2, l3}
    Cap = 2
    TTLs = {0, 1}
    NoExpiry = none
    MaxTime = 2
    Coroutines = {TRUE, FALSE}
    MayFail = TRUE
    MayCancel = TRUE
SYMMETRY SymmetricActors
INVARIANT TypeOK
INVARIANT LockMatchesHolder
INVARIANT NoLostWakeup
INVARIANT RegisteredLockIsHeld
INVARIANT LockedKeysHaveNoValue
INVARIANT CapRespected
INVARIANT SingleFlightUnlessLost
INVARIANT NoReexecutionUnlessLost
PROPERTY StorageIsLru
