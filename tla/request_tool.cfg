SPECIFICATION FairSpec
CONSTANTS
    Tasks = {t1, t2, t3}
    Keys = {ka}
    NoKey = nokey
    Hosts = {h1, h2}
    NoHost = nohost
    Entries = {e1, e2}
    NoEntry = noentry
    Clears = {TRUE}
    Guards = {TRUE, FALSE}
    MayFail = TRUE
INVARIANT TypeOK
INVARIANT SessionExclusive
INVARIANT SentWithOwnPins
INVARIANT RegistryMatchesTasks
PROPERTY EveryWaitEnds
