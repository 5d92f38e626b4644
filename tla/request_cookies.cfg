SPECIFICATION Spec
CONSTANTS
    Tasks = {t1, t2}
    Keys = {ka}
    NoKey = nokey
    Hosts = {h1}
    NoHost = nohost
    Entries = {e1, e2}
    NoEntry = noentry
    Clears = {TRUE, FALSE}
    Guards = {TRUE}
    MayFail = FALSE
SYMMETRY SymmetricActors
INVARIANT ClearedCookiesStayCleared
