SPECIFICATION Spec
CONSTANTS
    Tasks = {t1, t2}
    Sockets = {s1}
    HttpUrls = {pool_http, caller_http}
    SocksUrls = {pool_socks}
    BadUrls = {bad}
    NoRoute = noroute
    Pools = {{}, {pool_http, pool_socks, bad}}
    AllowCallers = {TRUE, FALSE}
    Guards = {TRUE, FALSE}
    Extras = {TRUE, FALSE}
    MaxDepth = 2
INVARIANT TypeOK
INVARIANT ContextMatchesCalls
INVARIANT SocketKeepsItsCall
INVARIANT PoolPolicy
INVARIANT ValidatedOnly
