SPECIFICATION Spec
CONSTANTS
    Tasks = {t1}
    Sockets = {s1}
    HttpUrls = {pool_http}
    SocksUrls = {pool_socks}
    BadUrls = {}
    NoRoute = noroute
    Pools = {{pool_http, pool_socks}}
    AllowCallers = {FALSE}
    Guards = {TRUE}
    Extras = {TRUE}
    MaxDepth = 1
INVARIANT SocksProxiesHearSocks
