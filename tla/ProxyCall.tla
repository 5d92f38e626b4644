------------------------------- MODULE ProxyCall -------------------------------
(***************************************************************************)
(* The `proxy` extension: choosing and validating a proxy (_internal/      *)
(* extensions/proxy_context.py), the route that a call makes active in its *)
(* own context, and the sockets that capture it (socket_routing.py).       *)
(* Tasks nest routed calls, spawn tasks that inherit their context, and    *)
(* hand sockets to each other.  The negotiation with an HTTP proxy itself  *)
(* is ConnectHandshake.                                                    *)
(*                                                                         *)
(* A task suspends in a call while the guard resolves the proxy's host,    *)
(* and anywhere in the tool.  A call that is refused before that changes   *)
(* nothing and is not an action.                                           *)
(***************************************************************************)
EXTENDS Integers, SequencesExt

CONSTANTS
    Tasks,
    Sockets,        \* identities of socket objects (reused once closed)
    HttpUrls,       \* well-formed proxy URLs, http or https
    SocksUrls,      \* well-formed proxy URLs, socks4(a) or socks5(h)
    BadUrls,        \* without a host, with a bad port or another scheme
    NoRoute,        \* None
    Pools,          \* values of PROXY_POOL
    AllowCallers,   \* values of PROXY_ALLOW_CALLER_URLS
    Guards,         \* values of url_guard.guard_enabled()
    Extras,         \* whether PySocks is installed
    MaxDepth        \* bound on the nesting of routed calls in a task

Urls == HttpUrls \cup SocksUrls \cup BadUrls

ASSUME UrlAssumption == HttpUrls \cap SocksUrls = {} /\ (HttpUrls \cup SocksUrls) \cap BadUrls = {}
ASSUME SettingAssumption == /\ Pools \subseteq SUBSET Urls
                            /\ AllowCallers \cup Guards \cup Extras \subseteq BOOLEAN
ASSUME DepthAssumption == MaxDepth \in Nat

VARIABLES
    settings,   \* of the process
    task,       \* whether a task exists, and what it is suspended in
    active,     \* the value of active_route in the context of each task
    tokens,     \* the tokens of the `with route(...)` blocks a task is in
    sock,       \* the socket objects
    calls       \* history: the routed calls each task runs in, innermost last

vars == <<settings, task, active, tokens, sock, calls>>

\* connect_address: the host's name, resolved by connect(), or a validated IP.
Routes == [url : HttpUrls \cup SocksUrls, address : {"name", "validated"}]

AnyRoute == Routes \cup {NoRoute}

\* `route` is what the object captured; `owner` is a history, the innermost call it was
\* made in.  Used sockets know the route they took, their peer and the first bytes sent.
Closed == [at |-> "closed"]

Absent  == [at |-> "absent"]
Running == [at |-> "running"]

Innermost(t) == IF calls[t] = << >> THEN NoRoute ELSE Last(calls[t])

--------------------------------------------------------------------------------
(* Choosing a proxy.                                                            *)

CandidatesUnchecked(proxies) == IF proxies = {} THEN settings.pool ELSE proxies

\* _select_proxy_url(): random.choice takes any of them; none raises.
Candidates(proxies) ==
    IF proxies = {} THEN settings.pool
    ELSE IF settings.allow_caller_urls \/ proxies \subseteq settings.pool THEN proxies ELSE {}

ParsedUnchecked(url) == TRUE

\* build_route() parses it without raising.
Parsed(url) == url \in HttpUrls \/ (url \in SocksUrls /\ settings.extra)

CallerSupplied(url) == url \notin settings.pool

--------------------------------------------------------------------------------

Init == /\ settings \in [pool : Pools, allow_caller_urls : AllowCallers, guard : Guards, extra : Extras]
        /\ task = [t \in Tasks |-> Absent]
        /\ active = [t \in Tasks |-> NoRoute]
        /\ tokens = [t \in Tasks |-> << >>]
        /\ sock = [s \in Sockets |-> Closed]
        /\ calls = [t \in Tasks |-> << >>]

\* A task outside every routed call; run_in_executor and raw threads are such too.
Start(t) == /\ task[t] = Absent
            /\ task' = [task EXCEPT ![t] = Running]
            /\ UNCHANGED <<active, tokens, sock, calls>>

\* create_task() and to_thread() copy the context of the spawner.
Spawn(t, u) == /\ task[t] = Running /\ task[u] = Absent
               /\ task' = [task EXCEPT ![u] = Running]
               /\ active' = [active EXCEPT ![u] = active[t]]
               /\ calls' = [calls EXCEPT ![u] = IF Innermost(t) = NoRoute THEN << >> ELSE <<Innermost(t)>>]
               /\ UNCHANGED <<tokens, sock>>

End(t) == /\ task[t] = Running /\ tokens[t] = << >>
          /\ task' = [task EXCEPT ![t] = Absent]
          /\ active' = [active EXCEPT ![t] = NoRoute]
          /\ calls' = [calls EXCEPT ![t] = << >>]
          /\ UNCHANGED <<tokens, sock>>

\* `with route(cfg)`, and the tool starts.
Enter(t, route) == /\ active' = [active EXCEPT ![t] = route]
                   /\ tokens' = [tokens EXCEPT ![t] = Append(@, active[t])]
                   /\ calls' = [calls EXCEPT ![t] = Append(@, route)]
                   /\ task' = [task EXCEPT ![t] = Running]

\* A routed call: the URL is chosen and parsed, and used as it is or validated first.
Call(t, proxies, url) ==
    /\ task[t] = Running /\ Len(tokens[t]) < MaxDepth
    /\ url \in Candidates(proxies) /\ Parsed(url)
    /\ IF CallerSupplied(url) /\ settings.guard
       THEN task' = [task EXCEPT ![t] = [at |-> "resolving", url |-> url]] /\ UNCHANGED <<active, tokens, calls>>
       ELSE Enter(t, [url |-> url, address |-> "name"])
    /\ UNCHANGED sock

\* The host resolves to an address that the guard accepts.
ResolvedByName(t) ==
    /\ task[t].at = "resolving"
    /\ Enter(t, [url |-> task[t].url, address |-> "name"])
    /\ UNCHANGED sock

Resolved(t) == /\ task[t].at = "resolving"
               /\ Enter(t, [url |-> task[t].url, address |-> "validated"])
               /\ UNCHANGED sock

\* It does not, or the call is cancelled.
Rejected(t) == /\ task[t].at = "resolving"
               /\ task' = [task EXCEPT ![t] = Running]
               /\ UNCHANGED <<active, tokens, sock, calls>>

\* The tool returns, raises or is cancelled: the innermost route is reset.
LeaveClearing(t) == /\ task[t] = Running /\ tokens[t] # << >>
                    /\ active' = [active EXCEPT ![t] = NoRoute]
                    /\ tokens' = [tokens EXCEPT ![t] = Front(@)]
                    /\ calls' = [calls EXCEPT ![t] = Front(@)]
                    /\ UNCHANGED <<task, sock>>

Leave(t) == /\ task[t] = Running /\ tokens[t] # << >>
            /\ active' = [active EXCEPT ![t] = Last(tokens[t])]
            /\ tokens' = [tokens EXCEPT ![t] = Front(@)]
            /\ calls' = [calls EXCEPT ![t] = Front(@)]
            /\ UNCHANGED <<task, sock>>

--------------------------------------------------------------------------------
(* Sockets.                                                                     *)

\* __new__: the class of a new socket.
ClassFor(route) == IF route # NoRoute /\ route.url \in SocksUrls
                   THEN "RoutingSocksSocket" ELSE "RoutingSocket"

\* The method resolution orders, down to the standard socket (the base classes of
\* PySocks that define no connect() left out).
Mro(class) == IF class = "RoutingSocksSocket"
              THEN <<"RoutingSocksSocket", "socksocket", "RoutingSocket", "socket">>
              ELSE <<"RoutingSocket", "socket">>

\* What is first sent on the connection by connect() of the n-th class: each calls the
\* next, except that RoutingSocket negotiates itself when there is a route; PySocks
\* negotiates on the connection that its super().connect() makes.
FirstSent(class, route) ==
    LET mro == Mro(class)
        sent[n \in 1 .. Len(mro)] ==
            CASE mro[n] = "socket"        -> "data"
              [] mro[n] = "RoutingSocket" -> IF route = NoRoute THEN sent[n + 1] ELSE "CONNECT"
              [] mro[n] = "socksocket"    -> IF sent[n + 1] = "data" THEN "SOCKS" ELSE sent[n + 1]
              [] OTHER                    -> sent[n + 1]
    IN sent[1]

Open(t, s) == /\ task[t] = Running /\ sock[s] = Closed
              /\ sock' = [sock EXCEPT ![s] = [at |-> "open", route |-> active[t],
                                              class |-> ClassFor(active[t]), owner |-> Innermost(t)]]
              /\ UNCHANGED <<task, active, tokens, calls>>

\* connect() reads the route of the object, whichever task calls it.
RouteOfCaller(t, s) == active[t]

RouteOf(t, s) == sock[s].route

\* The peers that a connection along a route may reach: a name may resolve to anything.
Peers(route) == IF route = NoRoute THEN {"destination"}
                ELSE IF route.address = "validated" THEN {"public"} ELSE {"public", "internal"}

Connect(t, s) ==
    /\ task[t] = Running /\ sock[s].at = "open"
    /\ LET route == RouteOf(t, s)
       IN \E peer \in Peers(route) :
            sock' = [sock EXCEPT ![s] = [at |-> "used", owner |-> sock[s].owner, route |-> route,
                                         peer |-> peer, first |-> FirstSent(sock[s].class, route)]]
    /\ UNCHANGED <<task, active, tokens, calls>>

Close(s) == /\ sock[s] # Closed
            /\ sock' = [sock EXCEPT ![s] = Closed]
            /\ UNCHANGED <<task, active, tokens, calls>>

Next == /\ \/ \E t \in Tasks : \/ Start(t) \/ End(t) \/ Leave(t) \/ Resolved(t) \/ Rejected(t)
                               \/ \E u \in Tasks : Spawn(t, u)
                               \/ \E proxies \in SUBSET Urls, url \in Urls : Call(t, proxies, url)
                               \/ \E s \in Sockets : Open(t, s) \/ Connect(t, s)
           \/ \E s \in Sockets : Close(s)
        /\ UNCHANGED settings

Spec == Init /\ [][Next]_vars

--------------------------------------------------------------------------------
(* Properties.                                                                  *)

OpenSockets == [at : {"open"}, route : AnyRoute, owner : AnyRoute,
                class : {"RoutingSocket", "RoutingSocksSocket"}]
UsedSockets == [at : {"used"}, route : AnyRoute, owner : AnyRoute,
                peer : {"destination", "public", "internal"}, first : {"data", "CONNECT", "SOCKS"}]

\* Types of the variables: a route always has a URL the build accepts.
TypeOK ==
    /\ \A t \in Tasks : /\ task[t] \in {Absent, Running} \cup [at : {"resolving"}, url : Urls]
                        /\ active[t] \in AnyRoute
                        /\ Range(tokens[t]) \subseteq AnyRoute
                        /\ Range(calls[t]) \subseteq Routes
    /\ sock \in [Sockets -> {Closed} \cup OpenSockets \cup UsedSockets]

\* The active route of a task is that of the innermost routed call it runs in, or was
\* spawned in, however calls nest, fail or outlive each other: a call that ends uncovers
\* the route of the call around it, and none when there is none.
ContextMatchesCalls == \A t \in Tasks : active[t] = Innermost(t)

\* A socket takes the route of the call it was made in, also when it is connected by
\* another task, or when the call is over (socket_routing.py:11-12).
SocketKeepsItsCall == \A s \in Sockets : sock[s].at = "used" => sock[s].route = sock[s].owner

\* Unless the operator allows callers' URLs, everything that is routed goes through the
\* operator's pool (proxy_context.py:6-8).
PoolPolicy ==
    ~settings.allow_caller_urls =>
        \A route \in {active[t] : t \in Tasks}
                     \cup {sock[s].route : s \in {r \in Sockets : sock[r] # Closed}} :
            route # NoRoute => route.url \in settings.pool

\* With the guard on, a connection to a proxy that a caller supplied only ever reaches an
\* address the guard has accepted, whatever its name resolves to by then
\* (proxy_context.py:125, "never re-resolving the hostname").
ValidatedOnly ==
    settings.guard =>
        \A s \in Sockets : /\ sock[s].at = "used" /\ sock[s].route # NoRoute
                           /\ CallerSupplied(sock[s].route.url)
                           => sock[s].peer = "public"

\* A SOCKS proxy is spoken to in SOCKS (socket_routing.py:6-7, "The HTTP/HTTPS path
\* tunnels via a stdlib-only ``CONNECT``; a SOCKS route dispatches to a lazily-built
\* PySocks subclass").
SocksProxiesHearSocks ==
    \A s \in Sockets : /\ sock[s].at = "used" /\ sock[s].route # NoRoute
                       /\ sock[s].route.url \in SocksUrls
                       => sock[s].first = "SOCKS"
================================================================================
