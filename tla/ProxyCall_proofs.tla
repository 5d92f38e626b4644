--------------------------- MODULE ProxyCall_proofs ----------------------------
(***************************************************************************)
(* Routes and sockets for any tasks, sockets, URLs, settings and depth of  *)
(* nesting: the active route follows the calls, a socket keeps the route   *)
(* of its call, and nothing escapes the operator's pool or the guard.      *)
(***************************************************************************)
EXTENDS ProxyCall, SequenceTheorems, TLAPS

--------------------------------------------------------------------------------
(* The inductive invariant.                                                     *)

Resolving == [at : {"resolving"}, url : HttpUrls \cup SocksUrls]

Types ==
    /\ settings \in [pool : SUBSET Urls, allow_caller_urls : BOOLEAN, guard : BOOLEAN, extra : BOOLEAN]
    /\ task \in [Tasks -> {Absent, Running} \cup Resolving]
    /\ active \in [Tasks -> AnyRoute]
    /\ tokens \in [Tasks -> Seq(AnyRoute)]
    /\ calls \in [Tasks -> Seq(Routes)]
    /\ sock \in [Sockets -> {Closed} \cup OpenSockets \cup UsedSockets]

\* The route in force once the first n of some nested calls have been entered.
AfterEntering(cl, n) == IF n = 0 THEN NoRoute ELSE cl[n]

\* Each token is the route that its block covered.  A task spawned within a call has
\* that call, and no token for it.
Nest(route, toks, cl) ==
    /\ Len(cl) \in {Len(toks), Len(toks) + 1}
    /\ route = AfterEntering(cl, Len(cl))
    /\ \A i \in 1 .. Len(toks) : toks[i] = AfterEntering(cl, i + (Len(cl) - Len(toks)) - 1)

Nesting == \A t \in Tasks : /\ Nest(active[t], tokens[t], calls[t])
                            /\ task[t] = Absent => tokens[t] = << >>

PermittedUrl(url, cfg) == ~cfg.allow_caller_urls => url \in cfg.pool

\* What the policy and the guard let a call run under, with the settings cfg.
Permitted(route, cfg) ==
    route # NoRoute =>
        /\ PermittedUrl(route.url, cfg)
        /\ cfg.guard /\ route.url \notin cfg.pool => route.address = "validated"

\* A task in state st within the calls cl.
TaskPermitted(st, cl, cfg) ==
    /\ \A i \in 1 .. Len(cl) : Permitted(cl[i], cfg)
    /\ st.at = "resolving" => PermittedUrl(st.url, cfg)

CallsPermitted == \A t \in Tasks : TaskPermitted(task[t], calls[t], settings)

SocketPermitted(s, cfg) ==
    s # Closed => /\ s.route = s.owner
                  /\ Permitted(s.route, cfg)
                  /\ s.at = "used" => s.peer \in Peers(s.route)

SocketsPermitted == \A s \in Sockets : SocketPermitted(sock[s], settings)

IInv == Types /\ Nesting /\ CallsPermitted /\ SocketsPermitted

--------------------------------------------------------------------------------
(* Lemmas about the operators.                                                  *)

\* The states of a task are distinct.
LEMMA TaskStates ==
    /\ Absent # Running
    /\ Absent.at = "absent" /\ Running.at = "running"
    /\ Closed.at = "closed"
    /\ \A r \in Resolving : r # Absent /\ r # Running /\ r.at = "resolving" /\ r.url \in HttpUrls \cup SocksUrls
  BY DEF Absent, Running, Closed, Resolving

\* Removing the last element of a sequence.
LEMMA FrontLast ==
    ASSUME NEW S, NEW s \in Seq(S), s # << >>
    PROVE  /\ Front(s) \in Seq(S)
           /\ Len(s) \in Nat \ {0}
           /\ Len(Front(s)) = Len(s) - 1
           /\ \A i \in 1 .. Len(s) - 1 : Front(s)[i] = s[i]
           /\ Last(s) = s[Len(s)] /\ Last(s) \in S
<1>1. Len(s) \in Nat \ {0} /\ Len(s) \in Nat /\ Len(s) >= 1
  BY EmptySeq, LenProperties
<1>2. \A i \in 1 .. Len(s) : s[i] \in S
  BY ElementOfSeq
<1>3. \A i \in 1 .. Len(s) - 1 : s[i] \in S
  BY <1>1, <1>2
<1> DEFINE n == Len(s) - 1
           front == SubSeq(s, 1, n)
<1>4. n \in Nat
  BY <1>1
<1> HIDE DEF n
<1>5. /\ front \in Seq(S)
      /\ Len(front) = n
      /\ \A i \in 1 .. n : front[i] = s[i]
  <2>1. \A i \in 1 .. n : s[i] \in S
    BY <1>3 DEF n
  <2>2. /\ front \in Seq(S)
        /\ Len(front) = IF 1 <= n THEN n - 1 + 1 ELSE 0
        /\ \A i \in 1 .. n - 1 + 1 : front[i] = s[1 + i - 1]
    BY <1>4, <2>1, SubSeqProperties
  <2> HIDE DEF front
  <2> QED
    BY <1>4, <2>2
<1> HIDE DEF front
<1> QED
  BY <1>1, <1>2, <1>5 DEF front, n, Front, Last

\* A task outside every call, or spawned within one, is nested.
LEMMA NestSpawned ==
    ASSUME NEW route
    PROVE  Nest(route, << >>, IF route = NoRoute THEN << >> ELSE <<route>>)
  BY DEF Nest, AfterEntering

\* Entering a call keeps a task nested.
LEMMA NestEnter ==
    ASSUME NEW a \in AnyRoute, NEW toks \in Seq(AnyRoute), NEW cl \in Seq(Routes),
           NEW route \in Routes, Nest(a, toks, cl)
    PROVE  Nest(route, Append(toks, a), Append(cl, route))
<1>1. /\ Len(Append(toks, a)) = Len(toks) + 1
      /\ \A i \in 1 .. Len(toks) : Append(toks, a)[i] = toks[i]
      /\ Append(toks, a)[Len(toks) + 1] = a
  BY AppendProperties
<1>2. /\ Len(Append(cl, route)) = Len(cl) + 1
      /\ \A i \in 1 .. Len(cl) : Append(cl, route)[i] = cl[i]
      /\ Append(cl, route)[Len(cl) + 1] = route
  BY AppendProperties
<1>3. Len(toks) \in Nat /\ Len(cl) \in Nat
  BY LenProperties
<1> DEFINE toks2 == Append(toks, a)
           cl2 == Append(cl, route)
<1> HIDE DEF toks2, cl2
<1>4. \A n \in 0 .. Len(cl) : AfterEntering(cl2, n) = AfterEntering(cl, n)
  BY <1>2, <1>3 DEF AfterEntering, cl2
<1>5. Len(cl2) - Len(toks2) = Len(cl) - Len(toks)
  BY <1>1, <1>2, <1>3 DEF toks2, cl2
<1>6. ASSUME NEW i \in 1 .. Len(toks) + 1
      PROVE  toks2[i] = AfterEntering(cl2, i + (Len(cl) - Len(toks)) - 1)
  <2>1. i + (Len(cl) - Len(toks)) - 1 \in 0 .. Len(cl)
    BY <1>3 DEF Nest
  <2>2. CASE i \in 1 .. Len(toks)
    BY <1>1, <1>4, <2>1, <2>2 DEF Nest, toks2
  <2>3. CASE i = Len(toks) + 1
    <3>1. i + (Len(cl) - Len(toks)) - 1 = Len(cl)
      BY <1>3, <2>3 DEF Nest
    <3> QED
      BY <1>1, <1>4, <2>1, <2>3, <3>1 DEF Nest, toks2
  <2> QED
    BY <1>3, <2>2, <2>3
<1>7. route = AfterEntering(cl2, Len(cl2))
  BY <1>2, <1>3 DEF AfterEntering, cl2
<1>8. Len(cl2) \in {Len(toks2), Len(toks2) + 1} /\ Len(toks2) = Len(toks) + 1
  BY <1>1, <1>2, <1>3 DEF Nest, toks2, cl2
<1>9. Nest(route, toks2, cl2)
  BY <1>5, <1>6, <1>7, <1>8 DEF Nest
<1> QED
  BY <1>9 DEF toks2, cl2

\* Leaving a call, which resets the innermost token, keeps a task nested.
LEMMA NestLeave ==
    ASSUME NEW a, NEW toks \in Seq(AnyRoute), NEW cl \in Seq(Routes),
           toks # << >>, Nest(a, toks, cl)
    PROVE  /\ cl # << >>
           /\ Nest(Last(toks), Front(toks), Front(cl))
<1>1. /\ Len(toks) \in Nat \ {0}
      /\ Len(Front(toks)) = Len(toks) - 1
      /\ \A i \in 1 .. Len(toks) - 1 : Front(toks)[i] = toks[i]
      /\ Last(toks) = toks[Len(toks)]
  BY FrontLast
<1>2. Len(cl) \in Nat \ {0} /\ cl # << >>
  <2>1. Len(cl) \in {Len(toks), Len(toks) + 1}
    BY DEF Nest
  <2> QED
    BY <1>1, <2>1, EmptySeq
<1>3. /\ Len(Front(cl)) = Len(cl) - 1
      /\ \A i \in 1 .. Len(cl) - 1 : Front(cl)[i] = cl[i]
  BY <1>2, FrontLast
<1> DEFINE toks2 == Front(toks)
           cl2 == Front(cl)
<1> HIDE DEF toks2, cl2
<1>4. \A n \in 0 .. Len(cl) - 1 : AfterEntering(cl2, n) = AfterEntering(cl, n)
  BY <1>2, <1>3 DEF AfterEntering, cl2
<1>5. Len(cl2) - Len(toks2) = Len(cl) - Len(toks)
  BY <1>1, <1>2, <1>3 DEF toks2, cl2
<1>6. ASSUME NEW i \in 1 .. Len(toks) - 1
      PROVE  toks2[i] = AfterEntering(cl2, i + (Len(cl) - Len(toks)) - 1)
  <2>1. i + (Len(cl) - Len(toks)) - 1 \in 0 .. Len(cl) - 1 /\ i \in 1 .. Len(toks)
    BY <1>1, <1>2 DEF Nest
  <2> QED
    BY <1>1, <1>4, <2>1 DEF Nest, toks2
<1>7. Last(toks) = AfterEntering(cl2, Len(cl2))
  <2>1. Len(toks) + (Len(cl) - Len(toks)) - 1 = Len(cl2) /\ Len(toks) \in 1 .. Len(toks)
        /\ Len(cl2) \in 0 .. Len(cl) - 1
    BY <1>1, <1>2, <1>3 DEF cl2
  <2> QED
    BY <1>1, <1>4, <2>1 DEF Nest
<1>8. Len(cl2) \in {Len(toks2), Len(toks2) + 1} /\ Len(toks2) = Len(toks) - 1
  BY <1>1, <1>2, <1>3 DEF Nest, toks2, cl2
<1>9. Nest(Last(toks), toks2, cl2)
  BY <1>5, <1>6, <1>7, <1>8 DEF Nest
<1> QED
  BY <1>2, <1>9 DEF toks2, cl2

\* In a nested task the active route is that of the innermost call.
LEMMA NestInnermost ==
    ASSUME Types, NEW t \in Tasks, Nest(active[t], tokens[t], calls[t])
    PROVE  /\ active[t] = Innermost(t)
           /\ active[t] \in AnyRoute
           /\ active[t] # NoRoute => \E i \in 1 .. Len(calls[t]) : active[t] = calls[t][i]
<1>1. calls[t] \in Seq(Routes) /\ Len(calls[t]) \in Nat /\ (calls[t] = << >> <=> Len(calls[t]) = 0)
  <2>1. calls[t] \in Seq(Routes)
    BY DEF Types
  <2> QED
    BY <2>1, EmptySeq, LenProperties
<1>2. active[t] = AfterEntering(calls[t], Len(calls[t]))
  BY DEF Nest
<1> QED
  BY <1>1, <1>2 DEF Innermost, AfterEntering, Last, Types

\* Whatever the class and the route, something is sent, in a protocol that exists.
LEMMA FirstSentType ==
    ASSUME NEW route, NEW class
    PROVE  FirstSent(class, route) \in {"data", "CONNECT", "SOCKS"}
<1> DEFINE mro == Mro(class)
           F(g) == [n \in 1 .. Len(mro) |->
                      CASE mro[n] = "socket"        -> "data"
                        [] mro[n] = "RoutingSocket" -> IF route = NoRoute THEN g[n + 1] ELSE "CONNECT"
                        [] mro[n] = "socksocket"    -> IF g[n + 1] = "data" THEN "SOCKS" ELSE g[n + 1]
                        [] OTHER                    -> g[n + 1]]
           sent == CHOOSE g : g = F(g)
           base == IF route = NoRoute THEN "data" ELSE "CONNECT"
           socks == IF base = "data" THEN "SOCKS" ELSE base
<1>1. FirstSent(class, route) = sent[1]
  BY DEF FirstSent
<1>2. CASE class = "RoutingSocksSocket"
  <2>1. Len(mro) = 4 /\ mro[1] = "RoutingSocksSocket" /\ mro[2] = "socksocket"
        /\ mro[3] = "RoutingSocket" /\ mro[4] = "socket"
    BY <1>2 DEF Mro
  <2> DEFINE w == [n \in 1 .. 4 |-> IF n = 4 THEN "data" ELSE IF n = 3 THEN base ELSE socks]
  <2>2. w = F(w)
    <3> HIDE DEF mro
    <3>1. DOMAIN F(w) = 1 .. 4 /\ DOMAIN w = 1 .. 4
      BY <2>1
    <3>2. w[1] = socks /\ w[2] = socks /\ w[3] = base /\ w[4] = "data"
      OBVIOUS
    <3> HIDE DEF w
    <3>3. F(w)[1] = w[2] /\ F(w)[2] = socks /\ F(w)[3] = base /\ F(w)[4] = "data"
      BY <2>1, <3>2
    <3>4. \A n \in 1 .. 4 : w[n] = F(w)[n]
      BY <3>2, <3>3
    <3>5. w = [n \in 1 .. 4 |-> w[n]] /\ F(w) = [n \in 1 .. 4 |-> F(w)[n]]
      BY <2>1 DEF w
    <3> QED
      BY <3>4, <3>5
  <2> HIDE DEF w, F
  <2>3. sent = F(sent)
    BY <2>2
  <2> HIDE DEF sent, mro
  <2> USE DEF F
  <2>4. sent[1] = sent[2] /\ sent[2] = IF sent[3] = "data" THEN "SOCKS" ELSE sent[3]
    BY <2>1, <2>3
  <2>5. sent[3] \in {"data", "CONNECT"}
    BY <2>1, <2>3
  <2> QED
    BY <1>1, <2>4, <2>5
<1>3. CASE class # "RoutingSocksSocket"
  <2>1. Len(mro) = 2 /\ mro[1] = "RoutingSocket" /\ mro[2] = "socket"
    BY <1>3 DEF Mro
  <2> DEFINE w == [n \in 1 .. 2 |-> IF n = 2 THEN "data" ELSE base]
  <2>2. w = F(w)
    BY <2>1
  <2> HIDE DEF w, F
  <2>3. sent = F(sent)
    BY <2>2
  <2> HIDE DEF sent, mro
  <2> USE DEF F
  <2> QED
    BY <1>1, <2>1, <2>3
<1> QED
  BY <1>2, <1>3

--------------------------------------------------------------------------------
(* The actions, a lemma for each that does more than one thing.                 *)

\* What entering a call changes keeps the invariant, if the route may be taken.
LEMMA EnterInv ==
    ASSUME IInv, NEW t \in Tasks, NEW route \in Routes, Enter(t, route), Permitted(route, settings),
           UNCHANGED <<sock, settings>>
    PROVE  IInv'
<1>1. /\ tokens[t] \in Seq(AnyRoute) /\ calls[t] \in Seq(Routes) /\ active[t] \in AnyRoute
      /\ route \in AnyRoute
  BY DEF IInv, Types, AnyRoute
<1>2. Append(tokens[t], active[t]) \in Seq(AnyRoute) /\ Append(calls[t], route) \in Seq(Routes)
  BY <1>1, AppendProperties
<1>3. Types'
  BY <1>1, <1>2 DEF IInv, Types, Enter
<1>4. Nest(route, Append(tokens[t], active[t]), Append(calls[t], route))
  BY <1>1, NestEnter DEF IInv, Nesting
<1>5. Nesting'
  BY <1>4, TaskStates DEF IInv, Types, Nesting, Enter
<1>6. TaskPermitted(Running, Append(calls[t], route), settings)
  <2>1. /\ Len(Append(calls[t], route)) = Len(calls[t]) + 1 /\ Len(calls[t]) \in Nat
        /\ \A i \in 1 .. Len(calls[t]) : Append(calls[t], route)[i] = calls[t][i]
        /\ Append(calls[t], route)[Len(calls[t]) + 1] = route
    BY <1>1, AppendProperties, LenProperties
  <2>2. \A i \in 1 .. Len(calls[t]) : Permitted(calls[t][i], settings)
    BY DEF IInv, CallsPermitted, TaskPermitted
  <2> DEFINE cl2 == Append(calls[t], route)
  <2> HIDE DEF cl2
  <2>3. \A i \in 1 .. Len(cl2) : Permitted(cl2[i], settings)
    BY <2>1, <2>2 DEF cl2
  <2> QED
    BY <2>3, TaskStates DEF TaskPermitted, cl2
<1>7. CallsPermitted'
  BY <1>6 DEF IInv, Types, CallsPermitted, Enter
<1>8. SocketsPermitted'
  BY DEF IInv, SocketsPermitted
<1> QED
  BY <1>3, <1>5, <1>7, <1>8 DEF IInv

\* A task that starts outside every call has nothing to keep.
LEMMA StartInv ==
    ASSUME IInv, NEW t \in Tasks, Start(t), UNCHANGED settings
    PROVE  IInv'
<1>1. Types'
  BY DEF IInv, Types, Start
<1>2. Nesting'
  BY TaskStates DEF IInv, Types, Nesting, Start
<1>3. CallsPermitted'
  BY TaskStates DEF IInv, Types, CallsPermitted, TaskPermitted, Start
<1>4. SocketsPermitted'
  BY DEF IInv, SocketsPermitted, Start
<1> QED
  BY <1>1, <1>2, <1>3, <1>4 DEF IInv

\* A spawned task starts in the call of its spawner.
LEMMA SpawnInv ==
    ASSUME IInv, NEW t \in Tasks, NEW u \in Tasks, Spawn(t, u), UNCHANGED settings
    PROVE  IInv'
<1>1. /\ active[t] = Innermost(t) /\ active[t] \in AnyRoute
      /\ active[t] # NoRoute => \E i \in 1 .. Len(calls[t]) : active[t] = calls[t][i]
  BY NestInnermost DEF IInv, Nesting
<1> DEFINE cl == IF active[t] = NoRoute THEN << >> ELSE <<active[t]>>
<1>2. /\ task' = [task EXCEPT ![u] = Running]
      /\ active' = [active EXCEPT ![u] = active[t]]
      /\ calls' = [calls EXCEPT ![u] = cl]
      /\ UNCHANGED <<tokens, sock>>
      /\ tokens[u] = << >>
  BY <1>1 DEF Spawn, IInv, Nesting
<1>3. cl \in Seq(Routes)
  BY <1>1 DEF AnyRoute
<1>4. Nest(active[t], << >>, cl)
  BY NestSpawned
<1>5. TaskPermitted(Running, cl, settings)
  <2>1. active[t] # NoRoute => Permitted(active[t], settings)
    BY <1>1 DEF IInv, CallsPermitted, TaskPermitted
  <2> QED
    BY <2>1, TaskStates DEF TaskPermitted
<1> HIDE DEF cl
<1>6. Types'
  BY <1>1, <1>2, <1>3 DEF IInv, Types
<1>7. Nesting'
  BY <1>2, <1>4, TaskStates DEF IInv, Types, Nesting
<1>8. CallsPermitted'
  BY <1>2, <1>5 DEF IInv, Types, CallsPermitted
<1>9. SocketsPermitted'
  BY <1>2 DEF IInv, SocketsPermitted
<1> QED
  BY <1>6, <1>7, <1>8, <1>9 DEF IInv

\* A task ends outside its own routed calls.
LEMMA EndInv ==
    ASSUME IInv, NEW t \in Tasks, End(t), UNCHANGED settings
    PROVE  IInv'
<1>1. Types'
  BY EmptySeq DEF IInv, Types, End, AnyRoute
<1>2. Nest(NoRoute, << >>, << >>)
  BY NestSpawned
<1>3. Nesting'
  BY <1>2, TaskStates DEF IInv, Types, Nesting, End
<1>4. TaskPermitted(Absent, << >>, settings)
  BY TaskStates, EmptySeq DEF TaskPermitted
<1>5. CallsPermitted'
  BY <1>4 DEF IInv, Types, CallsPermitted, End
<1>6. SocketsPermitted'
  BY DEF IInv, SocketsPermitted, End
<1> QED
  BY <1>1, <1>3, <1>5, <1>6 DEF IInv

\* A URL that is chosen is the operator's, unless callers may bring theirs.
LEMMA CallInv ==
    ASSUME IInv, NEW t \in Tasks, NEW proxies \in SUBSET Urls, NEW url \in Urls,
           Call(t, proxies, url), UNCHANGED settings
    PROVE  IInv'
<1>1. url \in HttpUrls \cup SocksUrls
  BY DEF Call, Parsed
<1>2. PermittedUrl(url, settings)
  BY DEF Call, Candidates, PermittedUrl
<1>3. CASE CallerSupplied(url) /\ settings.guard
  <2> DEFINE r == [at |-> "resolving", url |-> url]
  <2>1. /\ task' = [task EXCEPT ![t] = r]
        /\ UNCHANGED <<active, tokens, calls, sock>>
        /\ task[t] = Running
    BY <1>3 DEF Call
  <2>2. r \in Resolving /\ r.at = "resolving" /\ r.url = url
    BY <1>1 DEF Resolving
  <2> HIDE DEF r
  <2>3. Types'
    BY <2>1, <2>2 DEF IInv, Types
  <2>4. Nesting'
    BY <2>1, <2>2, TaskStates DEF IInv, Types, Nesting
  <2>5. TaskPermitted(r, calls[t], settings)
    BY <1>2, <2>2 DEF IInv, CallsPermitted, TaskPermitted
  <2>6. CallsPermitted'
    BY <2>1, <2>5 DEF IInv, Types, CallsPermitted
  <2>7. SocketsPermitted'
    BY <2>1 DEF IInv, SocketsPermitted
  <2> QED
    BY <2>3, <2>4, <2>6, <2>7 DEF IInv
<1>4. CASE ~(CallerSupplied(url) /\ settings.guard)
  <2> DEFINE r == [url |-> url, address |-> "name"]
  <2>1. Enter(t, r) /\ UNCHANGED sock
    BY <1>4 DEF Call
  <2>2. r \in Routes
    BY <1>1 DEF Routes
  <2>3. Permitted(r, settings)
    BY <1>2, <1>4 DEF Permitted, CallerSupplied
  <2> QED
    BY <2>1, <2>2, <2>3, EnterInv
<1> QED
  BY <1>3, <1>4

\* The guard's answer is the address of the route.
LEMMA ResolvedInv ==
    ASSUME IInv, NEW t \in Tasks, Resolved(t), UNCHANGED settings
    PROVE  IInv'
<1> DEFINE r == [url |-> task[t].url, address |-> "validated"]
<1>1. Enter(t, r) /\ UNCHANGED sock /\ task[t].at = "resolving"
  BY DEF Resolved
<1>2. task[t].url \in HttpUrls \cup SocksUrls
  BY <1>1, TaskStates DEF IInv, Types
<1>3. r \in Routes
  BY <1>2 DEF Routes
<1>4. Permitted(r, settings)
  BY <1>1 DEF IInv, CallsPermitted, TaskPermitted, Permitted
<1> QED
  BY <1>1, <1>3, <1>4, EnterInv

\* A refused call leaves the routes alone.
LEMMA RejectedInv ==
    ASSUME IInv, NEW t \in Tasks, Rejected(t), UNCHANGED settings
    PROVE  IInv'
<1>1. Types'
  BY DEF IInv, Types, Rejected
<1>2. Nesting'
  BY TaskStates DEF IInv, Types, Nesting, Rejected
<1>3. CallsPermitted'
  BY TaskStates DEF IInv, Types, CallsPermitted, TaskPermitted, Rejected
<1>4. SocketsPermitted'
  BY DEF IInv, SocketsPermitted, Rejected
<1> QED
  BY <1>1, <1>2, <1>3, <1>4 DEF IInv

\* Resetting the innermost token uncovers the route of the call around.
LEMMA LeaveInv ==
    ASSUME IInv, NEW t \in Tasks, Leave(t), UNCHANGED settings
    PROVE  IInv'
<1>1. /\ tokens[t] \in Seq(AnyRoute) /\ calls[t] \in Seq(Routes) /\ tokens[t] # << >>
      /\ task[t] = Running
  BY DEF IInv, Types, Leave
<1>2. calls[t] # << >> /\ Nest(Last(tokens[t]), Front(tokens[t]), Front(calls[t]))
  BY <1>1, NestLeave DEF IInv, Nesting
<1>3. /\ Front(tokens[t]) \in Seq(AnyRoute) /\ Last(tokens[t]) \in AnyRoute
  BY <1>1, FrontLast
<1>4. /\ Front(calls[t]) \in Seq(Routes) /\ Len(Front(calls[t])) = Len(calls[t]) - 1
      /\ Len(calls[t]) \in Nat
      /\ \A i \in 1 .. Len(calls[t]) - 1 : Front(calls[t])[i] = calls[t][i]
  BY <1>1, <1>2, FrontLast
<1>5. Types'
  BY <1>3, <1>4 DEF IInv, Types, Leave
<1>6. Nesting'
  BY <1>1, <1>2, TaskStates DEF IInv, Types, Nesting, Leave
<1>7. TaskPermitted(task[t], Front(calls[t]), settings)
  BY <1>4 DEF IInv, CallsPermitted, TaskPermitted
<1>8. CallsPermitted'
  BY <1>7 DEF IInv, Types, CallsPermitted, Leave
<1>9. SocketsPermitted'
  BY DEF IInv, SocketsPermitted, Leave
<1> QED
  BY <1>5, <1>6, <1>8, <1>9 DEF IInv

\* A socket captures the active route, which is that of the innermost call.
LEMMA OpenInv ==
    ASSUME IInv, NEW t \in Tasks, NEW s \in Sockets, Open(t, s), UNCHANGED settings
    PROVE  IInv'
<1>1. /\ active[t] = Innermost(t) /\ active[t] \in AnyRoute
      /\ active[t] # NoRoute => \E i \in 1 .. Len(calls[t]) : active[t] = calls[t][i]
  BY NestInnermost DEF IInv, Nesting
<1> DEFINE new == [at |-> "open", route |-> active[t], class |-> ClassFor(active[t]), owner |-> active[t]]
<1>2. sock' = [sock EXCEPT ![s] = new] /\ UNCHANGED <<task, active, tokens, calls>>
  BY <1>1 DEF Open
<1>3. new \in OpenSockets
  BY <1>1 DEF OpenSockets, ClassFor
<1>4. SocketPermitted(new, settings)
  <2>1. Permitted(active[t], settings)
    BY <1>1 DEF IInv, CallsPermitted, TaskPermitted, Permitted
  <2> QED
    BY <2>1 DEF SocketPermitted
<1> HIDE DEF new
<1>5. Types'
  BY <1>2, <1>3 DEF IInv, Types
<1>6. Nesting' /\ CallsPermitted'
  BY <1>2 DEF IInv, Nesting, CallsPermitted
<1>7. SocketsPermitted'
  BY <1>2, <1>4 DEF IInv, Types, SocketsPermitted
<1> QED
  BY <1>5, <1>6, <1>7 DEF IInv

\* Connecting keeps the route, and reaches a peer of it.
LEMMA ConnectInv ==
    ASSUME IInv, NEW t \in Tasks, NEW s \in Sockets, Connect(t, s), UNCHANGED settings
    PROVE  IInv'
<1>1. sock[s].at = "open" /\ sock[s] \in OpenSockets
  BY TaskStates DEF Connect, IInv, Types, UsedSockets
<1> DEFINE route == sock[s].route
<1>2. PICK peer \in Peers(route) :
        sock' = [sock EXCEPT ![s] = [at |-> "used", owner |-> sock[s].owner, route |-> route,
                                     peer |-> peer, first |-> FirstSent(sock[s].class, route)]]
  BY DEF Connect, RouteOf
<1> DEFINE new == [at |-> "used", owner |-> sock[s].owner, route |-> route,
                   peer |-> peer, first |-> FirstSent(sock[s].class, route)]
<1>3. new \in UsedSockets
  <2>1. FirstSent(sock[s].class, route) \in {"data", "CONNECT", "SOCKS"}
    BY FirstSentType
  <2>2. peer \in {"destination", "public", "internal"}
    BY <1>2 DEF Peers
  <2> QED
    BY <1>1, <2>1, <2>2 DEF OpenSockets, UsedSockets
<1>4. SocketPermitted(new, settings)
  <2>1. SocketPermitted(sock[s], settings) /\ sock[s] # Closed
    BY <1>1, TaskStates DEF IInv, SocketsPermitted
  <2> QED
    BY <1>2, <2>1 DEF SocketPermitted
<1>5. sock' = [sock EXCEPT ![s] = new] /\ UNCHANGED <<task, active, tokens, calls>>
  BY <1>2 DEF Connect
<1> HIDE DEF new
<1>6. Types'
  BY <1>3, <1>5 DEF IInv, Types
<1>7. Nesting' /\ CallsPermitted'
  BY <1>5 DEF IInv, Nesting, CallsPermitted
<1>8. SocketsPermitted'
  BY <1>4, <1>5 DEF IInv, Types, SocketsPermitted
<1> QED
  BY <1>6, <1>7, <1>8 DEF IInv

\* A closed socket has no route left to keep.
LEMMA CloseInv ==
    ASSUME IInv, NEW s \in Sockets, Close(s), UNCHANGED settings
    PROVE  IInv'
<1>1. Types'
  BY DEF IInv, Types, Close
<1>2. Nesting' /\ CallsPermitted'
  BY DEF IInv, Nesting, CallsPermitted, Close
<1>3. SocketsPermitted'
  BY DEF IInv, Types, SocketsPermitted, SocketPermitted, Close
<1> QED
  BY <1>1, <1>2, <1>3 DEF IInv

--------------------------------------------------------------------------------
(* The theorems.                                                                *)

\* The settings are the operator's, and nothing is routed yet.
LEMMA InitInv == Init => IInv
<1> SUFFICES ASSUME Init PROVE IInv
  OBVIOUS
<1>1. Types
  BY SettingAssumption, EmptySeq DEF Init, Types, AnyRoute
<1>2. Nesting
  <2>1. Nest(NoRoute, << >>, << >>)
    BY NestSpawned
  <2> QED
    BY <2>1 DEF Init, Nesting
<1>3. CallsPermitted
  BY TaskStates, EmptySeq DEF Init, CallsPermitted, TaskPermitted
<1>4. SocketsPermitted
  BY DEF Init, SocketsPermitted, SocketPermitted
<1> QED
  BY <1>1, <1>2, <1>3, <1>4 DEF IInv

\* Every action keeps the invariant.
LEMMA NextInv == IInv /\ [Next]_vars => IInv'
<1> SUFFICES ASSUME IInv, [Next]_vars PROVE IInv'
  OBVIOUS
<1>1. CASE UNCHANGED vars
  BY <1>1 DEF vars, IInv, Types, Nesting, CallsPermitted, SocketsPermitted
<1>2. CASE Next
  <2> USE <1>2 DEF Next
  <2>1. ASSUME NEW t \in Tasks, Start(t) PROVE IInv'
    BY <2>1, StartInv
  <2>2. ASSUME NEW t \in Tasks, End(t) PROVE IInv'
    BY <2>2, EndInv
  <2>3. ASSUME NEW t \in Tasks, Leave(t) PROVE IInv'
    BY <2>3, LeaveInv
  <2>4. ASSUME NEW t \in Tasks, Resolved(t) PROVE IInv'
    BY <2>4, ResolvedInv
  <2>5. ASSUME NEW t \in Tasks, Rejected(t) PROVE IInv'
    BY <2>5, RejectedInv
  <2>6. ASSUME NEW t \in Tasks, NEW u \in Tasks, Spawn(t, u) PROVE IInv'
    BY <2>6, SpawnInv
  <2>7. ASSUME NEW t \in Tasks, NEW proxies \in SUBSET Urls, NEW url \in Urls, Call(t, proxies, url)
        PROVE  IInv'
    BY <2>7, CallInv
  <2>8. ASSUME NEW t \in Tasks, NEW s \in Sockets, Open(t, s) PROVE IInv'
    BY <2>8, OpenInv
  <2>9. ASSUME NEW t \in Tasks, NEW s \in Sockets, Connect(t, s) PROVE IInv'
    BY <2>9, ConnectInv
  <2>10. ASSUME NEW s \in Sockets, Close(s) PROVE IInv'
    BY <2>10, CloseInv
  <2> QED
    BY <2>1, <2>2, <2>3, <2>4, <2>5, <2>6, <2>7, <2>8, <2>9, <2>10
<1> QED
  BY <1>1, <1>2

\* Every reachable state satisfies the inductive invariant.
THEOREM Inductive == Spec => []IInv
  BY InitInv, NextInv, PTL DEF Spec

\* The variables have their types: a route in force, or captured by a socket, is one
\* that build_route() made from a URL it accepts (proxy_context.py).
THEOREM Typing == Spec => []TypeOK
<1>1. IInv => TypeOK
  <2> SUFFICES ASSUME IInv PROVE TypeOK
    OBVIOUS
  <2>1. ASSUME NEW t \in Tasks
        PROVE  /\ task[t] \in {Absent, Running} \cup [at : {"resolving"}, url : Urls]
               /\ active[t] \in AnyRoute
    BY DEF IInv, Types, Resolving, Urls
  <2>2. ASSUME NEW t \in Tasks
        PROVE  Range(tokens[t]) \subseteq AnyRoute /\ Range(calls[t]) \subseteq Routes
    <3>1. tokens[t] \in Seq(AnyRoute) /\ calls[t] \in Seq(Routes)
      BY DEF IInv, Types
    <3> QED
      BY <3>1, RangeOfSeq
  <2> QED
    BY <2>1, <2>2 DEF TypeOK, IInv, Types
<1> QED
  BY <1>1, Inductive, PTL

\* A routed call that ends, however it ends, uncovers the route of the call around it, and
\* tasks it spawned keep its own (the contextvar of proxy_context.py).
THEOREM RoutesFollowCalls == Spec => []ContextMatchesCalls
<1>1. IInv => ContextMatchesCalls
  BY NestInnermost DEF IInv, Nesting, ContextMatchesCalls
<1> QED
  BY <1>1, Inductive, PTL

\* A socket that is connected late, or by another task, goes where the call it was made in
\* goes (RoutingSocket in socket_routing.py).
THEOREM SocketsKeepRoutes == Spec => []SocketKeepsItsCall
<1>1. IInv => SocketKeepsItsCall
  BY TaskStates DEF IInv, SocketsPermitted, SocketPermitted, SocketKeepsItsCall
<1> QED
  BY <1>1, Inductive, PTL

\* No route leaves the operator's pool unless callers may bring their own URLs
\* (_select_proxy_url() in proxy_context.py).
THEOREM PoolIsRespected == Spec => []PoolPolicy
<1>1. IInv => PoolPolicy
  <2> SUFFICES ASSUME IInv, ~settings.allow_caller_urls PROVE
         \A route \in {active[t] : t \in Tasks}
                       \cup {sock[s].route : s \in {r \in Sockets : sock[r] # Closed}} :
              route # NoRoute => route.url \in settings.pool
    BY DEF PoolPolicy
  <2>1. ASSUME NEW t \in Tasks, active[t] # NoRoute
        PROVE  active[t].url \in settings.pool
    <3>1. \E i \in 1 .. Len(calls[t]) : active[t] = calls[t][i]
      BY <2>1, NestInnermost DEF IInv, Nesting
    <3> QED
      BY <2>1, <3>1 DEF IInv, CallsPermitted, TaskPermitted, Permitted, PermittedUrl
  <2>2. ASSUME NEW s \in Sockets, sock[s] # Closed, sock[s].route # NoRoute
        PROVE  sock[s].route.url \in settings.pool
    BY <2>2 DEF IInv, SocketsPermitted, SocketPermitted, Permitted, PermittedUrl
  <2> QED
    BY <2>1, <2>2
<1> QED
  BY <1>1, Inductive, PTL

\* With the guard on, no connection to a caller's proxy goes to an address that the guard
\* has not accepted (build_route() in proxy_context.py).
THEOREM GuardIsRespected == Spec => []ValidatedOnly
<1>1. IInv => ValidatedOnly
  <2> SUFFICES ASSUME IInv, settings.guard, NEW s \in Sockets, sock[s].at = "used",
                      sock[s].route # NoRoute, CallerSupplied(sock[s].route.url)
               PROVE  sock[s].peer = "public"
    BY DEF ValidatedOnly
  <2>1. /\ Permitted(sock[s].route, settings)
        /\ sock[s].peer \in Peers(sock[s].route)
    BY TaskStates DEF IInv, SocketsPermitted, SocketPermitted
  <2> QED
    BY <2>1 DEF Permitted, CallerSupplied, Peers
<1> QED
  BY <1>1, Inductive, PTL
================================================================================
