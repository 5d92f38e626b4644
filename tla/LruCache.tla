------------------------------- MODULE LruCache -------------------------------
(***************************************************************************)
(* What a cache branch promises of its storage, without locks or callers:  *)
(* a bounded map of at most Cap keys in recency order with per-entry       *)
(* expiry.  Using a live entry makes it the most recent; an entry leaves   *)
(* only once it has expired, or as the least recently used of a full map   *)
(* at the moment another key is put.                                       *)
(***************************************************************************)
EXTENDS Ordering, Sequences

CONSTANTS Keys, Cap, TTLs, NoExpiry

VARIABLES items,    \* <<key, expiry>> pairs, least recently used first
          used,     \* the key last used, if any
          now

vars == <<items, used, now>>

Expires(ttl) == IF ttl = NoExpiry \/ ttl <= 0 THEN NoExpiry ELSE now + ttl

IsLive(item) == item[2] # NoExpiry => now < item[2]

\* What is at the positions P, in the order it has.
At(P) == LET places == InOrder(P, Ascending(P))
         IN [n \in 1 .. Cardinality(P) |-> items[places[n]]]

Init == items = << >> /\ used = {} /\ now = 0

Use(i) == /\ IsLive(items[i])
          /\ items' = Append(At(DOMAIN items \ {i}), items[i])
          /\ used' = {items[i][1]}
          /\ UNCHANGED now

Forget(i) == /\ ~IsLive(items[i])
             /\ items' = At(DOMAIN items \ {i})
             /\ UNCHANGED <<used, now>>

Put(k, ttl) ==
    LET others == {i \in DOMAIN items : items[i][1] # k /\ IsLive(items[i])}
        room   == IF Cardinality(others) = Cap THEN {i \in others : \E j \in others : j < i}
                  ELSE others
    IN /\ items' = Append(At(room), <<k, Expires(ttl)>>)
       /\ used' = {k}
       /\ UNCHANGED now

Tick == now' = now + 1 /\ UNCHANGED <<items, used>>

Next == \/ \E i \in DOMAIN items : Use(i) \/ Forget(i)
        \/ \E k \in Keys, ttl \in TTLs : Put(k, ttl)
        \/ Tick

Spec == Init /\ [][Next]_vars
===============================================================================
