------------------------------ MODULE CacheStore ------------------------------
(***************************************************************************)
(* The value store of one cache branch (_internal/extensions/              *)
(* cache_store.py), as operators on a store record.                        *)
(*                                                                         *)
(* The OrderedDict of the code is two fields: `expiry`, a function from    *)
(* the stored keys to the time their value expires (NoExpiry when it never *)
(* does), and `older`, the strict order of the dictionary: <<j, k>> when j *)
(* comes before k, so that the least recently used key is the least        *)
(* element.  What a value is never matters to the store: only its presence *)
(* and its expiry are kept.                                                *)
(***************************************************************************)
EXTENDS Ordering, Functions

CONSTANTS NoExpiry      \* stands for None, as a TTL and as an expiry time

ASSUME NoExpiryAssumption == NoExpiry \notin Int

IsStore(s, Keys) == /\ DOMAIN s = {"expiry", "older"}
                    /\ DOMAIN s.expiry \subseteq Keys
                    /\ s.expiry \in [DOMAIN s.expiry -> Int \cup {NoExpiry}]
                    /\ s.older \subseteq Keys \X Keys

EmptyStore == [expiry |-> << >>, older |-> {}]

Stored(s) == DOMAIN s.expiry

\* `older` orders the stored keys: the dictionary has each key once.
WellOrdered(s) == Linear(s.older, Stored(s))

Without(s, K) == [expiry |-> Restrict(s.expiry, Stored(s) \ K),
                  older  |-> {p \in s.older : p[1] \notin K /\ p[2] \notin K}]

MoveToEndKeepingPlace(s, k) ==
    [s EXCEPT !.older = @ \cup {<<j, k>> : j \in Stored(s) \ {k}}]

MoveToEnd(s, k) ==
    [s EXCEPT !.older = {p \in @ : p[1] # k /\ p[2] # k}
                        \cup {<<j, k>> : j \in Stored(s) \ {k}}]

\* read(): a value is live strictly before its expiry.
Live(s, k, now) == k \in Stored(s) /\ (s.expiry[k] # NoExpiry => now < s.expiry[k])

\* A hit becomes the most recently used; an expired entry is removed.
ReadWithoutTouch(s, k, now) == IF Live(s, k, now) THEN s ELSE Without(s, {k})

Read(s, k, now) == IF Live(s, k, now) THEN MoveToEnd(s, k) ELSE Without(s, {k})

ExpiryOfAny(ttl, now) == IF ttl # NoExpiry THEN now + ttl ELSE NoExpiry

ExpiryOf(ttl, now) == IF ttl # NoExpiry /\ ttl > 0 THEN now + ttl ELSE NoExpiry

ExpiredKeys(s, now) == {k \in Stored(s) : s.expiry[k] # NoExpiry /\ s.expiry[k] <= now}

Insert(s, k, ttl, now) ==
    MoveToEnd([s EXCEPT !.expiry = [j \in Stored(s) \cup {k} |->
                                       IF j = k THEN ExpiryOf(ttl, now) ELSE s.expiry[j]]], k)

IsEvictedOffByOne(V, s, pinned, cap) ==
    LET evictable == Stored(s) \ pinned
        excess    == Cardinality(Stored(s)) - cap - 1
    IN /\ V \subseteq evictable
       /\ \A v \in V : \A k \in evictable \ V : <<v, k>> \in s.older
       /\ excess <= 0 => V = {}
       /\ excess > 0 => \/ Cardinality(V) = excess
                        \/ V = evictable /\ Cardinality(V) < excess

\* What the loop of _evict_to_cap has removed when it stops: the least
\* recently used keys that hold no lock, as many as the store is above its
\* cap, or all of them when there are fewer.
IsEvicted(V, s, pinned, cap) ==
    LET evictable == Stored(s) \ pinned
        excess    == Cardinality(Stored(s)) - cap
    IN /\ V \subseteq evictable
       /\ \A v \in V : \A k \in evictable \ V : <<v, k>> \in s.older
       /\ excess <= 0 => V = {}
       /\ excess > 0 => \/ Cardinality(V) = excess
                        \/ V = evictable /\ Cardinality(V) < excess

\* write(): reclaim what has expired, insert as most recently used, evict.
\* The set of the possible results has exactly one element.
Written(s, k, ttl, now, pinned, cap) ==
    LET full == Insert(Without(s, ExpiredKeys(s, now)), k, ttl, now)
    IN {Without(full, V) : V \in {W \in SUBSET Stored(full) : IsEvicted(W, full, pinned, cap)}}
===============================================================================
