--------------------------- MODULE CacheStore_proofs ---------------------------
(***************************************************************************)
(* What reading and writing do to a store, for any keys, TTLs, cap and     *)
(* clock: the dictionary order stays a strict linear order of what is      *)
(* stored, and a write into a store within its cap stays within it.        *)
(***************************************************************************)
EXTENDS CacheStore, FiniteSetTheorems, TLAPS

\* A store whose order is in order.
GoodStore(s, Keys) == IsStore(s, Keys) /\ Linear(s.older, Stored(s))

\* The invariant of the specification says the same.
LEMMA GoodStoreIsWellOrdered ==
    ASSUME NEW s, NEW Keys
    PROVE  GoodStore(s, Keys) <=> IsStore(s, Keys) /\ WellOrdered(s)
  BY DEF GoodStore, Linear, WellOrdered

\* Restricting a linear order keeps it linear.
LEMMA LinearRestrict ==
    ASSUME NEW S, NEW older, Linear(older, S), NEW K
    PROVE  Linear({p \in older : p[1] \notin K /\ p[2] \notin K}, S \ K)
<1> DEFINE new == {p \in older : p[1] \notin K /\ p[2] \notin K}
<1>1. \A i, j \in S \ K : <<i, j>> \in new <=> <<i, j>> \in older
  OBVIOUS
<1>2. new \subseteq (S \ K) \X (S \ K)
  BY DEF Linear
<1> HIDE DEF new
<1>3. Linear(new, S \ K)
  BY <1>1, <1>2 DEF Linear
<1> QED
  BY <1>3 DEF new

\* So does adding a greatest element.
LEMMA LinearAppend ==
    ASSUME NEW S, NEW older, NEW k, k \notin S, Linear(older, S)
    PROVE  Linear(older \cup {<<j, k>> : j \in S}, S \cup {k})
<1> DEFINE new == older \cup {<<j, k>> : j \in S}
<1>1. ASSUME NEW i \in S, NEW j \in S
      PROVE  <<i, j>> \in new <=> <<i, j>> \in older
  OBVIOUS
<1>2. ASSUME NEW i \in S
      PROVE  <<i, k>> \in new /\ <<k, i>> \notin new
  BY DEF Linear
<1>3. <<k, k>> \notin new
  BY DEF Linear
<1>4. new \subseteq (S \cup {k}) \X (S \cup {k})
  BY DEF Linear
<1> HIDE DEF new
<1>5. \A j \in S \cup {k} : <<j, j>> \notin new
  BY <1>1, <1>3 DEF Linear
<1>6. \A i, j \in S \cup {k} : i # j => (<<i, j>> \in new <=> <<j, i>> \notin new)
  BY <1>1, <1>2 DEF Linear
<1>7. ASSUME NEW h \in S \cup {k}, NEW i \in S \cup {k}, NEW j \in S \cup {k},
             <<h, i>> \in new, <<i, j>> \in new
      PROVE  <<h, j>> \in new
  <2>1. h \in S /\ i \in S
    BY <1>2, <1>3, <1>7
  <2> QED
    BY <1>1, <1>2, <1>7, <2>1 DEF Linear
<1> QED
  BY <1>4, <1>5, <1>6, <1>7 DEF Linear, new

\* Removing keys removes exactly them.
LEMMA WithoutProperties ==
    ASSUME NEW Keys, NEW s, GoodStore(s, Keys), NEW K
    PROVE  GoodStore(Without(s, K), Keys) /\ Stored(Without(s, K)) = Stored(s) \ K
<1>1. Stored(Without(s, K)) = Stored(s) \ K
  BY DEF Without, Stored, Restrict
<1>2. IsStore(Without(s, K), Keys)
  BY DEF Without, Stored, Restrict, IsStore, GoodStore
<1>3. Linear(Without(s, K).older, Stored(s) \ K)
  BY LinearRestrict DEF Without, GoodStore
<1> QED
  BY <1>1, <1>2, <1>3 DEF GoodStore

\* Moving a key to the end of the dictionary keeps what is stored.
LEMMA MoveToEndProperties ==
    ASSUME NEW Keys, NEW s, IsStore(s, Keys), NEW k \in Stored(s),
           Linear({p \in s.older : p[1] # k /\ p[2] # k}, Stored(s) \ {k})
    PROVE  GoodStore(MoveToEnd(s, k), Keys) /\ Stored(MoveToEnd(s, k)) = Stored(s)
<1> DEFINE rest == {p \in s.older : p[1] # k /\ p[2] # k}
           S    == Stored(s) \ {k}
           new  == rest \cup {<<j, k>> : j \in S}
<1>1. /\ MoveToEnd(s, k).older = new
      /\ MoveToEnd(s, k).expiry = s.expiry
      /\ DOMAIN MoveToEnd(s, k) = {"expiry", "older"}
  BY DEF MoveToEnd, IsStore
<1>2. S \cup {k} = Stored(s)
  OBVIOUS
<1>3. Linear(new, Stored(s))
  <2> HIDE DEF rest
  <2> QED
    BY <1>2, LinearAppend DEF rest
<1>4. new \subseteq Keys \X Keys
  BY <1>3 DEF Linear, IsStore, Stored
<1> QED
  BY <1>1, <1>3, <1>4 DEF GoodStore, IsStore, Stored

\* A read removes at most the key it misses.
LEMMA ReadProperties ==
    ASSUME NEW Keys, NEW s, GoodStore(s, Keys), NEW k, NEW now
    PROVE  /\ GoodStore(Read(s, k, now), Keys)
           /\ Stored(Read(s, k, now)) \subseteq Stored(s)
           /\ ~Live(s, k, now) => k \notin Stored(Read(s, k, now))
<1>1. CASE Live(s, k, now)
  <2>1. k \in Stored(s) /\ IsStore(s, Keys)
    BY <1>1 DEF Live, GoodStore
  <2>2. Linear({p \in s.older : p[1] # k /\ p[2] # k}, Stored(s) \ {k})
    <3>1. {p \in s.older : p[1] # k /\ p[2] # k}
             = {p \in s.older : p[1] \notin {k} /\ p[2] \notin {k}}
      OBVIOUS
    <3> QED
      BY <3>1, LinearRestrict DEF GoodStore
  <2> QED
    BY <1>1, <2>1, <2>2, MoveToEndProperties DEF Read
<1>2. CASE ~Live(s, k, now)
  BY <1>2, WithoutProperties DEF Read
<1> QED
  BY <1>1, <1>2

\* Inserting adds the key and nothing else.
LEMMA InsertProperties ==
    ASSUME NEW Keys, NEW s, GoodStore(s, Keys), NEW k \in Keys,
           NEW ttl \in Int \cup {NoExpiry}, NEW now \in Int
    PROVE  /\ GoodStore(Insert(s, k, ttl, now), Keys)
           /\ Stored(Insert(s, k, ttl, now)) = Stored(s) \cup {k}
           /\ \A j \in Stored(s) \ {k} : <<j, k>> \in Insert(s, k, ttl, now).older
<1> DEFINE e   == [j \in Stored(s) \cup {k} |-> IF j = k THEN ExpiryOf(ttl, now) ELSE s.expiry[j]]
           mid == [s EXCEPT !.expiry = e]
<1>1. ExpiryOf(ttl, now) \in Int \cup {NoExpiry}
  BY DEF ExpiryOf
<1>2. /\ DOMAIN mid = {"expiry", "older"}
      /\ mid.expiry = e
      /\ mid.older = s.older
  BY DEF GoodStore, IsStore
<1>3. Stored(mid) = Stored(s) \cup {k}
  BY <1>2 DEF Stored
<1>4. e \in [DOMAIN e -> Int \cup {NoExpiry}] /\ DOMAIN e \subseteq Keys
  BY <1>1 DEF Stored, GoodStore, IsStore
<1>5. IsStore(mid, Keys)
  BY <1>2, <1>4 DEF GoodStore, IsStore
<1>6. Linear({p \in mid.older : p[1] # k /\ p[2] # k}, Stored(mid) \ {k})
  <2>1. {p \in mid.older : p[1] # k /\ p[2] # k}
           = {p \in s.older : p[1] \notin {k} /\ p[2] \notin {k}}
    BY <1>2
  <2>2. Stored(mid) \ {k} = Stored(s) \ {k}
    BY <1>3
  <2> QED
    BY <2>1, <2>2, LinearRestrict DEF GoodStore
<1>7. Insert(s, k, ttl, now) = MoveToEnd(mid, k)
  BY DEF Insert
<1> HIDE DEF mid
<1>8. /\ GoodStore(MoveToEnd(mid, k), Keys)
      /\ Stored(MoveToEnd(mid, k)) = Stored(mid)
  BY <1>3, <1>5, <1>6, MoveToEndProperties
<1>9. \A j \in Stored(mid) \ {k} : <<j, k>> \in MoveToEnd(mid, k).older
  BY <1>5 DEF MoveToEnd, IsStore
<1> QED
  BY <1>3, <1>7, <1>8, <1>9

\* Writing into a store within its cap, none of whose keys is locked, keeps it
\* within its cap and keeps the value written, even if the key itself is locked
\* (eviction then has one key too many and something unlocked to remove).
LEMMA WrittenProperties ==
    ASSUME NEW Keys, NEW s, GoodStore(s, Keys), NEW k \in Keys,
           NEW ttl \in Int \cup {NoExpiry}, NEW now \in Int,
           NEW pinned, pinned \cap Stored(s) \subseteq {k}, NEW cap \in Nat \ {0},
           IsFiniteSet(Stored(s)), Cardinality(Stored(s)) <= cap,
           NEW t \in Written(s, k, ttl, now, pinned, cap)
    PROVE  /\ GoodStore(t, Keys)
           /\ Stored(t) \subseteq Stored(s) \cup {k}
           /\ k \in Stored(t)
           /\ IsFiniteSet(Stored(t)) /\ Cardinality(Stored(t)) <= cap
<1> DEFINE kept == Without(s, ExpiredKeys(s, now))
           full == Insert(kept, k, ttl, now)
<1>1. GoodStore(kept, Keys) /\ Stored(kept) \subseteq Stored(s)
  BY WithoutProperties
<1>2. IsFiniteSet(Stored(kept)) /\ Cardinality(Stored(kept)) <= cap
  <2>1. Cardinality(Stored(kept)) <= Cardinality(Stored(s)) /\ IsFiniteSet(Stored(kept))
    BY <1>1, FS_Subset
  <2> QED
    BY <2>1, FS_CardinalityType
<1> HIDE DEF kept
<1>3. /\ GoodStore(full, Keys)
      /\ Stored(full) = Stored(kept) \cup {k}
      /\ \A j \in Stored(kept) \ {k} : <<j, k>> \in full.older
  BY <1>1, InsertProperties
<1>4. PICK V \in SUBSET Stored(full) : IsEvicted(V, full, pinned, cap) /\ t = Without(full, V)
  BY DEF Written, kept
<1> HIDE DEF full
<1>5. GoodStore(t, Keys) /\ Stored(t) = Stored(full) \ V
  BY <1>3, <1>4, WithoutProperties
<1>6. /\ IsFiniteSet(Stored(full))
      /\ Cardinality(Stored(full)) \in Nat
      /\ Cardinality(Stored(full)) <= cap + 1
  <2> DEFINE K == Stored(kept)
  <2>1. IsFiniteSet(K) /\ Cardinality(K) <= cap /\ Stored(full) = K \cup {k}
    BY <1>2, <1>3
  <2> HIDE DEF K
  <2>2. Cardinality(K) \in Nat
    BY <2>1, FS_CardinalityType
  <2>3. /\ IsFiniteSet(K \cup {k})
        /\ Cardinality(K \cup {k}) = IF k \in K THEN Cardinality(K) ELSE Cardinality(K) + 1
    BY <2>1, FS_AddElement
  <2> QED
    BY <2>1, <2>2, <2>3
<1>7. IsFiniteSet(V) /\ Cardinality(V) \in Nat
  BY <1>6, FS_Subset, FS_CardinalityType
<1>8. /\ IsFiniteSet(Stored(t))
      /\ Cardinality(Stored(t)) = Cardinality(Stored(full)) - Cardinality(V)
  <2>1. Stored(full) \cap V = V
    OBVIOUS
  <2>2. /\ IsFiniteSet(Stored(full) \ V)
        /\ Cardinality(Stored(full) \ V)
              = Cardinality(Stored(full)) - Cardinality(Stored(full) \cap V)
    <3> DEFINE F == Stored(full)
    <3>1. IsFiniteSet(F)
      BY <1>6
    <3> HIDE DEF F
    <3>2. IsFiniteSet(F \ V) /\ Cardinality(F \ V) = Cardinality(F) - Cardinality(F \cap V)
      BY <3>1, FS_Difference
    <3> QED
      BY <3>2 DEF F
  <2> QED
    BY <1>5, <2>1, <2>2
<1>9. CASE Cardinality(Stored(full)) <= cap
  <2>1. V = {}
    BY <1>4, <1>6, <1>9 DEF IsEvicted
  <2> QED
    BY <1>1, <1>3, <1>5, <1>6, <1>9, <2>1
<1>10. CASE Cardinality(Stored(full)) = cap + 1
  <2> DEFINE evictable == Stored(full) \ pinned
  <2>1. Stored(full) \ {k} \subseteq evictable
    BY <1>1, <1>3
  <2>2. /\ IsFiniteSet(Stored(full) \ {k})
        /\ Cardinality(Stored(full) \ {k}) = cap
    <3> DEFINE F == Stored(full)
    <3>1. IsFiniteSet(F) /\ k \in F /\ Cardinality(F) = cap + 1
      BY <1>3, <1>6, <1>10
    <3> HIDE DEF F
    <3>2. IsFiniteSet(F \ {k}) /\ Cardinality(F \ {k}) = Cardinality(F) - 1
      BY <3>1, FS_RemoveElement
    <3> QED
      BY <3>1, <3>2 DEF F
  <2>3. IsFiniteSet(evictable) /\ Cardinality(evictable) \in Nat /\ Cardinality(evictable) >= cap
    <3>1. IsFiniteSet(evictable)
      BY <1>6, FS_Subset
    <3>2. Cardinality(Stored(full) \ {k}) <= Cardinality(evictable)
      BY <2>1, <3>1, FS_Subset
    <3> QED
      BY <2>2, <3>1, <3>2, FS_CardinalityType
  <2>4. Cardinality(V) = 1
    <3>1. Cardinality(Stored(full)) - cap = 1
      BY <1>10
    <3>2. Cardinality(V) = 1 \/ (V = evictable /\ Cardinality(V) < 1)
      BY <1>4, <3>1 DEF IsEvicted
    <3> QED
      BY <2>3, <3>2
  <2>5. k \notin V
    <3> SUFFICES ASSUME k \in V PROVE FALSE
      OBVIOUS
    <3>1. PICK j \in Stored(full) \ {k} : TRUE
      BY <2>2, FS_EmptySet
    <3>2. j \notin V
      <4> SUFFICES ASSUME j \in V PROVE FALSE
        OBVIOUS
      <4>1. V = {k}
        BY <1>7, <2>4, FS_Singleton
      <4> QED
        BY <3>1, <4>1
    <3>3. <<k, j>> \in full.older
      BY <1>4, <2>1, <3>1, <3>2 DEF IsEvicted
    <3>4. <<j, k>> \in full.older
      BY <1>3, <3>1
    <3> QED
      BY <1>3, <3>1, <3>3, <3>4 DEF GoodStore, Linear
  <2> QED
    BY <1>1, <1>3, <1>5, <1>8, <1>10, <2>4, <2>5
<1> QED
  BY <1>6, <1>9, <1>10
--------------------------------------------------------------------------------
(* Sets in order.                                                               *)

Below(x, S, R) == {j \in S : <<j, x>> \in R}

\* t goes through S once, from the least element to the greatest.
Enumerates(t, n, S, R) == /\ t \in [1 .. n -> S]
                          /\ \A x \in S : \E i \in 1 .. n : t[i] = x
                          /\ \A i, j \in 1 .. n : i < j => <<t[i], t[j]>> \in R

\* What t has at the first p places, and t with one more element.
Picked(t, places, p) == [m \in 1 .. p |-> t[places[m]]]

Extended(t, n, k) == [i \in 1 .. n + 1 |-> IF i <= n THEN t[i] ELSE k]

\* The elements below one are fewer than all there are.
LEMMA Rank ==
    ASSUME NEW S, IsFiniteSet(S), NEW R, Linear(R, S), NEW x \in S
    PROVE  Cardinality(Below(x, S, R)) \in 0 .. Cardinality(S) - 1
<1>1. Below(x, S, R) \in SUBSET (S \ {x})
  BY DEF Below, Linear
<1>2. IsFiniteSet(S \ {x}) /\ Cardinality(S \ {x}) = Cardinality(S) - 1
  BY FS_RemoveElement
<1>3. /\ IsFiniteSet(Below(x, S, R))
      /\ Cardinality(Below(x, S, R)) <= Cardinality(S \ {x})
  BY <1>1, <1>2, FS_Subset
<1>4. Cardinality(Below(x, S, R)) \in Nat /\ Cardinality(S) \in Nat
  BY <1>3, FS_CardinalityType
<1> QED
  BY <1>2, <1>3, <1>4

\* A greater element has more below it.
LEMMA RankGrows ==
    ASSUME NEW S, IsFiniteSet(S), NEW R, Linear(R, S), NEW x \in S, NEW y \in S, <<x, y>> \in R
    PROVE  Cardinality(Below(x, S, R)) < Cardinality(Below(y, S, R))
<1>1. Below(x, S, R) \in SUBSET Below(y, S, R)
  BY DEF Below, Linear
<1>2. x \in Below(y, S, R) /\ x \notin Below(x, S, R)
  BY DEF Below, Linear
<1>3. IsFiniteSet(Below(x, S, R)) /\ IsFiniteSet(Below(y, S, R))
  BY FS_Subset DEF Below
<1>4. /\ Cardinality(Below(x, S, R)) <= Cardinality(Below(y, S, R))
      /\ Cardinality(Below(x, S, R)) # Cardinality(Below(y, S, R))
  BY <1>1, <1>2, <1>3, FS_Subset
<1>5. Cardinality(Below(x, S, R)) \in Nat /\ Cardinality(Below(y, S, R)) \in Nat
  BY <1>3, FS_CardinalityType
<1> QED
  BY <1>4, <1>5

\* A sequence that ascends and is as long as the set misses no element of it.
LEMMA AscendingIsOnto ==
    ASSUME NEW S, IsFiniteSet(S), NEW R, Linear(R, S), NEW t \in [1 .. Cardinality(S) -> S],
           \A i, j \in DOMAIN t : i < j => <<t[i], t[j]>> \in R
    PROVE  Enumerates(t, Cardinality(S), S, R)
<1>1. PICK n \in Nat : n = Cardinality(S)
  BY FS_CardinalityType
<1>2. t \in [1 .. n -> S] /\ \A i, j \in 1 .. n : i < j => <<t[i], t[j]>> \in R
  BY <1>1
<1>3. t \in Injection(1 .. n, S)
  <2>1. \A i, j \in 1 .. n : i # j => i < j \/ j < i
    BY <1>1
  <2>2. \A i, j \in 1 .. n : t[i] = t[j] => i = j
    BY <1>2, <2>1 DEF Linear
  <2> QED
    BY <1>2, <2>2 DEF Injection, IsInjective
<1>4. Cardinality(1 .. n) = n
  BY <1>1, FS_Interval
<1>5. t \in Surjection(1 .. n, S)
  BY <1>1, <1>3, <1>4, FS_Injection
<1> QED
  BY <1>1, <1>2, <1>5 DEF Surjection, Enumerates

\* Every finite linear order has an enumeration: an element's place is one more than
\* the number of elements below it.
LEMMA InOrderEnumerates ==
    ASSUME NEW S, IsFiniteSet(S), NEW R, Linear(R, S)
    PROVE  Enumerates(InOrder(S, R), Cardinality(S), S, R)
<1>1. PICK n \in Nat : n = Cardinality(S)
  BY FS_CardinalityType
<1> DEFINE r == [x \in S |-> Cardinality(Below(x, S, R)) + 1]
<1>2. \A x \in S : r[x] \in 1 .. n
  BY <1>1, Rank
<1>3. \A x, y \in S : <<x, y>> \in R => r[x] < r[y]
  <2> SUFFICES ASSUME NEW x \in S, NEW y \in S, <<x, y>> \in R PROVE r[x] < r[y]
    OBVIOUS
  <2>1. Cardinality(Below(x, S, R)) < Cardinality(Below(y, S, R))
    BY RankGrows
  <2>2. Cardinality(Below(x, S, R)) \in Nat /\ Cardinality(Below(y, S, R)) \in Nat
    BY <1>1, Rank
  <2> QED
    BY <2>1, <2>2
<1>4. r \in [S -> 1 .. n]
  BY <1>2
<1> HIDE DEF r
<1>5. r \in Injection(S, 1 .. n)
  <2>1. ASSUME NEW x \in S, NEW y \in S, r[x] = r[y] PROVE x = y
    <3>1. x # y => <<x, y>> \in R \/ <<y, x>> \in R
      BY DEF Linear
    <3>2. r[x] \in Nat /\ ~(r[x] < r[x])
      BY <1>2
    <3> QED
      BY <1>3, <2>1, <3>1, <3>2
  <2> QED
    BY <1>4, <2>1 DEF Injection, IsInjective
<1>6. IsFiniteSet(1 .. n) /\ Cardinality(1 .. n) = n
  BY <1>1, FS_Interval
<1>7. r \in Surjection(S, 1 .. n)
  BY <1>1, <1>5, <1>6, FS_Injection
<1> DEFINE t == [i \in 1 .. n |-> CHOOSE x \in S : r[x] = i]
<1>8. \A i \in 1 .. n : t[i] \in S /\ r[t[i]] = i
  BY <1>7 DEF Surjection
<1>9. t \in [1 .. n -> S]
  BY <1>8
<1> HIDE DEF t
<1>10. ASSUME NEW i \in 1 .. n, NEW j \in 1 .. n, i < j PROVE <<t[i], t[j]>> \in R
  <2>1. t[i] # t[j]
    BY <1>8, <1>10
  <2>2. <<t[j], t[i]>> \in R => r[t[j]] < r[t[i]]
    BY <1>3, <1>8
  <2>3. <<t[j], t[i]>> \notin R
    BY <1>8, <1>10, <2>2
  <2> QED
    BY <1>8, <2>1, <2>3 DEF Linear
<1>11. /\ InOrder(S, R) \in [1 .. Cardinality(S) -> S]
       /\ \A i, j \in DOMAIN InOrder(S, R) : i < j => <<InOrder(S, R)[i], InOrder(S, R)[j]>> \in R
  <2>1. t \in [1 .. Cardinality(S) -> S] /\ \A i, j \in DOMAIN t : i < j => <<t[i], t[j]>> \in R
    BY <1>1, <1>9, <1>10
  <2> QED
    BY <2>1 DEF InOrder
<1> QED
  BY <1>11, AscendingIsOnto

\* In an enumeration the element at place i has i - 1 elements below it.
LEMMA Position ==
    ASSUME NEW S, NEW R, Linear(R, S), NEW n \in Nat, NEW t, Enumerates(t, n, S, R), NEW i \in 1 .. n
    PROVE  Cardinality(Below(t[i], S, R)) = i - 1
<1> DEFINE f == [j \in 1 .. i - 1 |-> t[j]]
           B == Below(t[i], S, R)
<1>1. \A j \in 1 .. i - 1 : j \in 1 .. n /\ j < i
  OBVIOUS
<1>2. \A j \in 1 .. n : t[j] \in S
  BY DEF Enumerates
<1>3. \A j, k \in 1 .. n : j < k => <<t[j], t[k]>> \in R
  BY DEF Enumerates
<1>4. f \in [1 .. i - 1 -> B]
  BY <1>1, <1>2, <1>3 DEF Below
<1>5. \A j, k \in 1 .. i - 1 : f[j] = f[k] => j = k
  <2> SUFFICES ASSUME NEW j \in 1 .. i - 1, NEW k \in 1 .. i - 1, t[j] = t[k], j # k
               PROVE  FALSE
    OBVIOUS
  <2>1. j < k \/ k < j
    OBVIOUS
  <2>2. <<t[j], t[j]>> \in R
    BY <1>1, <1>3, <2>1
  <2> QED
    BY <1>1, <1>2, <2>2 DEF Linear
<1>6. \A x \in B : \E j \in 1 .. i - 1 : f[j] = x
  <2> SUFFICES ASSUME NEW x \in S, <<x, t[i]>> \in R
               PROVE  \E j \in 1 .. i - 1 : t[j] = x
    BY DEF Below
  <2>1. PICK j \in 1 .. n : t[j] = x
    BY DEF Enumerates
  <2>2. j # i
    BY <1>2, <2>1 DEF Linear
  <2>3. ~(i < j)
    <3> SUFFICES ASSUME i < j PROVE FALSE
      OBVIOUS
    <3>1. <<t[i], x>> \in R
      BY <1>3, <2>1
    <3> QED
      BY <1>2, <2>1, <2>2, <3>1 DEF Linear
  <2>4. j \in 1 .. i - 1
    BY <2>2, <2>3
  <2> QED
    BY <2>1, <2>4
<1> HIDE DEF B, f
<1>7. f \in Bijection(1 .. i - 1, B)
  BY <1>4, <1>5, <1>6 DEF Bijection, Injection, IsInjective, Surjection
<1>8. IsFiniteSet(1 .. i - 1) /\ Cardinality(1 .. i - 1) = i - 1
  BY FS_Interval
<1>9. Cardinality(B) = Cardinality(1 .. i - 1)
  BY <1>7, <1>8, FS_Bijection DEF ExistsBijection
<1> QED
  BY <1>8, <1>9 DEF B

\* There is only one enumeration.
LEMMA EnumerationUnique ==
    ASSUME NEW S, NEW R, Linear(R, S), NEW n \in Nat, NEW t, Enumerates(t, n, S, R)
    PROVE  IsFiniteSet(S) /\ Cardinality(S) = n /\ t = InOrder(S, R)
<1>1. \A i, j \in 1 .. n : i < j => t[i] # t[j]
  BY DEF Enumerates, Linear
<1>2. \A i, j \in 1 .. n : i # j => i < j \/ j < i
  OBVIOUS
<1>3. t \in Bijection(1 .. n, S)
  BY <1>1, <1>2 DEF Enumerates, Bijection, Injection, IsInjective, Surjection
<1>4. IsFiniteSet(1 .. n) /\ Cardinality(1 .. n) = n
  BY FS_Interval
<1>5. IsFiniteSet(S) /\ Cardinality(S) = n
  BY <1>3, <1>4, FS_Bijection DEF ExistsBijection
<1> DEFINE u == InOrder(S, R)
<1>6. Enumerates(u, n, S, R)
  BY <1>5, InOrderEnumerates
<1> HIDE DEF u
<1>7. ASSUME NEW i \in 1 .. n PROVE t[i] = u[i]
  <2>1. PICK j \in 1 .. n : u[j] = t[i]
    BY <1>6 DEF Enumerates
  <2>2. i - 1 = j - 1
    BY <1>6, <2>1, Position
  <2> QED
    BY <2>1, <2>2
<1>8. t = u
  BY <1>6, <1>7 DEF Enumerates
<1> QED
  BY <1>5, <1>8 DEF u

\* Numbers ascend.
LEMMA AscendingLinear ==
    ASSUME NEW P \in SUBSET Nat
    PROVE  Linear(Ascending(P), P)
  BY DEF Ascending, Linear

\* The part of an enumeration at some of its places enumerates the elements there.
LEMMA PartEnumerates ==
    ASSUME NEW S, NEW R, Linear(R, S), NEW n \in Nat, NEW t, Enumerates(t, n, S, R),
           NEW P \in SUBSET (1 .. n), NEW places, places = InOrder(P, Ascending(P)),
           NEW part, \A x : x \in part <=> \E i \in P : x = t[i]
    PROVE  /\ Cardinality(P) \in Nat
           /\ \A m \in 1 .. Cardinality(P) : places[m] \in P
           /\ Enumerates(Picked(t, places, Cardinality(P)), Cardinality(P), part, R)
<1> DEFINE f == Picked(t, places, Cardinality(P))
<1>1. IsFiniteSet(P)
  <2>1. IsFiniteSet(1 .. n)
    BY FS_Interval
  <2> QED
    BY <2>1, FS_Subset
<1>2. PICK p \in Nat : p = Cardinality(P)
  BY <1>1, FS_CardinalityType
<1>3. Linear(Ascending(P), P)
  BY AscendingLinear
<1>4. Enumerates(places, p, P, Ascending(P))
  BY <1>1, <1>2, <1>3, InOrderEnumerates
<1>5. \A m \in 1 .. p : places[m] \in P /\ f[m] = t[places[m]] /\ f[m] \in part
  BY <1>2, <1>4 DEF Enumerates, Picked
<1>6. ASSUME NEW x \in part PROVE \E m \in 1 .. p : f[m] = x
  <2>1. PICK i \in P : x = t[i]
    OBVIOUS
  <2>2. PICK m \in 1 .. p : places[m] = i
    BY <1>4, <2>1 DEF Enumerates
  <2> QED
    BY <1>5, <2>1, <2>2
<1>7. \A l, m \in 1 .. p : l < m => <<f[l], f[m]>> \in R
  <2> SUFFICES ASSUME NEW l \in 1 .. p, NEW m \in 1 .. p, l < m
               PROVE  <<f[l], f[m]>> \in R
    OBVIOUS
  <2>1. places[l] < places[m] /\ places[l] \in 1 .. n /\ places[m] \in 1 .. n
    BY <1>4, <1>5 DEF Enumerates, Ascending
  <2> QED
    BY <1>5, <2>1 DEF Enumerates
<1>8. f \in [1 .. p -> part]
  BY <1>2, <1>5 DEF Picked
<1> HIDE DEF f
<1>9. Enumerates(f, p, part, R)
  BY <1>6, <1>7, <1>8 DEF Enumerates
<1> QED
  BY <1>2, <1>5, <1>9 DEF f

\* A greatest element comes last.
LEMMA EnumerationGrows ==
    ASSUME NEW S, NEW R, NEW n \in Nat, NEW t, Enumerates(t, n, S, R), NEW k, NEW Q,
           \A x, y \in S : <<x, y>> \in R => <<x, y>> \in Q,
           \A x \in S : <<x, k>> \in Q
    PROVE  Enumerates(Extended(t, n, k), n + 1, S \cup {k}, Q)
<1> DEFINE f == Extended(t, n, k)
<1>1. /\ \A i \in 1 .. n : i \in 1 .. n + 1 /\ f[i] = t[i] /\ t[i] \in S
      /\ n + 1 \in 1 .. n + 1 /\ f[n + 1] = k
      /\ \A i \in 1 .. n + 1 : i \in 1 .. n \/ i = n + 1
  BY DEF Enumerates, Extended
<1>2. DOMAIN f = 1 .. n + 1 /\ f = [i \in 1 .. n + 1 |-> f[i]]
  BY DEF Extended
<1> HIDE DEF f
<1>3. f \in [1 .. n + 1 -> S \cup {k}]
  BY <1>1, <1>2
<1>4. \A x \in S \cup {k} : \E i \in 1 .. n + 1 : f[i] = x
  BY <1>1 DEF Enumerates
<1>5. ASSUME NEW i \in 1 .. n + 1, NEW j \in 1 .. n + 1, i < j
      PROVE  <<f[i], f[j]>> \in Q
  <2>1. i \in 1 .. n
    BY <1>5
  <2>2. CASE j \in 1 .. n
    BY <1>1, <1>5, <2>1, <2>2 DEF Enumerates
  <2>3. CASE j = n + 1
    BY <1>1, <2>1, <2>3
  <2> QED
    BY <1>1, <2>2, <2>3
<1> QED
  BY <1>3, <1>4, <1>5 DEF Enumerates, f

--------------------------------------------------------------------------------
(* Exactly what is stored afterwards, and in which order.                       *)

\* A hit moves its key behind the others.
LEMMA HitExactly ==
    ASSUME NEW Keys, NEW s, GoodStore(s, Keys), NEW k, NEW now, Live(s, k, now), NEW t, t = Read(s, k, now)
    PROVE  /\ Stored(t) = Stored(s) /\ t.expiry = s.expiry
           /\ \A i, j \in Stored(s) \ {k} : <<i, j>> \in s.older => <<i, j>> \in t.older
           /\ \A j \in Stored(s) \ {k} : <<j, k>> \in t.older
<1>1. t = MoveToEnd(s, k)
  BY DEF Read
<1>2. /\ t.expiry = s.expiry
      /\ t.older = {p \in s.older : p[1] # k /\ p[2] # k} \cup {<<j, k>> : j \in Stored(s) \ {k}}
  BY <1>1 DEF MoveToEnd, GoodStore, IsStore
<1>3. Stored(t) = Stored(s)
  BY <1>2 DEF Stored
<1> QED
  BY <1>2, <1>3

\* Removing keys keeps the others as they are.
LEMMA WithoutExactly ==
    ASSUME NEW s, NEW K, NEW t, t = Without(s, K)
    PROVE  /\ Stored(t) = Stored(s) \ K
           /\ \A j \in Stored(t) : t.expiry[j] = s.expiry[j]
           /\ \A i, j \in Stored(t) : <<i, j>> \in s.older <=> <<i, j>> \in t.older
<1>1. /\ t.expiry = [j \in Stored(s) \ K |-> s.expiry[j]]
      /\ t.older = {p \in s.older : p[1] \notin K /\ p[2] \notin K}
  BY DEF Without, Restrict, Stored
<1>2. Stored(t) = Stored(s) \ K
  BY <1>1 DEF Stored
<1> QED
  BY <1>1, <1>2

\* Inserting puts its key behind the others.
LEMMA InsertExactly ==
    ASSUME NEW Keys, NEW s, GoodStore(s, Keys), NEW k, NEW ttl, NEW now, NEW t, t = Insert(s, k, ttl, now)
    PROVE  /\ Stored(t) = Stored(s) \cup {k}
           /\ t.expiry[k] = ExpiryOf(ttl, now)
           /\ \A j \in Stored(s) \ {k} : t.expiry[j] = s.expiry[j]
           /\ \A i, j \in Stored(s) \ {k} : <<i, j>> \in s.older <=> <<i, j>> \in t.older
           /\ \A j \in Stored(s) \ {k} : <<j, k>> \in t.older
<1> DEFINE e   == [j \in Stored(s) \cup {k} |-> IF j = k THEN ExpiryOf(ttl, now) ELSE s.expiry[j]]
           mid == [s EXCEPT !.expiry = e]
<1>1. DOMAIN mid = {"expiry", "older"} /\ mid.expiry = e /\ mid.older = s.older
  BY DEF GoodStore, IsStore
<1>2. t = MoveToEnd(mid, k)
  BY DEF Insert
<1>3. Stored(mid) = Stored(s) \cup {k}
  BY <1>1 DEF Stored
<1> HIDE DEF mid
<1>4. /\ t.expiry = e
      /\ t.older = {p \in s.older : p[1] # k /\ p[2] # k} \cup {<<j, k>> : j \in (Stored(s) \cup {k}) \ {k}}
  BY <1>1, <1>2, <1>3 DEF MoveToEnd
<1>5. Stored(t) = Stored(s) \cup {k}
  BY <1>4 DEF Stored
<1> QED
  BY <1>4, <1>5

\* A write keeps the other live keys in their order, without the first of them if there
\* are as many as the cap, and puts its key behind them.
LEMMA WrittenExactly ==
    ASSUME NEW Keys, NEW s, GoodStore(s, Keys), NEW k \in Keys,
           NEW ttl \in Int \cup {NoExpiry}, NEW now \in Int,
           NEW pinned, pinned \cap Stored(s) \subseteq {k}, NEW cap \in Nat \ {0},
           IsFiniteSet(Stored(s)), Cardinality(Stored(s)) <= cap,
           NEW t \in Written(s, k, ttl, now, pinned, cap)
    PROVE  LET others == {j \in Stored(s) : j # k /\ j \notin ExpiredKeys(s, now)}
               rest   == IF Cardinality(others) = cap
                         THEN {j \in others : \E i \in others : <<i, j>> \in s.older}
                         ELSE others
           IN /\ Stored(t) = rest \cup {k}
              /\ t.expiry[k] = ExpiryOf(ttl, now)
              /\ \A j \in rest : t.expiry[j] = s.expiry[j]
              /\ \A i, j \in rest : <<i, j>> \in s.older => <<i, j>> \in t.older
              /\ \A j \in rest : <<j, k>> \in t.older
<1> DEFINE others == {j \in Stored(s) : j # k /\ j \notin ExpiredKeys(s, now)}
           rest   == IF Cardinality(others) = cap
                     THEN {j \in others : \E i \in others : <<i, j>> \in s.older}
                     ELSE others
           kept   == Without(s, ExpiredKeys(s, now))
           full   == Insert(kept, k, ttl, now)
<1>1. k \in Stored(t)
  BY WrittenProperties
<1>2. PICK V \in SUBSET Stored(full) : IsEvicted(V, full, pinned, cap) /\ t = Without(full, V)
  BY DEF Written
<1>3. /\ Stored(kept) = Stored(s) \ ExpiredKeys(s, now)
      /\ \A j \in Stored(kept) : kept.expiry[j] = s.expiry[j]
      /\ \A i, j \in Stored(kept) : <<i, j>> \in s.older <=> <<i, j>> \in kept.older
  <2> HIDE DEF kept
  <2>1. kept = Without(s, ExpiredKeys(s, now))
    BY DEF kept
  <2> QED
    BY <2>1, WithoutExactly
<1>4. GoodStore(kept, Keys)
  BY WithoutProperties
<1>5. /\ Stored(full) = Stored(kept) \cup {k}
      /\ full.expiry[k] = ExpiryOf(ttl, now)
      /\ \A j \in Stored(kept) \ {k} : full.expiry[j] = kept.expiry[j]
      /\ \A i, j \in Stored(kept) \ {k} : <<i, j>> \in kept.older <=> <<i, j>> \in full.older
      /\ \A j \in Stored(kept) \ {k} : <<j, k>> \in full.older
  <2> HIDE DEF kept, full
  <2>1. full = Insert(kept, k, ttl, now)
    BY DEF full
  <2> QED
    BY <1>4, <2>1, InsertExactly
<1>6. /\ others = Stored(kept) \ {k}
      /\ Stored(full) = others \cup {k} /\ k \notin others
  BY <1>3, <1>5
<1>7. /\ Stored(t) = Stored(full) \ V
      /\ \A j \in Stored(t) : t.expiry[j] = full.expiry[j]
      /\ \A i, j \in Stored(t) : <<i, j>> \in full.older <=> <<i, j>> \in t.older
  BY <1>2, WithoutExactly
<1>8. others \subseteq Stored(s)
  OBVIOUS
<1> HIDE DEF kept, full, others
<1>9. PICK n \in Nat : n = Cardinality(others)
  <2>1. IsFiniteSet(others)
    BY <1>8, FS_Subset
  <2> QED
    BY <2>1, FS_CardinalityType
<1>10. IsFiniteSet(others) /\ n <= cap
  BY <1>8, <1>9, FS_Subset, FS_CardinalityType
<1>11. IsFiniteSet(Stored(full)) /\ Cardinality(Stored(full)) = n + 1
  <2>1. /\ IsFiniteSet(others \cup {k})
        /\ Cardinality(others \cup {k}) = IF k \in others THEN Cardinality(others)
                                          ELSE Cardinality(others) + 1
    BY <1>10, FS_AddElement
  <2> QED
    BY <1>6, <1>9, <2>1
<1>12. Stored(t) = rest \cup {k}
  <2>1. CASE n = cap
    <3>1. Cardinality(Stored(full)) - cap = 1
      BY <1>11, <2>1
    <3>2. \/ Cardinality(V) = 1
          \/ V = Stored(full) \ pinned /\ Cardinality(V) < 1
      BY <1>2, <3>1 DEF IsEvicted
    <3>3. /\ \A v \in V : v \in Stored(full) /\ v \notin pinned
          /\ \A v \in V : \A j \in (Stored(full) \ pinned) \ V : <<v, j>> \in full.older
      BY <1>2 DEF IsEvicted
    <3>4. others \subseteq Stored(full) \ pinned
      BY <1>6, <1>8
    <3>5. IsFiniteSet(V) /\ Cardinality(V) \in Nat
      BY <1>11, FS_Subset, FS_CardinalityType
    <3>6. others # {}
      BY <1>9, <1>10, <2>1, FS_EmptySet
    <3>7. Cardinality(V) = 1
      <4> SUFFICES ASSUME V = Stored(full) \ pinned, Cardinality(V) < 1 PROVE FALSE
        BY <3>2
      <4>1. Cardinality(V) = 0
        BY <3>5
      <4>2. V = {}
        BY <3>5, <4>1, FS_EmptySet
      <4> QED
        BY <3>4, <3>6, <4>2
    <3>8. PICK v : V = {v}
      BY <3>5, <3>7, FS_Singleton
    <3>9. v \in others
      BY <1>1, <1>6, <1>7, <3>3, <3>8
    <3>10. \A j \in others \ {v} : <<v, j>> \in s.older
      <4> SUFFICES ASSUME NEW j \in others \ {v} PROVE <<v, j>> \in s.older
        OBVIOUS
      <4>1. <<v, j>> \in full.older
        BY <3>3, <3>4, <3>8
      <4>2. <<v, j>> \in kept.older
        BY <1>5, <1>6, <3>9, <4>1
      <4> QED
        BY <1>3, <1>6, <3>9, <4>2
    <3>11. \A i \in others : <<i, v>> \notin s.older
      BY <1>8, <3>9, <3>10 DEF GoodStore, Linear
    <3>12. rest = others \ {v}
      BY <1>9, <2>1, <3>9, <3>10, <3>11
    <3> QED
      BY <1>6, <1>7, <3>8, <3>9, <3>12
  <2>2. CASE n # cap
    <3>1. Cardinality(Stored(full)) - cap <= 0
      BY <1>10, <1>11, <2>2
    <3>2. V = {}
      BY <1>2, <3>1 DEF IsEvicted
    <3> QED
      BY <1>6, <1>7, <1>9, <2>2, <3>2
  <2> QED
    BY <2>1, <2>2
<1>13. rest \subseteq others
  OBVIOUS
<1> HIDE DEF rest
<1>14. \A j \in rest : j \in Stored(kept) \ {k} /\ j \in Stored(t) /\ k \in Stored(t)
  BY <1>6, <1>12, <1>13
<1>15. \A j \in rest : t.expiry[j] = s.expiry[j]
  BY <1>3, <1>5, <1>7, <1>14
<1>16. \A i, j \in rest : <<i, j>> \in s.older => <<i, j>> \in t.older
  BY <1>3, <1>5, <1>7, <1>14
<1>17. \A j \in rest : <<j, k>> \in t.older
  BY <1>5, <1>7, <1>14
<1>18. t.expiry[k] = ExpiryOf(ttl, now)
  BY <1>1, <1>5, <1>7
<1> QED
  BY <1>12, <1>15, <1>16, <1>17, <1>18 DEF rest, others

================================================================================
