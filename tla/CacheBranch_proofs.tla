-------------------------- MODULE CacheBranch_proofs --------------------------
(***************************************************************************)
(* Safety of the cache branch for any number of callers, keys, locks and   *)
(* TTLs, any cap and any clock, with or without failures and               *)
(* cancellations.                                                          *)
(***************************************************************************)
EXTENDS CacheBranch, CacheStore_proofs, AsyncioLock_proofs

\* What the invariants of the runs need to be inductive: every lock is sound,
\* and the store, which a write grows, is finite.
LockInv == \A l \in Locks : Sound(locks[l])

StoreInv == /\ IsFiniteSet(Stored(store))
            /\ LockedKeysHaveNoValue
            /\ CapRespected

IInv == BranchTypeOK /\ StoreInv /\ LockInv /\ LockMatchesHolder /\ RegisteredLockIsHeld

\* The store of a well-typed state is a good store.
LEMMA TypeGoodStore == BranchTypeOK <=> /\ GoodStore(store, Keys)
                                  /\ DOMAIN key_locks \subseteq Keys /\ Range(key_locks) \subseteq Locks
                                  /\ locks \in [Locks -> LockType(Callers)]
                                  /\ call \in [Callers -> Suspended \cup {Idle}]
                                  /\ cancelling \subseteq Callers
                                  /\ now \in 0 .. MaxTime
                                  /\ answered \subseteq Callers
  BY GoodStoreIsWellOrdered DEF BranchTypeOK

\* A caller suspended in the branch has a key, a TTL and a lock.
LEMMA SuspendedFields ==
    ASSUME BranchTypeOK, NEW c \in Callers, Waiting(c) \/ Computing(c)
    PROVE  /\ call[c] \in Suspended /\ call[c] # Idle
           /\ call[c].key \in Keys /\ call[c].ttl \in TTLs /\ call[c].lock \in Locks
           /\ call[c].ttl \in Int \cup {NoExpiry}
<1>1. call[c] # Idle
  BY DEF Idle, Waiting, Computing
<1>2. call[c] \in Suspended
  BY <1>1 DEF BranchTypeOK
<1> QED
  BY <1>1, <1>2, TTLAssumption DEF Suspended

\* The initial state satisfies the invariant.
LEMMA InitInv == Init => IInv
<1> SUFFICES ASSUME Init PROVE IInv
  OBVIOUS
<1>1. Stored(store) = {} /\ DOMAIN key_locks = {}
  BY DEF Init, EmptyStore, Stored
<1>2. GoodStore(store, Keys)
  BY <1>1 DEF Init, EmptyStore, Stored, GoodStore, IsStore, Linear
<1>3. \A l \in Locks : locks[l] = FreshLock
  BY DEF Init
<1>4. locks \in [Locks -> LockType(Callers)] /\ LockInv
  BY <1>3, FreshLockSound DEF Init, LockInv
<1>5. BranchTypeOK
  BY <1>1, <1>2, <1>4, TypeGoodStore, MaxTimeAssumption DEF Init, Range
<1>6. StoreInv
  BY <1>1, FS_EmptySet, CapAssumption DEF StoreInv, LockedKeysHaveNoValue, CapRespected
<1>7. LockMatchesHolder
  BY <1>3, FreshLockSound DEF Init, LockMatchesHolder, Computing, Idle
<1>8. RegisteredLockIsHeld
  BY <1>1 DEF RegisteredLockIsHeld
<1> QED
  BY <1>4, <1>5, <1>6, <1>7, <1>8 DEF IInv

--------------------------------------------------------------------------------
(* What the actions have in common.                                             *)

\* Replacing one lock by a sound one.
LEMMA LockUpdate ==
    ASSUME BranchTypeOK, LockInv, NEW l \in Locks, NEW new \in LockType(Callers), Sound(new),
           locks' = [locks EXCEPT ![l] = new]
    PROVE  /\ locks' \in [Locks -> LockType(Callers)]
           /\ LockInv'
           /\ locks'[l] = new
           /\ \A m \in Locks : m # l => locks'[m] = locks[m]
<1> USE DEF BranchTypeOK
<1>1. locks' \in [Locks -> LockType(Callers)] /\ locks'[l] = new
  OBVIOUS
<1>2. \A m \in Locks : m # l => locks'[m] = locks[m]
  OBVIOUS
<1>3. LockInv'
  BY <1>1, <1>2 DEF LockInv
<1> QED
  BY <1>1, <1>2, <1>3

\* Registering the lock of a key.
LEMMA RegisterProperties ==
    ASSUME BranchTypeOK, NEW k \in Keys, NEW l \in Locks, IsKeyLock(k, l), key_locks' = Register(k, l)
    PROVE  /\ DOMAIN key_locks' = DOMAIN key_locks \cup {k}
           /\ key_locks'[k] = l
           /\ \A j \in DOMAIN key_locks : key_locks'[j] = key_locks[j]
           /\ DOMAIN key_locks' \subseteq Keys /\ Range(key_locks') \subseteq Locks
<1>1. /\ DOMAIN key_locks' = DOMAIN key_locks \cup {k}
      /\ key_locks'[k] = l
      /\ \A j \in DOMAIN key_locks : key_locks'[j] = key_locks[j]
  BY DEF Register, IsKeyLock
<1> QED
  BY <1>1 DEF BranchTypeOK, Range

\* Dropping the lock of a key.
LEMMA DropLockProperties ==
    ASSUME BranchTypeOK, NEW k, key_locks' = DropLock(k)
    PROVE  /\ DOMAIN key_locks' = DOMAIN key_locks \ {k}
           /\ \A j \in DOMAIN key_locks' : key_locks'[j] = key_locks[j]
           /\ DOMAIN key_locks' \subseteq Keys /\ Range(key_locks') \subseteq Locks
<1>1. /\ DOMAIN key_locks' = DOMAIN key_locks \ {k}
      /\ \A j \in DOMAIN key_locks' : key_locks'[j] = key_locks[j]
  BY DEF DropLock, Restrict
<1> QED
  BY <1>1 DEF BranchTypeOK, Range

\* A call that leaves drops the lock of its key and nothing else.
LEMMA LeaveProperties ==
    ASSUME BranchTypeOK, NEW c \in Callers, Leave(c)
    PROVE  /\ DOMAIN key_locks' = DOMAIN key_locks \ {call[c].key}
           /\ \A j \in DOMAIN key_locks' : key_locks'[j] = key_locks[j]
           /\ DOMAIN key_locks' \subseteq Keys /\ Range(key_locks') \subseteq Locks
           /\ call' \in [Callers -> Suspended \cup {Idle}]
           /\ call'[c] = Idle /\ ~Computing(c)'
           /\ \A d \in Callers \ {c} : call'[d] = call[d]
           /\ cancelling' \subseteq Callers
<1>1. key_locks' = DropLock(call[c].key) /\ call' = [call EXCEPT ![c] = Idle]
  BY DEF Leave
<1>2. /\ call' \in [Callers -> Suspended \cup {Idle}]
      /\ call'[c] = Idle
      /\ \A d \in Callers \ {c} : call'[d] = call[d]
  BY <1>1 DEF BranchTypeOK
<1>3. ~Computing(c)'
  BY <1>2 DEF Computing, Idle
<1>4. cancelling' \subseteq Callers
  BY DEF Leave, BranchTypeOK
<1> QED
  BY <1>1, <1>2, <1>3, <1>4, DropLockProperties

\* A read, a write or nothing done to the store in a state whose keys lose no
\* room for what is stored: the storage part of the invariant is kept.
LEMMA ShrunkStore ==
    ASSUME IInv, Stored(store)' \subseteq Stored(store), 
           Stored(store)' \cap DOMAIN key_locks' = {}
    PROVE  StoreInv'
<1>1. /\ IsFiniteSet(Stored(store)')
      /\ Cardinality(Stored(store)') <= Cardinality(Stored(store))
  BY FS_Subset DEF IInv, StoreInv
<1>2. /\ Cardinality(Stored(store)') \in Nat /\ Cardinality(Stored(store)) \in Nat
      /\ Cardinality(Stored(store)) <= Cap
  BY <1>1, FS_CardinalityType DEF IInv, StoreInv, CapRespected
<1>3. Cardinality(Stored(store)') <= Cap
  BY <1>1, <1>2, CapAssumption
<1> QED
  BY <1>1, <1>3 DEF StoreInv, LockedKeysHaveNoValue, CapRespected

\* Registered locks stay held when the call that changes is not their holder.
LEMMA HeldLocksStayHeld ==
    ASSUME RegisteredLockIsHeld, NEW c \in Callers,
           \A d \in Callers \ {c} : call'[d] = call[d],
           \A k \in DOMAIN key_locks' :
              \/ /\ k \in DOMAIN key_locks /\ key_locks'[k] = key_locks[k]
                 /\ (~Computing(c) \/ call[c].key # k)
              \/ Computing(c)' /\ call'[c].key = k /\ call'[c].lock = key_locks'[k]
    PROVE  RegisteredLockIsHeld'
<1> SUFFICES ASSUME NEW k \in DOMAIN key_locks'
             PROVE  \E d \in Callers : Computing(d)' /\ call'[d].key = k
                                                    /\ call'[d].lock = key_locks'[k]
  BY DEF RegisteredLockIsHeld
<1>1. CASE Computing(c)' /\ call'[c].key = k /\ call'[c].lock = key_locks'[k]
  BY <1>1
<1>2. CASE /\ k \in DOMAIN key_locks /\ key_locks'[k] = key_locks[k]
           /\ (~Computing(c) \/ call[c].key # k)
  <2>1. PICK d \in Callers : Computing(d) /\ call[d].key = k /\ call[d].lock = key_locks[k]
    BY <1>2 DEF RegisteredLockIsHeld
  <2>2. d # c
    BY <1>2, <2>1
  <2>3. call'[d] = call[d]
    BY <2>2
  <2> QED
    BY <1>2, <2>1, <2>3 DEF Computing
<1> QED
  BY <1>1, <1>2

\* The holder of one lock changes, together with its flag.
LEMMA HolderUpdate ==
    ASSUME LockMatchesHolder, NEW c \in Callers, NEW l \in Locks,
           Computing(c) => call[c].lock = l,
           \A d \in Callers \ {c} : call'[d] = call[d] /\ ~(Computing(d) /\ call[d].lock = l),
           \A m \in Locks : m # l => locks'[m] = locks[m],
           locks'[l].locked <=> Computing(c)',
           Computing(c)' => call'[c].lock = l
    PROVE  LockMatchesHolder'
<1> SUFFICES ASSUME NEW m \in Locks
             PROVE  LET holders == {d \in Callers : Computing(d)' /\ call'[d].lock = m}
                    IN /\ locks'[m].locked <=> holders # {}
                       /\ \A d, e \in holders : d = e
  BY DEF LockMatchesHolder
<1>1. \A d \in Callers \ {c} : Computing(d)' <=> Computing(d)
  BY DEF Computing
<1>2. CASE m = l
  BY <1>1, <1>2
<1>3. CASE m # l
  <2>1. {d \in Callers : Computing(d)' /\ call'[d].lock = m}
           = {d \in Callers : Computing(d) /\ call[d].lock = m}
    BY <1>1, <1>3
  <2> QED
    BY <1>3, <2>1 DEF LockMatchesHolder
<1> QED
  BY <1>2, <1>3

--------------------------------------------------------------------------------
(* Every action preserves the invariant.                                        *)

\* The fast path touches the recency order only.
LEMMA CallHitInv ==
    ASSUME IInv, NEW c \in Callers, NEW k \in Keys, CallHit(c, k)
    PROVE  IInv'
<1> USE DEF IInv
<1>1. /\ store' = Read(store, k, now)
      /\ UNCHANGED <<key_locks, locks, call, cancelling, now, answered>>
  BY DEF CallHit
<1>2. GoodStore(store, Keys)' /\ Stored(store)' \subseteq Stored(store)
  BY <1>1, TypeGoodStore, ReadProperties
<1>3. BranchTypeOK'
  BY <1>1, <1>2, TypeGoodStore, GoodStoreIsWellOrdered DEF BranchTypeOK
<1>4. StoreInv'
  BY <1>1, <1>2, ShrunkStore DEF StoreInv, LockedKeysHaveNoValue
<1>5. LockInv' /\ LockMatchesHolder' /\ RegisteredLockIsHeld'
  BY <1>1 DEF LockInv, LockMatchesHolder, RegisteredLockIsHeld, Computing
<1> QED
  BY <1>3, <1>4, <1>5

\* A call that computes holds the lock it registered, for a key with no value.
LEMMA CallComputesInv ==
    ASSUME IInv, NEW c \in Callers, NEW k \in Keys, NEW ttl \in TTLs, NEW l \in Locks,
           CallComputes(c, k, ttl, l)
    PROVE  IInv'
<1> DEFINE lk  == LockFor(k, l)
           rec == [at |-> "computing", key |-> k, ttl |-> ttl, lock |-> l]
<1>1. /\ call[c] = Idle /\ ~Live(store, k, now) /\ IsKeyLock(k, l) /\ CanTake(lk)
      /\ store' = Read(store, k, now)
      /\ key_locks' = Register(k, l)
      /\ locks' = [locks EXCEPT ![l] = Take(lk)]
      /\ call' = [call EXCEPT ![c] = rec]
      /\ UNCHANGED <<cancelling, now, answered>>
  BY DEF CallComputes
<1>2. /\ GoodStore(store, Keys)' /\ Stored(store)' \subseteq Stored(store)
      /\ k \notin Stored(store)'
  BY <1>1, TypeGoodStore, ReadProperties DEF IInv
<1>3. /\ DOMAIN key_locks' = DOMAIN key_locks \cup {k}
      /\ key_locks'[k] = l
      /\ \A j \in DOMAIN key_locks : key_locks'[j] = key_locks[j]
      /\ DOMAIN key_locks' \subseteq Keys /\ Range(key_locks') \subseteq Locks
  BY <1>1, RegisterProperties DEF IInv
<1>4. lk \in LockType(Callers) /\ Sound(lk)
  BY FreshLockSound DEF IInv, BranchTypeOK, LockInv, LockFor
<1> HIDE DEF lk
<1>5. Take(lk) \in LockType(Callers) /\ Sound(Take(lk)) /\ Take(lk).locked /\ ~lk.locked
  BY <1>1, <1>4, TakeSound
<1>6. /\ locks' \in [Locks -> LockType(Callers)] /\ LockInv'
      /\ locks'[l] = Take(lk)
      /\ \A m \in Locks : m # l => locks'[m] = locks[m]
  BY <1>1, <1>5, LockUpdate DEF IInv
<1>7. rec \in Suspended /\ rec.at = "computing" /\ rec.key = k /\ rec.lock = l
  BY DEF Suspended
<1> HIDE DEF rec
<1>8. /\ call' \in [Callers -> Suspended \cup {Idle}] /\ call'[c] = rec
      /\ \A d \in Callers \ {c} : call'[d] = call[d]
  BY <1>1, <1>7 DEF IInv, BranchTypeOK
<1>9. ~Computing(c) /\ Computing(c)' /\ call'[c].key = k /\ call'[c].lock = l
  BY <1>1, <1>7, <1>8 DEF Computing, Idle
<1>10. BranchTypeOK'
  BY <1>1, <1>2, <1>3, <1>6, <1>8, GoodStoreIsWellOrdered DEF IInv, BranchTypeOK
<1>11. StoreInv'
  <2>1. Stored(store)' \cap DOMAIN key_locks' = {}
    BY <1>2, <1>3 DEF IInv, StoreInv, LockedKeysHaveNoValue
  <2> QED
    BY <1>2, <2>1, ShrunkStore
<1>12. LockMatchesHolder'
  <2>1. \A d \in Callers \ {c} : ~(Computing(d) /\ call[d].lock = l)
    <3>1. CASE k \in DOMAIN key_locks
      BY <1>5, <3>1 DEF lk, LockFor, IInv, LockMatchesHolder
    <3>2. CASE k \notin DOMAIN key_locks
      BY <1>1, <3>2 DEF IsKeyLock, Unreferenced, Computing, Idle
    <3> QED
      BY <3>1, <3>2
  <2> QED
    BY <1>5, <1>6, <1>8, <1>9, <2>1, HolderUpdate DEF IInv
<1>13. RegisteredLockIsHeld'
  BY <1>3, <1>8, <1>9, HeldLocksStayHeld DEF IInv
<1> QED
  BY <1>6, <1>10, <1>11, <1>12, <1>13 DEF IInv

\* Around a plain function the write happens while nothing is suspended.
LEMMA CallSyncInv ==
    ASSUME IInv, NEW c \in Callers, NEW k \in Keys, NEW ttl \in TTLs, CallSync(c, k, ttl)
    PROVE  IInv'
<1> DEFINE missed == Read(store, k, now)
<1>1. /\ \/ store' \in Written(missed, k, ttl, now, DOMAIN key_locks \cup {k}, Cap)
         \/ store' = missed
      /\ ~Live(store, k, now)
      /\ key_locks' = DropLock(k)
      /\ UNCHANGED <<locks, call, cancelling, now, answered>>
  BY DEF CallSync
<1>2. /\ GoodStore(missed, Keys) /\ Stored(missed) \subseteq Stored(store)
      /\ k \notin Stored(missed)
  BY <1>1, TypeGoodStore, ReadProperties DEF IInv
<1>3. /\ DOMAIN key_locks' = DOMAIN key_locks \ {k}
      /\ \A j \in DOMAIN key_locks' : key_locks'[j] = key_locks[j]
      /\ DOMAIN key_locks' \subseteq Keys /\ Range(key_locks') \subseteq Locks
  BY <1>1, DropLockProperties DEF IInv
<1> HIDE DEF missed
<1>4. IsFiniteSet(Stored(missed)) /\ Cardinality(Stored(missed)) <= Cap
  <2>1. /\ IsFiniteSet(Stored(missed))
        /\ Cardinality(Stored(missed)) <= Cardinality(Stored(store))
    BY <1>2, FS_Subset DEF IInv, StoreInv
  <2> QED
    BY <2>1, FS_CardinalityType, CapAssumption DEF IInv, StoreInv, CapRespected
<1>5. CASE store' = missed
  <2>1. StoreInv'
    BY <1>2, <1>3, <1>5, ShrunkStore DEF IInv, StoreInv, LockedKeysHaveNoValue
  <2> QED
    BY <1>1, <1>2, <1>3, <1>5, <2>1, GoodStoreIsWellOrdered
       DEF IInv, BranchTypeOK, LockInv, LockMatchesHolder, RegisteredLockIsHeld, Computing
<1>6. CASE store' \in Written(missed, k, ttl, now, DOMAIN key_locks \cup {k}, Cap)
  <2>1. ttl \in Int \cup {NoExpiry} /\ now \in Int
    BY TTLAssumption, MaxTimeAssumption DEF IInv, BranchTypeOK
  <2>2. (DOMAIN key_locks \cup {k}) \cap Stored(missed) \subseteq {k}
    BY <1>2 DEF IInv, StoreInv, LockedKeysHaveNoValue
  <2>3. /\ GoodStore(store, Keys)' /\ Stored(store)' \subseteq Stored(missed) \cup {k}
        /\ IsFiniteSet(Stored(store)') /\ Cardinality(Stored(store)') <= Cap
    BY <1>2, <1>4, <1>6, <2>1, <2>2, CapAssumption, WrittenProperties
  <2>4. StoreInv'
    BY <1>2, <1>3, <2>3 DEF IInv, StoreInv, LockedKeysHaveNoValue, CapRespected
  <2> QED
    BY <1>1, <1>3, <2>3, <2>4, GoodStoreIsWellOrdered
       DEF IInv, BranchTypeOK, LockInv, LockMatchesHolder, RegisteredLockIsHeld, Computing
<1> QED
  BY <1>1, <1>5, <1>6

\* A call that waits found its key's lock registered, and leaves it as it is.
LEMMA CallWaitsInv ==
    ASSUME IInv, NEW c \in Callers, NEW k \in Keys, NEW ttl \in TTLs, NEW l \in Locks,
           CallWaits(c, k, ttl, l)
    PROVE  IInv'
<1> DEFINE lk  == LockFor(k, l)
           rec == [at |-> "waiting", key |-> k, ttl |-> ttl, lock |-> l]
<1>1. /\ call[c] = Idle /\ ~Live(store, k, now) /\ IsKeyLock(k, l) /\ ~CanTake(lk)
      /\ store' = Read(store, k, now)
      /\ key_locks' = Register(k, l)
      /\ locks' = [locks EXCEPT ![l] = Enqueue(lk, c)]
      /\ call' = [call EXCEPT ![c] = rec]
      /\ UNCHANGED <<cancelling, now, answered>>
  BY DEF CallWaits
<1>2. k \in DOMAIN key_locks /\ lk = locks[l]
  BY <1>1 DEF LockFor, FreshLock, CanTake
<1>3. /\ GoodStore(store, Keys)' /\ Stored(store)' \subseteq Stored(store)
  BY <1>1, TypeGoodStore, ReadProperties DEF IInv
<1>4. /\ DOMAIN key_locks' = DOMAIN key_locks \cup {k}
      /\ \A j \in DOMAIN key_locks : key_locks'[j] = key_locks[j]
      /\ DOMAIN key_locks' \subseteq Keys /\ Range(key_locks') \subseteq Locks
  BY <1>1, RegisterProperties DEF IInv
<1>5. lk \in LockType(Callers) /\ Sound(lk)
  BY <1>2 DEF IInv, BranchTypeOK, LockInv
<1> HIDE DEF lk
<1>6. /\ Enqueue(lk, c) \in LockType(Callers) /\ Sound(Enqueue(lk, c))
      /\ Enqueue(lk, c).locked = lk.locked
  BY <1>1, <1>5, EnqueueSound
<1>7. /\ locks' \in [Locks -> LockType(Callers)] /\ LockInv'
      /\ locks'[l].locked = locks[l].locked
      /\ \A m \in Locks : m # l => locks'[m] = locks[m]
  BY <1>1, <1>2, <1>6, LockUpdate DEF IInv
<1>8. rec \in Suspended /\ rec.at = "waiting"
  BY DEF Suspended
<1> HIDE DEF rec
<1>9. /\ call' \in [Callers -> Suspended \cup {Idle}] /\ call'[c] = rec
      /\ \A d \in Callers \ {c} : call'[d] = call[d]
  BY <1>1, <1>8 DEF IInv, BranchTypeOK
<1>10. ~Computing(c) /\ ~Computing(c)'
  BY <1>1, <1>8, <1>9 DEF Computing, Idle
<1>11. BranchTypeOK'
  BY <1>1, <1>3, <1>4, <1>7, <1>9, GoodStoreIsWellOrdered DEF IInv, BranchTypeOK
<1>12. StoreInv'
  BY <1>2, <1>3, <1>4, ShrunkStore DEF IInv, StoreInv, LockedKeysHaveNoValue
<1>13. LockMatchesHolder'
  <2>1. \A m \in Locks : {d \in Callers : Computing(d)' /\ call'[d].lock = m}
                           = {d \in Callers : Computing(d) /\ call[d].lock = m}
    BY <1>9, <1>10 DEF Computing
  <2>2. \A m \in Locks : locks'[m].locked = locks[m].locked
    BY <1>7
  <2> QED
    BY <2>1, <2>2 DEF IInv, LockMatchesHolder
<1>14. RegisteredLockIsHeld'
  BY <1>2, <1>4, <1>9, <1>10, HeldLocksStayHeld DEF IInv
<1> QED
  BY <1>7, <1>11, <1>12, <1>13, <1>14 DEF IInv

\* A waiter that finds the value gives the lock back as it leaves.
LEMMA ResumeHitInv ==
    ASSUME IInv, NEW c \in Callers, Waiting(c), ResumeHit(c)
    PROVE  IInv'
<1> DEFINE l == call[c].lock
<1>1. /\ store' = Read(store, call[c].key, now) /\ Leave(c)
      /\ answered' = answered \ {c} /\ UNCHANGED now
  BY DEF ResumeHit
<1>2. PICK i \in 1 .. Len(locks[l].waiters) :
              /\ locks[l].waiters[i].fut = "woken"
              /\ locks' = [locks EXCEPT ![l] = Release(ResumeWaiter(locks[l], i))]
  BY DEF ResumeHit, IsWoken
<1>3. l \in Locks /\ locks[l] \in LockType(Callers) /\ Sound(locks[l])
  BY SuspendedFields DEF IInv, BranchTypeOK, LockInv
<1>4. /\ GoodStore(store, Keys)' /\ Stored(store)' \subseteq Stored(store)
  BY <1>1, TypeGoodStore, ReadProperties DEF IInv
<1>5. /\ DOMAIN key_locks' = DOMAIN key_locks \ {call[c].key}
      /\ \A j \in DOMAIN key_locks' : key_locks'[j] = key_locks[j]
      /\ DOMAIN key_locks' \subseteq Keys /\ Range(key_locks') \subseteq Locks
      /\ call' \in [Callers -> Suspended \cup {Idle}]
      /\ ~Computing(c)'
      /\ \A d \in Callers \ {c} : call'[d] = call[d]
      /\ cancelling' \subseteq Callers
  BY <1>1, LeaveProperties DEF IInv
<1> HIDE DEF l
<1>6. ~locks[l].locked /\ LET new == Release(ResumeWaiter(locks[l], i))
                          IN new \in LockType(Callers) /\ Sound(new) /\ ~new.locked
  BY <1>2, <1>3, ResumeWaiterSound, ReleaseSound
<1>7. /\ locks' \in [Locks -> LockType(Callers)] /\ LockInv'
      /\ ~locks'[l].locked
      /\ \A m \in Locks : m # l => locks'[m] = locks[m]
  BY <1>2, <1>3, <1>6, LockUpdate DEF IInv
<1>8. BranchTypeOK'
  BY <1>1, <1>4, <1>5, <1>7, GoodStoreIsWellOrdered DEF IInv, BranchTypeOK
<1>9. StoreInv'
  BY <1>4, <1>5, ShrunkStore DEF IInv, StoreInv, LockedKeysHaveNoValue
<1>10. ~Computing(c)
  BY DEF Computing, Waiting
<1>11. LockMatchesHolder'
  BY <1>3, <1>5, <1>6, <1>7, <1>10, HolderUpdate DEF IInv, LockMatchesHolder
<1>12. RegisteredLockIsHeld'
  BY <1>5, <1>10, HeldLocksStayHeld DEF IInv
<1> QED
  BY <1>7, <1>8, <1>9, <1>11, <1>12 DEF IInv

\* A waiter that finds nothing becomes the one holder of its lock.
LEMMA ResumeComputesInv ==
    ASSUME IInv, NEW c \in Callers, Waiting(c), ResumeComputes(c)
    PROVE  IInv'
<1> DEFINE l == call[c].lock
<1>1. /\ store' = Read(store, call[c].key, now)
      /\ call' = [call EXCEPT ![c].at = "computing"]
      /\ UNCHANGED <<key_locks, cancelling, now, answered>>
  BY DEF ResumeComputes
<1>2. PICK i \in 1 .. Len(locks[l].waiters) :
              /\ locks[l].waiters[i].fut = "woken"
              /\ locks' = [locks EXCEPT ![l] = ResumeWaiter(locks[l], i)]
  BY DEF ResumeComputes, IsWoken
<1>3. l \in Locks /\ locks[l] \in LockType(Callers) /\ Sound(locks[l])
  BY SuspendedFields DEF IInv, BranchTypeOK, LockInv
<1>4. /\ GoodStore(store, Keys)' /\ Stored(store)' \subseteq Stored(store)
  BY <1>1, TypeGoodStore, ReadProperties DEF IInv
<1>5. /\ call' \in [Callers -> Suspended \cup {Idle}]
      /\ Computing(c)' /\ call'[c].key = call[c].key /\ call'[c].lock = l
      /\ \A d \in Callers \ {c} : call'[d] = call[d]
  <2>1. call[c] \in Suspended
    BY SuspendedFields DEF IInv
  <2>2. [call[c] EXCEPT !.at = "computing"] \in Suspended
    BY <2>1 DEF Suspended
  <2>3. call' = [call EXCEPT ![c] = [call[c] EXCEPT !.at = "computing"]]
    BY <1>1
  <2>4. call'[c] = [call[c] EXCEPT !.at = "computing"]
    BY <2>3 DEF IInv, BranchTypeOK
  <2>5. call' \in [Callers -> Suspended \cup {Idle}] /\ \A d \in Callers \ {c} : call'[d] = call[d]
    BY <2>2, <2>3 DEF IInv, BranchTypeOK
  <2> QED
    BY <2>1, <2>4, <2>5 DEF Suspended, Computing
<1> HIDE DEF l
<1>6. /\ ~locks[l].locked
      /\ ResumeWaiter(locks[l], i) \in LockType(Callers)
      /\ Sound(ResumeWaiter(locks[l], i))
      /\ ResumeWaiter(locks[l], i).locked
  BY <1>2, <1>3, ResumeWaiterSound
<1>7. /\ locks' \in [Locks -> LockType(Callers)] /\ LockInv'
      /\ locks'[l].locked
      /\ \A m \in Locks : m # l => locks'[m] = locks[m]
  BY <1>2, <1>3, <1>6, LockUpdate DEF IInv
<1>8. BranchTypeOK'
  BY <1>1, <1>4, <1>5, <1>7, GoodStoreIsWellOrdered DEF IInv, BranchTypeOK
<1>9. StoreInv'
  BY <1>1, <1>4, ShrunkStore DEF IInv, StoreInv, LockedKeysHaveNoValue
<1>10. ~Computing(c)
  BY DEF Computing, Waiting
<1>11. LockMatchesHolder'
  BY <1>3, <1>5, <1>6, <1>7, <1>10, HolderUpdate DEF IInv, LockMatchesHolder
<1>12. RegisteredLockIsHeld'
  BY <1>1, <1>5, <1>10, HeldLocksStayHeld DEF IInv
<1> QED
  BY <1>7, <1>8, <1>9, <1>11, <1>12 DEF IInv

\* The holder of a lock gives it back as it leaves.
LEMMA HolderLeaves ==
    ASSUME IInv, NEW c \in Callers, Computing(c), Leave(c),
           locks' = [locks EXCEPT ![call[c].lock] = Release(@)]
    PROVE  /\ locks' \in [Locks -> LockType(Callers)] /\ LockInv'
           /\ LockMatchesHolder' /\ RegisteredLockIsHeld'
<1> DEFINE l == call[c].lock
<1>1. l \in Locks /\ locks[l] \in LockType(Callers) /\ Sound(locks[l])
  BY SuspendedFields DEF IInv, BranchTypeOK, LockInv
<1>2. locks[l].locked /\ \A d \in Callers \ {c} : ~(Computing(d) /\ call[d].lock = l)
  BY <1>1 DEF IInv, LockMatchesHolder
<1>3. /\ DOMAIN key_locks' = DOMAIN key_locks \ {call[c].key}
      /\ \A j \in DOMAIN key_locks' : key_locks'[j] = key_locks[j]
      /\ ~Computing(c)'
      /\ \A d \in Callers \ {c} : call'[d] = call[d]
  BY LeaveProperties DEF IInv
<1>4. locks' = [locks EXCEPT ![l] = Release(locks[l])]
  OBVIOUS
<1>5. Computing(c) => call[c].lock = l
  OBVIOUS
<1> HIDE DEF l
<1>6. Release(locks[l]) \in LockType(Callers) /\ Sound(Release(locks[l])) /\ ~Release(locks[l]).locked
  BY <1>1, <1>2, ReleaseSound
<1>7. /\ locks' \in [Locks -> LockType(Callers)] /\ LockInv'
      /\ ~locks'[l].locked
      /\ \A m \in Locks : m # l => locks'[m] = locks[m]
  BY <1>1, <1>4, <1>6, LockUpdate DEF IInv
<1>8. LockMatchesHolder'
  BY <1>1, <1>2, <1>3, <1>5, <1>7, HolderUpdate DEF IInv
<1>9. RegisteredLockIsHeld'
  BY <1>3, HeldLocksStayHeld DEF IInv
<1> QED
  BY <1>7, <1>8, <1>9

\* The write of a finished run is of a key that is not stored elsewhere, and drops
\* the lock that would exempt it from eviction.
LEMMA FinishInv ==
    ASSUME IInv, NEW c \in Callers, Finish(c)
    PROVE  IInv'
<1> DEFINE k   == call[c].key
           ttl == call[c].ttl
<1>1. /\ Computing(c) /\ Leave(c)
      /\ store' \in Written(store, k, ttl, now, DOMAIN key_locks, Cap)
      /\ locks' = [locks EXCEPT ![call[c].lock] = Release(@)]
      /\ answered' = (answered \cup WaitersFor(k)) \ {c}
      /\ UNCHANGED now
  BY DEF Finish
<1>2. k \in Keys /\ ttl \in Int \cup {NoExpiry}
  BY <1>1, SuspendedFields DEF IInv
<1>3. /\ DOMAIN key_locks' = DOMAIN key_locks \ {k}
      /\ DOMAIN key_locks' \subseteq Keys /\ Range(key_locks') \subseteq Locks
      /\ call' \in [Callers -> Suspended \cup {Idle}]
      /\ cancelling' \subseteq Callers
  BY <1>1, LeaveProperties DEF IInv
<1>4. /\ locks' \in [Locks -> LockType(Callers)] /\ LockInv'
      /\ LockMatchesHolder' /\ RegisteredLockIsHeld'
  BY <1>1, HolderLeaves
<1>5. answered' \subseteq Callers
  BY <1>1 DEF IInv, BranchTypeOK, WaitersFor
<1> HIDE DEF k, ttl
<1>6. /\ GoodStore(store, Keys)' /\ Stored(store)' \subseteq Stored(store) \cup {k}
      /\ IsFiniteSet(Stored(store)') /\ Cardinality(Stored(store)') <= Cap
  <2>1. GoodStore(store, Keys) /\ now \in Int
    BY TypeGoodStore, MaxTimeAssumption DEF IInv, BranchTypeOK
  <2>2. DOMAIN key_locks \cap Stored(store) \subseteq {k}
    BY DEF IInv, StoreInv, LockedKeysHaveNoValue
  <2> QED
    BY <1>1, <1>2, <2>1, <2>2, CapAssumption, WrittenProperties DEF IInv, StoreInv, CapRespected
<1>7. StoreInv'
  BY <1>3, <1>6 DEF IInv, StoreInv, LockedKeysHaveNoValue, CapRespected
<1>8. BranchTypeOK'
  BY <1>1, <1>3, <1>4, <1>5, <1>6, GoodStoreIsWellOrdered DEF IInv, BranchTypeOK
<1> QED
  BY <1>4, <1>7, <1>8 DEF IInv

\* A run that fails leaves the store alone.
LEMMA AbortInv ==
    ASSUME IInv, NEW c \in Callers, Abort(c)
    PROVE  IInv'
<1>1. /\ Computing(c) /\ Leave(c)
      /\ locks' = [locks EXCEPT ![call[c].lock] = Release(@)]
      /\ answered' = answered \ {c}
      /\ UNCHANGED <<store, now>>
  BY DEF Abort
<1>2. /\ DOMAIN key_locks' \subseteq DOMAIN key_locks
      /\ DOMAIN key_locks' \subseteq Keys /\ Range(key_locks') \subseteq Locks
      /\ call' \in [Callers -> Suspended \cup {Idle}]
      /\ cancelling' \subseteq Callers
  BY <1>1, LeaveProperties DEF IInv
<1>3. /\ locks' \in [Locks -> LockType(Callers)] /\ LockInv'
      /\ LockMatchesHolder' /\ RegisteredLockIsHeld'
  BY <1>1, HolderLeaves
<1>4. BranchTypeOK'
  BY <1>1, <1>2, <1>3 DEF IInv, BranchTypeOK
<1>5. StoreInv'
  BY <1>1, <1>2, ShrunkStore DEF IInv, StoreInv, LockedKeysHaveNoValue
<1> QED
  BY <1>3, <1>4, <1>5 DEF IInv

\* A change to the queue of one lock that keeps its flag changes no holder.
LEMMA QueueChange ==
    ASSUME IInv, NEW l \in Locks, NEW new \in LockType(Callers), Sound(new),
           new.locked = locks[l].locked, locks' = [locks EXCEPT ![l] = new],
           \A d \in Callers : call'[d] = call[d] \/ (~Computing(d) /\ ~Computing(d)')
    PROVE  /\ locks' \in [Locks -> LockType(Callers)] /\ LockInv' /\ LockMatchesHolder'
<1>1. /\ locks' \in [Locks -> LockType(Callers)] /\ LockInv'
      /\ \A m \in Locks : locks'[m].locked = locks[m].locked
  BY LockUpdate DEF IInv
<1>2. \A m \in Locks : {d \in Callers : Computing(d)' /\ call'[d].lock = m}
                         = {d \in Callers : Computing(d) /\ call[d].lock = m}
  BY DEF Computing
<1>3. LockMatchesHolder'
  BY <1>1, <1>2 DEF IInv, LockMatchesHolder
<1> QED
  BY <1>1, <1>3

\* Cancelling a waiter marks its place in the queue.
LEMMA RequestCancelInv ==
    ASSUME IInv, NEW c \in Callers, Waiting(c), RequestCancel(c)
    PROVE  IInv'
<1> DEFINE l == call[c].lock
<1>1. /\ cancelling' = cancelling \cup {c}
      /\ UNCHANGED <<store, key_locks, call, now, answered>>
  BY DEF RequestCancel
<1>2. PICK i \in 1 .. Len(locks[l].waiters) :
              locks' = [locks EXCEPT ![l] = CancelWaiter(locks[l], i)]
  BY DEF RequestCancel
<1>3. l \in Locks /\ locks[l] \in LockType(Callers) /\ Sound(locks[l])
  BY SuspendedFields DEF IInv, BranchTypeOK, LockInv
<1> HIDE DEF l
<1>4. LET new == CancelWaiter(locks[l], i)
      IN new \in LockType(Callers) /\ Sound(new) /\ new.locked = locks[l].locked
  BY <1>3, CancelWaiterSound
<1>5. locks' \in [Locks -> LockType(Callers)] /\ LockInv' /\ LockMatchesHolder'
  <2> DEFINE new == CancelWaiter(locks[l], i)
  <2>1. /\ new \in LockType(Callers) /\ Sound(new) /\ new.locked = locks[l].locked
        /\ locks' = [locks EXCEPT ![l] = new]
    BY <1>2, <1>4
  <2>2. \A d \in Callers : call'[d] = call[d] \/ (~Computing(d) /\ ~Computing(d)')
    BY <1>1
  <2> HIDE DEF new
  <2> QED
    BY <1>3, <2>1, <2>2, QueueChange
<1>6. BranchTypeOK'
  BY <1>1, <1>5 DEF IInv, BranchTypeOK
<1>7. StoreInv' /\ RegisteredLockIsHeld'
  BY <1>1 DEF IInv, StoreInv, LockedKeysHaveNoValue, CapRespected, RegisteredLockIsHeld, Computing
<1> QED
  BY <1>5, <1>6, <1>7 DEF IInv

\* A cancelled waiter leaves the queue, and drops a registration that its key's
\* running call may have made.
LEMMA DeliverCancelInv ==
    ASSUME IInv, NEW c \in Callers, Waiting(c), DeliverCancel(c)
    PROVE  IInv'
<1> DEFINE l == call[c].lock
<1>1. Leave(c) /\ answered' = answered \ {c} /\ UNCHANGED <<store, now>>
  BY DEF DeliverCancel
<1>2. PICK i \in 1 .. Len(locks[l].waiters) :
              locks' = [locks EXCEPT ![l] = AbandonWaiter(locks[l], i)]
  BY DEF DeliverCancel
<1>3. l \in Locks /\ locks[l] \in LockType(Callers) /\ Sound(locks[l])
  BY SuspendedFields DEF IInv, BranchTypeOK, LockInv
<1>4. /\ DOMAIN key_locks' = DOMAIN key_locks \ {call[c].key}
      /\ \A j \in DOMAIN key_locks' : key_locks'[j] = key_locks[j]
      /\ DOMAIN key_locks' \subseteq Keys /\ Range(key_locks') \subseteq Locks
      /\ call' \in [Callers -> Suspended \cup {Idle}]
      /\ ~Computing(c)'
      /\ \A d \in Callers \ {c} : call'[d] = call[d]
      /\ cancelling' \subseteq Callers
  BY <1>1, LeaveProperties DEF IInv
<1> HIDE DEF l
<1>5. LET new == AbandonWaiter(locks[l], i)
      IN new \in LockType(Callers) /\ Sound(new) /\ new.locked = locks[l].locked
  BY <1>3, AbandonWaiterSound
<1>6. ~Computing(c)
  BY DEF Computing, Waiting
<1>7. locks' \in [Locks -> LockType(Callers)] /\ LockInv' /\ LockMatchesHolder'
  <2> DEFINE new == AbandonWaiter(locks[l], i)
  <2>1. /\ new \in LockType(Callers) /\ Sound(new) /\ new.locked = locks[l].locked
        /\ locks' = [locks EXCEPT ![l] = new]
    BY <1>2, <1>5
  <2>2. \A d \in Callers : call'[d] = call[d] \/ (~Computing(d) /\ ~Computing(d)')
    BY <1>4, <1>6
  <2> HIDE DEF new
  <2> QED
    BY <1>3, <2>1, <2>2, QueueChange
<1>8. BranchTypeOK'
  BY <1>1, <1>4, <1>7 DEF IInv, BranchTypeOK
<1>9. StoreInv'
  BY <1>1, <1>4, ShrunkStore DEF IInv, StoreInv, LockedKeysHaveNoValue
<1>10. RegisteredLockIsHeld'
  BY <1>4, <1>6, HeldLocksStayHeld DEF IInv
<1> QED
  BY <1>7, <1>8, <1>9, <1>10 DEF IInv

--------------------------------------------------------------------------------

\* The invariant is inductive.
THEOREM Invariance == Spec => []IInv
<1>1. Init => IInv
  BY InitInv
<1>2. IInv /\ [Next]_vars => IInv'
  <2> SUFFICES ASSUME IInv, [Next]_vars PROVE IInv'
    OBVIOUS
  <2>1. ASSUME NEW c \in Callers, Calls(c) PROVE IInv'
    BY <2>1, CallHitInv, CallSyncInv, CallComputesInv, CallWaitsInv DEF Calls
  <2>2. ASSUME NEW c \in Callers, Resumes(c) PROVE IInv'
    BY <2>2, ResumeHitInv, ResumeComputesInv DEF Resumes
  <2>3. ASSUME NEW c \in Callers, Finish(c) PROVE IInv'
    BY <2>3, FinishInv
  <2>4. ASSUME NEW c \in Callers, Abort(c) PROVE IInv'
    BY <2>4, AbortInv
  <2>5. ASSUME NEW c \in Callers, Cancels(c) PROVE IInv'
    BY <2>5, RequestCancelInv, DeliverCancelInv DEF Cancels
  <2>6. CASE Tick \/ UNCHANGED vars
    <3>1. UNCHANGED <<store, key_locks, locks, call, cancelling, answered>> /\ now' \in 0 .. MaxTime
      BY <2>6, MaxTimeAssumption DEF Tick, vars, IInv, BranchTypeOK
    <3> QED
      BY <3>1 DEF IInv, BranchTypeOK, StoreInv, LockedKeysHaveNoValue, CapRespected,
                  LockInv, LockMatchesHolder, RegisteredLockIsHeld, Computing
  <2> QED
    BY <2>1, <2>2, <2>3, <2>4, <2>5, <2>6 DEF Next
<1> QED
  BY <1>1, <1>2, PTL DEF Spec

\* The history of uses names keys only.
LEMMA UsedType ==
    ASSUME BranchTypeOK, used \subseteq Keys, [Next]_vars
    PROVE  used' \subseteq Keys
<1>1. ASSUME NEW c \in Callers, Calls(c) PROVE used' \subseteq Keys
  BY <1>1 DEF Calls, CallHit, CallSync, CallComputes, CallWaits
<1>2. ASSUME NEW c \in Callers, Resumes(c) PROVE used' \subseteq Keys
  BY <1>2, SuspendedFields DEF Resumes, ResumeHit, ResumeComputes
<1>3. ASSUME NEW c \in Callers, Finish(c) PROVE used' \subseteq Keys
  BY <1>3, SuspendedFields DEF Finish
<1>4. ASSUME NEW c \in Callers, Abort(c) \/ Cancels(c) PROVE used' \subseteq Keys
  BY <1>4 DEF Abort, Cancels, RequestCancel, DeliverCancel
<1>5. CASE Tick \/ UNCHANGED vars
  BY <1>5 DEF Tick, vars
<1> QED
  BY <1>1, <1>2, <1>3, <1>4, <1>5 DEF Next

\* Every reachable state is well typed.
THEOREM Typing == Spec => []TypeOK
<1> DEFINE History == coroutine \in Coroutines /\ lost \subseteq Keys /\ used \subseteq Keys
<1>1. Init => History
  BY DEF Init
<1>2. IInv /\ History /\ [Next]_vars => History'
  <2> SUFFICES ASSUME IInv, History, [Next]_vars PROVE History'
    OBVIOUS
  <2>1. used' \subseteq Keys
    BY UsedType DEF IInv
  <2>2. coroutine' \in Coroutines /\ lost' \subseteq Keys
    BY DEF Next, Recorded, vars
  <2> QED
    BY <2>1, <2>2
<1>3. IInv /\ History => TypeOK
  BY DEF IInv, TypeOK
<1> HIDE DEF History
<1> QED
  BY <1>1, <1>2, <1>3, Invariance, PTL DEF Spec

\* No key is stored and registered at once.
THEOREM NoValueUnderLock == Spec => []LockedKeysHaveNoValue
<1>1. IInv => LockedKeysHaveNoValue
  BY DEF IInv, StoreInv
<1> QED
  BY <1>1, Invariance, PTL

\* The store never exceeds max_entries.
THEOREM Bounded == Spec => []CapRespected
<1>1. IInv => CapRespected
  BY DEF IInv, StoreInv
<1> QED
  BY <1>1, Invariance, PTL

\* A lock object has one holder exactly while it is locked.
THEOREM MutualExclusion == Spec => []LockMatchesHolder
<1>1. IInv => LockMatchesHolder
  BY DEF IInv
<1> QED
  BY <1>1, Invariance, PTL

\* A free lock with a queue has a head that is awake.
THEOREM WakeUpsAreKept == Spec => []NoLostWakeup
<1>1. IInv => NoLostWakeup
  BY DEF IInv, LockInv, Sound, NoLostWakeup
<1> QED
  BY <1>1, Invariance, PTL

\* A registered lock is held by a running call of its key.
THEOREM RegistryIsLive == Spec => []RegisteredLockIsHeld
<1>1. IInv => RegisteredLockIsHeld
  BY DEF IInv
<1> QED
  BY <1>1, Invariance, PTL

--------------------------------------------------------------------------------
(* Single flight, for any number of callers, keys and locks: unless a key was   *)
(* lost to the callers suspended on it, the tool runs once for it and those who *)
(* waited for that run do not repeat it.                                        *)

\* What is known of a suspended caller whose key was not lost: while the value
\* is there, it waits for nothing but its turn to read it; until then it is
\* queued on, or holds, the one lock that newcomers find registered, and no
\* run that it could have read the value of has ended.
Undisturbed(c) ==
    /\ Live(store, call[c].key, now) => Waiting(c)
    /\ ~Live(store, call[c].key, now) =>
          /\ call[c].key \in DOMAIN key_locks
          /\ call[c].lock = key_locks[call[c].key]
          /\ c \notin answered

Flights == \A c \in Callers : call[c] # Idle /\ call[c].key \notin lost => Undisturbed(c)

FInv == /\ Flights
        /\ \A c \in answered : call[c] # Idle
        /\ ~coroutine => \A c \in Callers : call[c] = Idle

--------------------------------------------------------------------------------
(* What reading and writing do to the values of other keys.                     *)

\* A read changes nothing about which keys have a live value.
LEMMA ReadKeepsLives ==
    ASSUME NEW Keyset, NEW s, GoodStore(s, Keyset), NEW j, NEW k, NEW time
    PROVE  Live(Read(s, j, time), k, time) <=> Live(s, k, time)
<1>1. CASE Live(s, j, time)
  <2>1. Read(s, j, time).expiry = s.expiry
    BY <1>1 DEF Read, MoveToEnd, GoodStore, IsStore
  <2> QED
    BY <2>1 DEF Live, Stored
<1>2. CASE ~Live(s, j, time)
  <2>1. Read(s, j, time).expiry = [i \in Stored(s) \ {j} |-> s.expiry[i]]
    BY <1>2 DEF Read, Without, Restrict, Stored
  <2> QED
    BY <1>2, <2>1 DEF Live, Stored
<1> QED
  BY <1>1, <1>2

\* A write brings back no other key.
LEMMA WriteRevivesNoOther ==
    ASSUME NEW Keyset, NEW s, GoodStore(s, Keyset), NEW j, NEW ttl, NEW time, NEW pinned, NEW cap,
           NEW t \in Written(s, j, ttl, time, pinned, cap), NEW k, k # j, Live(t, k, time)
    PROVE  Live(s, k, time)
<1> DEFINE kept == Without(s, ExpiredKeys(s, time))
           full == Insert(kept, j, ttl, time)
<1>1. PICK V : t = Without(full, V)
  BY DEF Written
<1>2. GoodStore(kept, Keyset)
  BY WithoutProperties
<1>3. \A i \in Stored(kept) : i \in Stored(s) /\ kept.expiry[i] = s.expiry[i]
  BY DEF Without, Restrict, Stored
<1> HIDE DEF kept
<1>4. full.expiry = [i \in Stored(kept) \cup {j} |->
                        IF i = j THEN ExpiryOf(ttl, time) ELSE kept.expiry[i]]
  BY <1>2 DEF Insert, MoveToEnd, GoodStore, IsStore
<1> HIDE DEF full
<1>5. t.expiry = [i \in Stored(full) \ V |-> full.expiry[i]]
  BY <1>1 DEF Without, Restrict, Stored
<1>6. k \in Stored(kept) /\ t.expiry[k] = kept.expiry[k]
  BY <1>4, <1>5 DEF Live, Stored
<1> QED
  BY <1>3, <1>6 DEF Live

\* What the history says of a key that somebody is still suspended on.
LEMMA NotLost ==
    ASSUME Recorded, BranchTypeOK', NEW c \in Callers, call'[c] # Idle, call'[c].key \notin lost'
    PROVE  LET k == call'[c].key
           IN /\ k \in Keys /\ k \notin lost
              /\ \/ Live(store', k, now')
                 \/ /\ ~Live(store, k, now)
                    /\ \A d \in Callers : call[d] # Idle /\ call'[d] = Idle => call[d].key # k
<1>1. call'[c].key \in Keys
  BY DEF BranchTypeOK, Suspended
<1> QED
  BY <1>1 DEF Recorded

\* Idle is none of the records of a suspended call.
LEMMA Suspension ==
    ASSUME BranchTypeOK, NEW c \in Callers
    PROVE  call[c] # Idle <=> Waiting(c) \/ Computing(c)
  BY DEF BranchTypeOK, Suspended, Idle, Waiting, Computing

--------------------------------------------------------------------------------
(* Every action preserves the invariant.                                        *)

\* A step that suspends and resumes nobody, and after which no more keys are live.
LEMMA SteadyStep ==
    ASSUME IInv, FInv, Recorded, BranchTypeOK',
           UNCHANGED <<key_locks, call, answered>>,
           \A k \in Keys : Live(store', k, now') => Live(store, k, now)
    PROVE  FInv'
<1>1. ASSUME NEW c \in Callers, call'[c] # Idle, call'[c].key \notin lost'
      PROVE  Undisturbed(c)'
  <2>1. call[c].key \in Keys /\ call[c].key \notin lost
    BY <1>1, NotLost
  <2>2. Undisturbed(c)
    BY <1>1, <2>1 DEF FInv, Flights
  <2>3. Live(store', call[c].key, now') <=> Live(store, call[c].key, now)
    BY <1>1, <2>1, NotLost
  <2> QED
    BY <2>2, <2>3 DEF Undisturbed, Waiting
<1> QED
  BY <1>1 DEF FInv, Flights, Recorded

\* A caller that misses joins the callers of its key on the registered lock.
LEMMA JoiningStep ==
    ASSUME IInv, FInv, Recorded, BranchTypeOK',
           NEW d \in Callers, NEW k \in Keys, NEW l \in Locks, NEW rec,
           coroutine, call[d] = Idle, ~Live(store, k, now), IsKeyLock(k, l),
           rec.key = k, rec.lock = l, rec # Idle,
           store' = Read(store, k, now), key_locks' = Register(k, l),
           call' = [call EXCEPT ![d] = rec], UNCHANGED <<now, answered>>
    PROVE  FInv'
<1>1. call'[d] = rec /\ \A c \in Callers \ {d} : call'[c] = call[c]
  BY DEF IInv, BranchTypeOK
<1>2. /\ key_locks'[k] = l /\ DOMAIN key_locks' = DOMAIN key_locks \cup {k}
      /\ \A j \in DOMAIN key_locks : key_locks'[j] = key_locks[j]
  BY RegisterProperties DEF IInv
<1>3. \A j : Live(store', j, now') <=> Live(store, j, now)
  BY ReadKeepsLives, TypeGoodStore DEF IInv
<1>4. d \notin answered
  BY DEF FInv
<1>5. ASSUME NEW c \in Callers, call'[c] # Idle, call'[c].key \notin lost'
      PROVE  Undisturbed(c)'
  <2>1. CASE c = d
    BY <1>1, <1>2, <1>3, <1>4, <2>1 DEF Undisturbed
  <2>2. CASE c # d
    <3>1. call'[c] = call[c]
      BY <1>1, <2>2
    <3>2. Undisturbed(c)
      BY <1>5, <3>1, NotLost DEF FInv, Flights
    <3> QED
      BY <1>2, <1>3, <3>1, <3>2 DEF Undisturbed, Waiting
  <2> QED
    BY <2>1, <2>2
<1>6. \A c \in answered' : call'[c] # Idle
  BY <1>1, <1>4 DEF FInv, IInv, BranchTypeOK
<1> QED
  BY <1>5, <1>6 DEF FInv, Flights, Recorded

\* A caller that leaves takes the lock of its key out of the registry.  Those it
\* leaves behind have a value to read, or their key is lost.
LEMMA LeavingStep ==
    ASSUME IInv, FInv, Recorded, BranchTypeOK',
           NEW d \in Callers, Waiting(d) \/ Computing(d), Leave(d),
           \A k \in Keys : Live(store', k, now') =>
                              Live(store, k, now) \/ (Computing(d) /\ call[d].key = k),
           answered' \subseteq (answered \cup WaitersFor(call[d].key)) \ {d}
    PROVE  FInv'
<1>1. /\ DOMAIN key_locks' = DOMAIN key_locks \ {call[d].key}
      /\ \A j \in DOMAIN key_locks' : key_locks'[j] = key_locks[j]
      /\ call'[d] = Idle
      /\ \A c \in Callers \ {d} : call'[c] = call[c]
  BY LeaveProperties DEF IInv
<1>2. call[d] # Idle
  BY Suspension DEF IInv
<1>3. ASSUME NEW c \in Callers, call'[c] # Idle, call'[c].key \notin lost'
      PROVE  Undisturbed(c)'
  <2> DEFINE k == call[c].key
  <2>1. c # d /\ call'[c] = call[c]
    BY <1>1, <1>3
  <2>2. k \in Keys /\ k \notin lost /\ Undisturbed(c)
    BY <1>3, <2>1, NotLost DEF FInv, Flights
  <2>3. CASE Live(store', k, now')
    <3>1. CASE Live(store, k, now)
      BY <2>1, <2>2, <2>3, <3>1 DEF Undisturbed, Waiting
    <3>2. CASE ~Live(store, k, now)
      <4>1. Computing(d) /\ call[d].key = k
        BY <2>2, <2>3, <3>2
      <4>2. call[c].lock = key_locks[k] /\ call[d].lock = key_locks[k] /\ k \in DOMAIN key_locks
        BY <1>2, <2>2, <3>2, <4>1 DEF FInv, Flights, Undisturbed
      <4>3. key_locks[k] \in Locks
        BY <4>2, SuspendedFields, <4>1 DEF IInv
      <4>4. ~Computing(c)
        BY <2>1, <4>1, <4>2, <4>3 DEF IInv, LockMatchesHolder
      <4>5. Waiting(c)
        BY <1>3, <2>1, <4>4, Suspension DEF IInv
      <4> QED
        BY <2>1, <2>3, <4>5 DEF Undisturbed, Waiting
    <3> QED
      BY <3>1, <3>2
  <2>4. CASE ~Live(store', k, now')
    <3>1. ~Live(store, k, now) /\ call[d].key # k
      BY <1>1, <1>2, <1>3, <2>1, <2>4, NotLost
    <3>2. c \notin answered'
      BY <2>2, <3>1 DEF Undisturbed, WaitersFor
    <3> QED
      BY <1>1, <2>1, <2>2, <2>4, <3>1, <3>2 DEF Undisturbed
  <2> QED
    BY <2>3, <2>4
<1>4. \A c \in answered' : call'[c] # Idle
  <2> SUFFICES ASSUME NEW c \in answered' PROVE call'[c] # Idle
    OBVIOUS
  <2>1. c \in Callers \ {d} /\ (c \in answered \/ Waiting(c))
    BY DEF WaitersFor, IInv, BranchTypeOK
  <2>2. call[c] # Idle
    BY <2>1, Suspension DEF FInv, IInv
  <2> QED
    BY <1>1, <2>1, <2>2
<1> QED
  BY <1>2, <1>3, <1>4 DEF FInv, Flights, Recorded

\* A waiter that finds nothing computes: the lock it has is still the registered one.
LEMMA ResumeComputesStep ==
    ASSUME IInv, FInv, Recorded, BranchTypeOK', NEW d \in Callers, Waiting(d), ResumeComputes(d)
    PROVE  FInv'
<1>1. /\ ~Live(store, call[d].key, now)
      /\ store' = Read(store, call[d].key, now)
      /\ call' = [call EXCEPT ![d].at = "computing"]
      /\ UNCHANGED <<key_locks, now, answered>>
  BY DEF ResumeComputes
<1>2. /\ call'[d].key = call[d].key /\ call'[d].lock = call[d].lock /\ call[d] # Idle
      /\ \A c \in Callers \ {d} : call'[c] = call[c]
      /\ call'[d] # Idle
  <2>1. call[d] \in Suspended
    BY SuspendedFields DEF IInv
  <2>2. call' = [call EXCEPT ![d] = [call[d] EXCEPT !.at = "computing"]]
    BY <1>1
  <2>3. call'[d] = [call[d] EXCEPT !.at = "computing"]
    BY <2>2 DEF IInv, BranchTypeOK
  <2> QED
    BY <2>1, <2>2, <2>3, SuspendedFields DEF IInv, Suspended, Idle, BranchTypeOK
<1>3. \A j : Live(store', j, now') <=> Live(store, j, now)
  BY <1>1, ReadKeepsLives, TypeGoodStore DEF IInv
<1>4. ASSUME NEW c \in Callers, call'[c] # Idle, call'[c].key \notin lost'
      PROVE  Undisturbed(c)'
  <2>1. call[c] # Idle /\ call'[c].key = call[c].key /\ call'[c].lock = call[c].lock
    BY <1>2, <1>4
  <2>2. Undisturbed(c)
    BY <1>4, <2>1, NotLost DEF FInv, Flights
  <2>3. Live(store, call[c].key, now) => c # d
    BY <1>1
  <2> QED
    BY <1>1, <1>2, <1>3, <2>1, <2>2, <2>3 DEF Undisturbed, Waiting
<1>5. \A c \in answered' : call'[c] # Idle
  BY <1>1, <1>2 DEF FInv, IInv, BranchTypeOK
<1> QED
  BY <1>2, <1>4, <1>5 DEF FInv, Flights, Recorded

\* Around a plain function nobody is ever suspended.
LEMMA CallSyncStep ==
    ASSUME IInv, FInv, Recorded, NEW d \in Callers, NEW k \in Keys, NEW ttl \in TTLs, CallSync(d, k, ttl)
    PROVE  FInv'
  BY DEF CallSync, FInv, Flights, Recorded, IInv, BranchTypeOK

\* A caller waits only behind another one, so the tool is a coroutine function.
LEMMA WaitersNeedCoroutines ==
    ASSUME IInv, FInv, NEW d \in Callers, NEW k \in Keys, NEW ttl \in TTLs, NEW l \in Locks,
           CallWaits(d, k, ttl, l)
    PROVE  coroutine
<1>1. k \in DOMAIN key_locks
  BY DEF CallWaits, LockFor, CanTake, FreshLock
<1>2. PICK c \in Callers : Computing(c)
  BY <1>1 DEF IInv, RegisteredLockIsHeld
<1> QED
  BY <1>2 DEF FInv, Computing, Idle

--------------------------------------------------------------------------------

\* The initial state satisfies the invariant.
LEMMA FlightInit == Init => FInv
  BY DEF Init, FInv, Flights

\* Every step preserves it.
LEMMA FlightNext ==
    ASSUME IInv, FInv, [Next]_vars, IInv'
    PROVE  FInv'
<1>0. BranchTypeOK'
  BY DEF IInv
<1>1. CASE UNCHANGED vars
  <2>1. UNCHANGED <<store, now, key_locks, call, answered, lost, coroutine>>
    BY <1>1 DEF vars
  <2> QED
    BY <2>1 DEF FInv, Flights, Undisturbed, Waiting
<1> SUFFICES ASSUME Next, Recorded PROVE FInv'
  BY <1>1 DEF Next
<1>2. ASSUME NEW d \in Callers, NEW k \in Keys, CallHit(d, k) PROVE FInv'
  <2>1. \A j : Live(store', j, now') <=> Live(store, j, now)
    BY <1>2, ReadKeepsLives, TypeGoodStore DEF CallHit, IInv
  <2> QED
    BY <1>0, <1>2, <2>1, SteadyStep DEF CallHit
<1>3. ASSUME NEW d \in Callers, NEW k \in Keys, NEW ttl \in TTLs, NEW l \in Locks,
             CallComputes(d, k, ttl, l)
      PROVE  FInv'
  <2> DEFINE rec == [at |-> "computing", key |-> k, ttl |-> ttl, lock |-> l]
  <2>1. rec.key = k /\ rec.lock = l /\ rec # Idle
    BY DEF Idle
  <2>2. call' = [call EXCEPT ![d] = rec]
    BY <1>3 DEF CallComputes
  <2> HIDE DEF rec
  <2> QED
    BY <1>0, <1>3, <2>1, <2>2, JoiningStep DEF CallComputes
<1>4. ASSUME NEW d \in Callers, NEW k \in Keys, NEW ttl \in TTLs, NEW l \in Locks,
             CallWaits(d, k, ttl, l)
      PROVE  FInv'
  <2> DEFINE rec == [at |-> "waiting", key |-> k, ttl |-> ttl, lock |-> l]
  <2>1. rec.key = k /\ rec.lock = l /\ rec # Idle
    BY DEF Idle
  <2>2. call' = [call EXCEPT ![d] = rec]
    BY <1>4 DEF CallWaits
  <2> HIDE DEF rec
  <2> QED
    BY <1>0, <1>4, <2>1, <2>2, WaitersNeedCoroutines, JoiningStep DEF CallWaits
<1>5. ASSUME NEW d \in Callers, Calls(d) PROVE FInv'
  BY <1>2, <1>3, <1>4, <1>5, CallSyncStep DEF Calls
<1>6. ASSUME NEW d \in Callers, Waiting(d), ResumeHit(d) PROVE FInv'
  <2>1. \A j : Live(store', j, now') <=> Live(store, j, now)
    BY <1>6, ReadKeepsLives, TypeGoodStore DEF ResumeHit, IInv
  <2>2. Leave(d) /\ answered' = answered \ {d}
    BY <1>6 DEF ResumeHit
  <2> QED
    BY <1>0, <1>6, <2>1, <2>2, LeavingStep
<1>7. ASSUME NEW d \in Callers, Finish(d) PROVE FInv'
  <2>1. /\ Computing(d) /\ Leave(d) /\ now' = now
        /\ store' \in Written(store, call[d].key, call[d].ttl, now, DOMAIN key_locks, Cap)
        /\ answered' = (answered \cup WaitersFor(call[d].key)) \ {d}
    BY <1>7 DEF Finish
  <2>2. \A j \in Keys : Live(store', j, now') => Live(store, j, now) \/ call[d].key = j
    BY <2>1, WriteRevivesNoOther, TypeGoodStore DEF IInv
  <2> QED
    BY <1>0, <2>1, <2>2, LeavingStep
<1>8. ASSUME NEW d \in Callers, Abort(d) PROVE FInv'
  <2>1. Computing(d) /\ Leave(d) /\ answered' = answered \ {d} /\ UNCHANGED <<store, now>>
    BY <1>8 DEF Abort
  <2> QED
    BY <1>0, <2>1, LeavingStep
<1>9. ASSUME NEW d \in Callers, Waiting(d), DeliverCancel(d) PROVE FInv'
  <2>1. Leave(d) /\ answered' = answered \ {d} /\ UNCHANGED <<store, now>>
    BY <1>9 DEF DeliverCancel
  <2> QED
    BY <1>0, <1>9, <2>1, LeavingStep
<1>10. ASSUME NEW d \in Callers, RequestCancel(d) PROVE FInv'
  BY <1>0, <1>10, SteadyStep DEF RequestCancel
<1>11. CASE Tick
  <2>1. \A k \in Keys : Live(store', k, now') => Live(store, k, now)
    BY <1>11, MaxTimeAssumption DEF Tick, Live, Stored, IInv, BranchTypeOK, IsStore
  <2> QED
    BY <1>0, <1>11, <2>1, SteadyStep DEF Tick
<1> QED
  BY <1>5, <1>6, <1>7, <1>8, <1>9, <1>10, <1>11, ResumeComputesStep, <1>0
     DEF Next, Resumes, Cancels

\* The invariants together are inductive.
THEOREM FlightInvariance == Spec => [](IInv /\ FInv)
<1>1. IInv /\ FInv /\ [Next]_vars /\ IInv' => FInv'
  BY FlightNext
<1> QED
  BY <1>1, FlightInit, Invariance, PTL DEF Spec

\* The tool runs once at a time for a key that was not lost.
THEOREM OneFlight == Spec => []SingleFlightUnlessLost
<1>1. IInv /\ FInv => SingleFlightUnlessLost
  <2> SUFFICES ASSUME IInv, FInv, NEW c \in Callers, NEW d \in Callers,
                      Computing(c), Computing(d), call[c].key = call[d].key, call[c].key \notin lost
               PROVE  c = d
    BY DEF SingleFlightUnlessLost
  <2>1. call[c] # Idle /\ call[d] # Idle /\ ~Waiting(c)
    BY DEF Computing, Waiting, Idle
  <2>2. call[c].lock = call[d].lock
    BY <2>1 DEF FInv, Flights, Undisturbed
  <2> QED
    BY <2>2, SuspendedFields DEF IInv, LockMatchesHolder
<1> QED
  BY <1>1, FlightInvariance, PTL

\* Nobody repeats the run it waited for, unless the key was lost.
THEOREM NoRepetition == Spec => []NoReexecutionUnlessLost
<1>1. IInv /\ FInv => NoReexecutionUnlessLost
  <2> SUFFICES ASSUME FInv, NEW c \in Callers, Computing(c), c \in answered
               PROVE  call[c].key \in lost
    BY DEF NoReexecutionUnlessLost
  <2>1. call[c] # Idle /\ ~Waiting(c)
    BY DEF Computing, Waiting, Idle
  <2> QED
    BY <2>1 DEF FInv, Flights, Undisturbed
<1> QED
  BY <1>1, FlightInvariance, PTL
--------------------------------------------------------------------------------
(* The store implements LruCache.                                               *)

\* What Lru!At is, for any store.
ItemsAt(s, P) == LET places == InOrder(P, Ascending(P))
                 IN [n \in 1 .. Cardinality(P) |-> Items(s)[places[n]]]

LEMMA AtIsItemsAt == /\ \A P : Lru!At(P) = ItemsAt(store, P)
                     /\ \A P : Lru!Cardinality(P) = Cardinality(P)
<1>1. \A P : Lru!Cardinality(P) = Cardinality(P)
  BY DEF Lru!Cardinality, Cardinality
<1>2. \A S, R : Lru!InOrder(S, R) = InOrder(S, R)
  BY <1>1 DEF Lru!InOrder, InOrder
<1>3. \A P : Lru!Ascending(P) = Ascending(P)
  BY DEF Lru!Ascending, Ascending
<1> QED
  BY <1>1, <1>2, <1>3 DEF Lru!At, ItemsAt

Item == Keys \X (Int \cup {NoExpiry})

\* The items q are the n keys of t, each with its expiry in s.
Pairs(q, t, n, s) == DOMAIN q = 1 .. n /\ \A i \in 1 .. n : q[i] = <<t[i], s.expiry[t[i]]>>

\* The keys of the items at the places P.
KeysIn(s, P) == {Items(s)[i][1] : i \in P}

\* t has the expiries and the order of s on the keys K.
Agree(s, t, K) == /\ \A j \in K : t.expiry[j] = s.expiry[j]
                  /\ \A i, j \in K : <<i, j>> \in s.older => <<i, j>> \in t.older

FiniteStore(s) == GoodStore(s, Keys) /\ IsFiniteSet(Stored(s))

LEMMA InvFiniteStore == IInv => FiniteStore(store)
  BY TypeGoodStore DEF IInv, StoreInv, FiniteStore

LEMMA InvFiniteStoreNext == IInv' => FiniteStore(store')
  BY GoodStoreIsWellOrdered DEF IInv, BranchTypeOK, StoreInv, FiniteStore

\* The items of a store enumerate its keys, each with its expiry.
LEMMA ItemsProperties ==
    ASSUME NEW s, FiniteStore(s), NEW order, order = InOrder(Stored(s), s.older),
           NEW n, n = Cardinality(Stored(s))
    PROVE  /\ n \in Nat
           /\ Enumerates(order, n, Stored(s), s.older)
           /\ Linear(s.older, Stored(s))
           /\ Items(s) \in Seq(Item)
           /\ DOMAIN Items(s) = 1 .. n
           /\ \A i \in 1 .. n : /\ Items(s)[i] = <<order[i], s.expiry[order[i]]>>
                                /\ order[i] \in Stored(s)
<1>1. n \in Nat /\ Linear(s.older, Stored(s))
  BY FS_CardinalityType DEF FiniteStore, GoodStore
<1>2. Enumerates(order, n, Stored(s), s.older)
  BY <1>1, InOrderEnumerates DEF FiniteStore
<1>3. \A i \in 1 .. n : order[i] \in Stored(s)
  BY <1>2 DEF Enumerates
<1>4. Items(s) = [i \in 1 .. n |-> <<order[i], s.expiry[order[i]]>>]
  BY DEF Items
<1>5. \A i \in 1 .. n : <<order[i], s.expiry[order[i]]>> \in Item
  BY <1>3 DEF FiniteStore, GoodStore, IsStore, Stored, Item
<1>6. Items(s) \in Seq(Item)
  BY <1>1, <1>4, <1>5, IsASeq
<1> QED
  BY <1>1, <1>2, <1>3, <1>4, <1>6

\* A sequence that enumerates the keys of a store with their expiries is its items.
LEMMA ItemsUnique ==
    ASSUME NEW s, FiniteStore(s), NEW n \in Nat, NEW t, Enumerates(t, n, Stored(s), s.older)
    PROVE  Pairs(Items(s), t, n, s)
<1>1. Linear(s.older, Stored(s))
  BY DEF FiniteStore, GoodStore
<1>2. Cardinality(Stored(s)) = n /\ t = InOrder(Stored(s), s.older)
  BY <1>1, EnumerationUnique
<1> QED
  BY <1>2 DEF Items, Pairs

\* The keys at some places, in the order they have.
LEMMA KeysAt ==
    ASSUME NEW s, FiniteStore(s), NEW P \in SUBSET (DOMAIN Items(s))
    PROVE  \E f : /\ Cardinality(P) \in Nat
                  /\ Enumerates(f, Cardinality(P), KeysIn(s, P), s.older)
                  /\ KeysIn(s, P) \subseteq Stored(s)
                  /\ ItemsAt(s, P) \in Seq(Item)
                  /\ DOMAIN ItemsAt(s, P) = 1 .. Cardinality(P)
                  /\ \A m \in 1 .. Cardinality(P) : ItemsAt(s, P)[m] = <<f[m], s.expiry[f[m]]>>
<1> DEFINE order  == InOrder(Stored(s), s.older)
           n      == Cardinality(Stored(s))
           places == InOrder(P, Ascending(P))
           part   == KeysIn(s, P)
           g      == Picked(order, places, Cardinality(P))
<1>1. /\ n \in Nat
      /\ Enumerates(order, n, Stored(s), s.older)
      /\ Linear(s.older, Stored(s))
      /\ Items(s) \in Seq(Item)
      /\ DOMAIN Items(s) = 1 .. n
      /\ \A i \in 1 .. n : Items(s)[i] = <<order[i], s.expiry[order[i]]>> /\ order[i] \in Stored(s)
  <2> HIDE DEF order, n
  <2>1. order = InOrder(Stored(s), s.older) /\ n = Cardinality(Stored(s))
    BY DEF order, n
  <2> QED
    BY <2>1, ItemsProperties
<1> HIDE DEF order, n
<1>2. P \in SUBSET (1 .. n)
  BY <1>1
<1>3. part = {order[i] : i \in P} /\ part \subseteq Stored(s)
  BY <1>1, <1>2 DEF KeysIn
<1>4. /\ Cardinality(P) \in Nat
      /\ \A m \in 1 .. Cardinality(P) : places[m] \in P
      /\ Enumerates(g, Cardinality(P), part, s.older)
  <2> HIDE DEF places, part
  <2>1. places = InOrder(P, Ascending(P))
    BY DEF places
  <2>2. \A x : x \in part <=> \E i \in P : x = order[i]
    BY <1>3
  <2> QED
    BY <1>1, <1>2, <2>1, <2>2, PartEnumerates
<1>5. ItemsAt(s, P) = [m \in 1 .. Cardinality(P) |-> Items(s)[places[m]]]
  BY DEF ItemsAt
<1> HIDE DEF places
<1>6. PICK p \in Nat : p = Cardinality(P)
  BY <1>4
<1>7. \A m \in 1 .. p : /\ ItemsAt(s, P)[m] = <<order[places[m]], s.expiry[order[places[m]]]>>
                        /\ Items(s)[places[m]] \in Item
  <2> SUFFICES ASSUME NEW m \in 1 .. p
               PROVE  /\ ItemsAt(s, P)[m] = <<order[places[m]], s.expiry[order[places[m]]]>>
                      /\ Items(s)[places[m]] \in Item
    OBVIOUS
  <2>1. places[m] \in 1 .. n
    BY <1>2, <1>4, <1>6
  <2>2. Items(s)[places[m]] \in Item
    BY <1>1, <2>1, ElementOfSeq
  <2> QED
    BY <1>1, <1>5, <1>6, <2>1, <2>2
<1>8. ItemsAt(s, P) = [m \in 1 .. p |-> Items(s)[places[m]]]
  BY <1>5, <1>6
<1>9. ItemsAt(s, P) \in Seq(Item) /\ DOMAIN ItemsAt(s, P) = 1 .. p
  BY <1>7, <1>8, IsASeq
<1>10. \A m \in 1 .. p : ItemsAt(s, P)[m] = <<g[m], s.expiry[g[m]]>>
  BY <1>6, <1>7 DEF Picked
<1> HIDE DEF g, part
<1> QED
  BY <1>3, <1>4, <1>6, <1>9, <1>10 DEF part

\* A store that keeps the keys at some places, and nothing else.
LEMMA KeptOnly ==
    ASSUME NEW s, FiniteStore(s), NEW t, FiniteStore(t), NEW P \in SUBSET (DOMAIN Items(s)),
           Stored(t) = KeysIn(s, P), Agree(s, t, Stored(t))
    PROVE  Items(t) = ItemsAt(s, P)
<1>1. PICK f : /\ Cardinality(P) \in Nat
               /\ Enumerates(f, Cardinality(P), Stored(t), s.older)
               /\ ItemsAt(s, P) \in Seq(Item)
               /\ DOMAIN ItemsAt(s, P) = 1 .. Cardinality(P)
               /\ \A m \in 1 .. Cardinality(P) : ItemsAt(s, P)[m] = <<f[m], s.expiry[f[m]]>>
  BY KeysAt
<1>2. PICK p \in Nat : p = Cardinality(P)
  BY <1>1
<1>3. \A m \in 1 .. p : f[m] \in Stored(t)
  BY <1>1, <1>2 DEF Enumerates
<1>4. Enumerates(f, p, Stored(t), t.older)
  BY <1>1, <1>2, <1>3 DEF Enumerates, Agree
<1>5. DOMAIN Items(t) = 1 .. p /\ \A m \in 1 .. p : Items(t)[m] = <<f[m], t.expiry[f[m]]>>
  <2>1. Pairs(Items(t), f, p, t)
    BY <1>4, ItemsUnique
  <2> QED
    BY <2>1 DEF Pairs
<1>6. \A m \in 1 .. p : Items(t)[m] = ItemsAt(s, P)[m]
  BY <1>1, <1>2, <1>3, <1>5 DEF Agree
<1>7. DOMAIN Items(t) = 1 .. p /\ Items(t) \in Seq(Item)
  <2>1. Items(t) \in Seq(Item)
    BY ItemsProperties
  <2> QED
    BY <1>5, <2>1
<1>8. Len(Items(t)) = p /\ Len(ItemsAt(s, P)) = p
  BY <1>1, <1>2, <1>7, LenProperties
<1> QED
  BY <1>1, <1>6, <1>7, <1>8, SeqEqual

\* A store that keeps the keys at some places, and has one more behind them.
LEMMA KeptAndAdded ==
    ASSUME NEW s, FiniteStore(s), NEW t, FiniteStore(t), NEW P \in SUBSET (DOMAIN Items(s)), NEW k \in Keys,
           NEW part, part = KeysIn(s, P), Stored(t) = part \cup {k}, Agree(s, t, part),
           \A j \in part : <<j, k>> \in t.older
    PROVE  Items(t) = Append(ItemsAt(s, P), <<k, t.expiry[k]>>)
<1>1. PICK f : /\ Cardinality(P) \in Nat
               /\ Enumerates(f, Cardinality(P), part, s.older)
               /\ ItemsAt(s, P) \in Seq(Item)
               /\ DOMAIN ItemsAt(s, P) = 1 .. Cardinality(P)
               /\ \A m \in 1 .. Cardinality(P) : ItemsAt(s, P)[m] = <<f[m], s.expiry[f[m]]>>
  BY KeysAt
<1>2. PICK p \in Nat : p = Cardinality(P)
  BY <1>1
<1> DEFINE g == Extended(f, p, k)
<1>3. Enumerates(g, p + 1, part \cup {k}, t.older)
  <2>1. Enumerates(f, p, part, s.older)
    BY <1>1, <1>2
  <2>2. \A x, y \in part : <<x, y>> \in s.older => <<x, y>> \in t.older
    BY DEF Agree
  <2> QED
    BY <2>1, <2>2, EnumerationGrows
<1>4. DOMAIN Items(t) = 1 .. p + 1 /\ \A m \in 1 .. p + 1 : Items(t)[m] = <<g[m], t.expiry[g[m]]>>
  <2> HIDE DEF g
  <2>1. p + 1 \in Nat /\ Enumerates(g, p + 1, Stored(t), t.older)
    BY <1>2, <1>3
  <2>2. Pairs(Items(t), g, p + 1, t)
    BY <2>1, ItemsUnique
  <2> QED
    BY <2>2 DEF Pairs
<1>5. \A m \in 1 .. p : f[m] \in part
  BY <1>1, <1>2 DEF Enumerates
<1>6. \A m \in 1 .. p : m \in 1 .. p + 1 /\ g[m] = f[m]
  BY DEF Extended
<1>7. p + 1 \in 1 .. p + 1 /\ g[p + 1] = k
  BY DEF Extended
<1> HIDE DEF g
<1>8. /\ \A m \in 1 .. p : Items(t)[m] = ItemsAt(s, P)[m]
      /\ Items(t)[p + 1] = <<k, t.expiry[k]>>
      /\ DOMAIN Items(t) = 1 .. p + 1
  <2>1. ASSUME NEW m \in 1 .. p PROVE Items(t)[m] = ItemsAt(s, P)[m]
    <3>1. Items(t)[m] = <<f[m], t.expiry[f[m]]>>
      BY <1>4, <1>6
    <3>2. ItemsAt(s, P)[m] = <<f[m], s.expiry[f[m]]>>
      BY <1>1, <1>2
    <3>3. t.expiry[f[m]] = s.expiry[f[m]]
      BY <1>5 DEF Agree
    <3> QED
      BY <3>1, <3>2, <3>3
  <2> QED
    BY <1>4, <1>7, <2>1
<1>9. Items(t) \in Seq(Item) /\ <<k, t.expiry[k]>> \in Item
  <2>1. Items(t) \in Seq(Item)
    BY ItemsProperties
  <2>2. <<k, t.expiry[k]>> \in Item
    BY DEF FiniteStore, GoodStore, IsStore, Stored, Item
  <2> QED
    BY <2>1, <2>2
<1>10. Len(Items(t)) = p + 1 /\ Len(ItemsAt(s, P)) = p
  BY <1>1, <1>2, <1>8, <1>9, LenProperties
<1> DEFINE new == Append(ItemsAt(s, P), <<k, t.expiry[k]>>)
<1>11. /\ new \in Seq(Item) /\ Len(new) = p + 1
       /\ \A m \in 1 .. p : new[m] = ItemsAt(s, P)[m]
       /\ new[p + 1] = <<k, t.expiry[k]>>
  BY <1>1, <1>9, <1>10, AppendProperties
<1> HIDE DEF new
<1>12. \A m \in 1 .. p + 1 : Items(t)[m] = new[m]
  <2>1. \A m \in 1 .. p + 1 : m \in 1 .. p \/ m = p + 1
    OBVIOUS
  <2> QED
    BY <1>8, <1>11, <2>1
<1>13. Items(t) = new
  BY <1>9, <1>10, <1>11, <1>12, SeqEqual
<1> QED
  BY <1>13 DEF new

\* Where a stored key is; no other place has it.
LEMMA PlaceOf ==
    ASSUME NEW s, FiniteStore(s), NEW k \in Stored(s)
    PROVE  \E i \in DOMAIN Items(s) : /\ Items(s)[i] = <<k, s.expiry[k]>>
                                      /\ KeysIn(s, DOMAIN Items(s) \ {i}) = Stored(s) \ {k}
<1> DEFINE order == InOrder(Stored(s), s.older)
           n     == Cardinality(Stored(s))
<1>1. /\ n \in Nat
      /\ Enumerates(order, n, Stored(s), s.older)
      /\ Linear(s.older, Stored(s))
      /\ DOMAIN Items(s) = 1 .. n
      /\ \A i \in 1 .. n : Items(s)[i] = <<order[i], s.expiry[order[i]]>> /\ order[i] \in Stored(s)
  <2> HIDE DEF order, n
  <2>1. order = InOrder(Stored(s), s.older) /\ n = Cardinality(Stored(s))
    BY DEF order, n
  <2> QED
    BY <2>1, ItemsProperties
<1> HIDE DEF order, n
<1>2. \A i, j \in 1 .. n : i # j => order[i] # order[j]
  <2>1. \A i, j \in 1 .. n : i # j => i < j \/ j < i
    BY <1>1
  <2> QED
    BY <1>1, <2>1 DEF Enumerates, Linear
<1>3. PICK i \in 1 .. n : order[i] = k
  BY <1>1 DEF Enumerates
<1>4. \A x \in Stored(s) : \E j \in 1 .. n : order[j] = x
  BY <1>1 DEF Enumerates
<1>5. KeysIn(s, 1 .. n \ {i}) = Stored(s) \ {k}
  BY <1>1, <1>2, <1>3, <1>4 DEF KeysIn
<1> QED
  BY <1>1, <1>3, <1>5

\* A hit is a use of its key.
LEMMA HitRefines ==
    ASSUME IInv, IInv', NEW k, Live(store, k, now), store' = Read(store, k, now),
           used' = {k}, now' = now
    PROVE  Lru!Next
<1>1. FiniteStore(store) /\ FiniteStore(store')
  BY InvFiniteStore, InvFiniteStoreNext
<1>2. k \in Stored(store) /\ k \in Keys
  BY <1>1 DEF Live, FiniteStore, GoodStore, IsStore, Stored
<1>3. PICK i \in DOMAIN Items(store) :
              /\ Items(store)[i] = <<k, store.expiry[k]>>
              /\ KeysIn(store, DOMAIN Items(store) \ {i}) = Stored(store) \ {k}
  BY <1>1, <1>2, PlaceOf
<1>4. /\ Stored(store') = Stored(store) /\ store'.expiry = store.expiry
      /\ \A j, m \in Stored(store) \ {k} : <<j, m>> \in store.older => <<j, m>> \in store'.older
      /\ \A j \in Stored(store) \ {k} : <<j, k>> \in store'.older
  BY <1>1, HitExactly DEF FiniteStore
<1>5. Items(store') = Append(ItemsAt(store, DOMAIN Items(store) \ {i}), <<k, store'.expiry[k]>>)
  <2> DEFINE P    == DOMAIN Items(store) \ {i}
             part == Stored(store) \ {k}
  <2>1. P \in SUBSET (DOMAIN Items(store)) /\ part = KeysIn(store, P)
    BY <1>3
  <2>2. Stored(store') = part \cup {k} /\ Agree(store, store', part) /\ \A j \in part : <<j, k>> \in store'.older
    BY <1>2, <1>4 DEF Agree
  <2> HIDE DEF P, part
  <2>3. Items(store') = Append(ItemsAt(store, P), <<k, store'.expiry[k]>>)
    BY <1>1, <1>2, <2>1, <2>2, KeptAndAdded
  <2> QED
    BY <2>3 DEF P
<1>6. Items(store') = Append(Lru!At(DOMAIN Items(store) \ {i}), Items(store)[i])
  BY <1>3, <1>4, <1>5, AtIsItemsAt
<1>7. Lru!IsLive(Items(store)[i])
  BY <1>3 DEF Live, Lru!IsLive
<1>8. Lru!Use(i)
  BY <1>3, <1>6, <1>7 DEF Lru!Use
<1> QED
  BY <1>8 DEF Lru!Next

\* A miss forgets its key, if that is stored: the value has expired.
LEMMA MissRefines ==
    ASSUME IInv, IInv', NEW k, ~Live(store, k, now), store' = Read(store, k, now),
           used' = used, now' = now
    PROVE  Lru!Next \/ UNCHANGED Lru!vars
<1>1. FiniteStore(store) /\ FiniteStore(store')
  BY InvFiniteStore, InvFiniteStoreNext
<1>2. store' = Without(store, {k})
  BY DEF Read
<1>3. /\ Stored(store') = Stored(store) \ {k}
      /\ \A j \in Stored(store') : store'.expiry[j] = store.expiry[j]
      /\ \A j, m \in Stored(store') : <<j, m>> \in store.older <=> <<j, m>> \in store'.older
  BY <1>2, WithoutExactly
<1>4. Agree(store, store', Stored(store'))
  BY <1>3 DEF Agree
<1>5. CASE k \in Stored(store)
  <2>1. PICK i \in DOMAIN Items(store) :
                /\ Items(store)[i] = <<k, store.expiry[k]>>
                /\ KeysIn(store, DOMAIN Items(store) \ {i}) = Stored(store) \ {k}
    BY <1>1, <1>5, PlaceOf
  <2>2. Items(store') = ItemsAt(store, DOMAIN Items(store) \ {i})
    BY <1>1, <1>3, <1>4, <2>1, KeptOnly
  <2>3. Items(store') = Lru!At(DOMAIN Items(store) \ {i})
    BY <2>2, AtIsItemsAt
  <2>4. ~Lru!IsLive(Items(store)[i])
    BY <1>5, <2>1 DEF Live, Lru!IsLive
  <2>5. Lru!Forget(i)
    BY <2>3, <2>4 DEF Lru!Forget
  <2> QED
    BY <2>5 DEF Lru!Next
<1>6. CASE k \notin Stored(store)
  <2> DEFINE order == InOrder(Stored(store), store.older)
             n     == Cardinality(Stored(store))
  <2>1. /\ n \in Nat
        /\ Enumerates(order, n, Stored(store), store.older)
        /\ DOMAIN Items(store) = 1 .. n
        /\ \A i \in 1 .. n : Items(store)[i] = <<order[i], store.expiry[order[i]]>>
        /\ Items(store) \in Seq(Item) /\ Items(store') \in Seq(Item)
    <3> HIDE DEF order, n
    <3>1. order = InOrder(Stored(store), store.older) /\ n = Cardinality(Stored(store))
      BY DEF order, n
    <3> QED
      BY <1>1, <3>1, ItemsProperties
  <2>2. Stored(store') = Stored(store)
    BY <1>3, <1>6
  <2> HIDE DEF order, n
  <2>3. Enumerates(order, n, Stored(store'), store'.older)
    BY <1>3, <2>1, <2>2 DEF Enumerates
  <2>4. DOMAIN Items(store') = 1 .. n /\ \A i \in 1 .. n : Items(store')[i] = <<order[i], store'.expiry[order[i]]>>
    <3>1. Pairs(Items(store'), order, n, store')
      BY <1>1, <2>1, <2>3, ItemsUnique
    <3> QED
      BY <3>1 DEF Pairs
  <2>5. ASSUME NEW i \in 1 .. n PROVE Items(store')[i] = Items(store)[i]
    <3>1. order[i] \in Stored(store')
      BY <2>3 DEF Enumerates
    <3>2. store'.expiry[order[i]] = store.expiry[order[i]]
      BY <1>3, <3>1
    <3> QED
      BY <2>1, <2>4, <3>2
  <2>6. Len(Items(store')) = n /\ Len(Items(store)) = n
    BY <2>1, <2>4, LenProperties
  <2>7. Items(store') = Items(store)
    BY <2>1, <2>5, <2>6, SeqEqual
  <2> QED
    BY <2>7 DEF Lru!vars
<1> QED
  BY <1>5, <1>6

\* The live keys of s other than k, and those of them that stay when k is written.
OthersThan(s, k) == {j \in Stored(s) : j # k /\ j \notin ExpiredKeys(s, now)}

Staying(s, k) == IF Cardinality(OthersThan(s, k)) = Cap
                 THEN {j \in OthersThan(s, k) : \E i \in OthersThan(s, k) : <<i, j>> \in s.older}
                 ELSE OthersThan(s, k)

\* What a write keeps is what a put keeps.
LEMMA PutRefines ==
    ASSUME IInv, IInv', NEW k \in Keys, NEW ttl \in TTLs, used' = {k}, now' = now,
           Stored(store') = Staying(store, k) \cup {k},
           store'.expiry[k] = ExpiryOf(ttl, now),
           Agree(store, store', Staying(store, k)),
           \A j \in Staying(store, k) : <<j, k>> \in store'.older
    PROVE  Lru!Next
<1> DEFINE others == OthersThan(store, k)
           rest   == Staying(store, k)
<1>0. /\ others = {j \in Stored(store) : j # k /\ j \notin ExpiredKeys(store, now)}
      /\ rest = IF Cardinality(others) = Cap
                THEN {j \in others : \E i \in others : <<i, j>> \in store.older}
                ELSE others
  BY DEF OthersThan, Staying
<1> DEFINE order == InOrder(Stored(store), store.older)
           n     == Cardinality(Stored(store))
<1>1. FiniteStore(store) /\ FiniteStore(store')
  BY InvFiniteStore, InvFiniteStoreNext
<1>2. /\ n \in Nat
      /\ Enumerates(order, n, Stored(store), store.older)
      /\ Linear(store.older, Stored(store))
      /\ DOMAIN Items(store) = 1 .. n
      /\ \A i \in 1 .. n : /\ Items(store)[i] = <<order[i], store.expiry[order[i]]>>
                           /\ order[i] \in Stored(store)
  <2> HIDE DEF order, n
  <2>1. order = InOrder(Stored(store), store.older) /\ n = Cardinality(Stored(store))
    BY DEF order, n
  <2> QED
    BY <1>1, <2>1, ItemsProperties
<1> HIDE DEF order, n, others, rest
<1>3. /\ \A x \in Stored(store) : \E i \in 1 .. n : order[i] = x
      /\ \A i, j \in 1 .. n : i < j <=> <<order[i], order[j]>> \in store.older
      /\ \A i, j \in 1 .. n : order[i] = order[j] => i = j
  <2>1. \A i, j \in 1 .. n : i < j \/ j < i \/ i = j
    BY <1>2
  <2>2. \A i, j \in 1 .. n : i < j => <<order[i], order[j]>> \in store.older
    BY <1>2 DEF Enumerates
  <2>3. \A i, j \in 1 .. n : i < j => order[i] # order[j] /\ <<order[j], order[i]>> \notin store.older
    BY <1>2, <2>2 DEF Linear
  <2>4. \A i, j \in 1 .. n : <<order[i], order[j]>> \in store.older => i < j
    BY <1>2, <2>1, <2>3 DEF Linear
  <2>5. \A i, j \in 1 .. n : order[i] = order[j] => i = j
    BY <2>1, <2>3
  <2>6. \A x \in Stored(store) : \E i \in 1 .. n : order[i] = x
    BY <1>2 DEF Enumerates
  <2> QED
    BY <2>2, <2>4, <2>5, <2>6
<1> DEFINE Others == {i \in DOMAIN Items(store) : Items(store)[i][1] # k /\ Lru!IsLive(Items(store)[i])}
           Room   == IF Lru!Cardinality(Others) = Cap THEN {i \in Others : \E j \in Others : j < i}
                     ELSE Others
<1>4. Others = {i \in 1 .. n : order[i] \in others}
  <2>1. ASSUME NEW i \in 1 .. n
        PROVE  /\ Items(store)[i][1] = order[i]
               /\ Lru!IsLive(Items(store)[i]) <=> order[i] \notin ExpiredKeys(store, now)
    <3>1. store.expiry[order[i]] \in Int \cup {NoExpiry} /\ now \in Int
      BY <1>1, <1>2, MaxTimeAssumption DEF FiniteStore, GoodStore, IsStore, Stored, IInv, BranchTypeOK
    <3> QED
      BY <1>2, <3>1 DEF Lru!IsLive, ExpiredKeys
  <2> QED
    BY <1>0, <1>2, <2>1
<1> HIDE DEF Others
<1>5. Cardinality(Others) = Cardinality(others)
  <2> DEFINE f == [i \in Others |-> order[i]]
  <2>1. f \in Bijection(Others, others)
    <3>1. \A x \in others : \E i \in Others : order[i] = x
      BY <1>0, <1>3, <1>4
    <3> QED
      BY <1>0, <1>3, <1>4, <3>1 DEF Bijection, Injection, IsInjective, Surjection
  <2> HIDE DEF f
  <2>2. IsFiniteSet(Others)
    <3>1. IsFiniteSet(1 .. n)
      BY <1>2, FS_Interval
    <3> QED
      BY <1>4, <3>1, FS_Subset
  <2> QED
    BY <2>1, <2>2, FS_Bijection DEF ExistsBijection
<1>6. Lru!Cardinality(Others) = Cardinality(others)
  BY <1>5, AtIsItemsAt
<1>7. KeysIn(store, Room) = rest /\ Room \in SUBSET (DOMAIN Items(store))
  <2>1. Room \in SUBSET Others /\ Others \in SUBSET (1 .. n)
    BY <1>4
  <2>2. Room = {i \in 1 .. n : order[i] \in rest}
    <3>1. CASE Cardinality(others) = Cap
      <4>1. Room = {i \in Others : \E j \in Others : j < i}
        BY <1>6, <3>1
      <4>2. rest = {j \in others : \E i \in others : <<i, j>> \in store.older}
        BY <1>0, <3>1
      <4>3. ASSUME NEW i \in Others
            PROVE  (\E j \in Others : j < i) <=> \E x \in others : <<x, order[i]>> \in store.older
        <5>1. ASSUME NEW j \in Others, j < i PROVE \E x \in others : <<x, order[i]>> \in store.older
          BY <1>3, <1>4, <5>1
        <5>2. ASSUME NEW x \in others, <<x, order[i]>> \in store.older PROVE \E j \in Others : j < i
          <6>1. PICK j \in 1 .. n : order[j] = x
            BY <1>0, <1>3
          <6> QED
            BY <1>3, <1>4, <5>2, <6>1
        <5> QED
          BY <5>1, <5>2
      <4>4. rest \subseteq others
        BY <4>2
      <4>5. ASSUME NEW i \in 1 .. n PROVE i \in Room <=> order[i] \in rest
        BY <1>4, <4>1, <4>2, <4>3
      <4> QED
        BY <2>1, <4>5
    <3>2. CASE Cardinality(others) # Cap
      BY <1>0, <1>4, <1>6, <3>2
    <3> QED
      BY <3>1, <3>2
  <2>3. rest \subseteq Stored(store)
    BY <1>0
  <2>4. KeysIn(store, Room) = {order[i] : i \in Room}
    BY <1>2, <2>1 DEF KeysIn
  <2> HIDE DEF Room
  <2>5. {order[i] : i \in Room} = rest
    <3>1. \A i \in Room : order[i] \in rest
      BY <2>2
    <3>2. ASSUME NEW x \in rest PROVE \E i \in Room : x = order[i]
      <4>1. PICK i \in 1 .. n : order[i] = x
        BY <1>3, <2>3
      <4>2. i \in Room
        BY <2>2, <4>1
      <4> QED
        BY <4>1, <4>2
    <3> QED
      BY <3>1, <3>2
  <2> QED
    BY <1>2, <2>2, <2>4, <2>5
<1>8. Items(store') = Append(ItemsAt(store, Room), <<k, store'.expiry[k]>>)
  <2> HIDE DEF Room
  <2>1. rest = KeysIn(store, Room) /\ Room \in SUBSET (DOMAIN Items(store))
    BY <1>7
  <2> QED
    BY <1>1, <2>1, KeptAndAdded DEF rest
<1>9. store'.expiry[k] = Lru!Expires(ttl)
  <2>1. ttl \in Int \cup {NoExpiry}
    BY TTLAssumption
  <2> QED
    BY <2>1 DEF ExpiryOf, Lru!Expires
<1>10. Items(store') = Append(Lru!At(Room), <<k, Lru!Expires(ttl)>>)
  BY <1>8, <1>9, AtIsItemsAt
<1>11. Lru!Put(k, ttl)
  BY <1>10 DEF Lru!Put, Others, Room
<1> QED
  BY <1>11 DEF Lru!Next

\* Every step of the branch is a step of its storage, or one it does not see.
LEMMA StorageStep ==
    ASSUME IInv, IInv', [Next]_vars
    PROVE  [Lru!Next]_(Lru!vars)
<1>1. \A k : k \in Stored(store) => k \in Keys
  BY InvFiniteStore DEF FiniteStore, GoodStore, IsStore, Stored
<1>2. ASSUME NEW k \in Keys, NEW ttl \in TTLs, NEW s, NEW pinned,
             s = store \/ (s = Read(store, k, now) /\ ~Live(store, k, now)),
             pinned \cap Stored(s) \subseteq {k},
             store' \in Written(s, k, ttl, now, pinned, Cap), used' = {k}, now' = now
      PROVE  Lru!Next
  <2>1. FiniteStore(store) /\ CapRespected
    BY InvFiniteStore DEF IInv, StoreInv
  <2>2. /\ Stored(store) \ {k} \subseteq Stored(s) /\ Stored(s) \subseteq Stored(store)
        /\ \A j \in Stored(s) : s.expiry[j] = store.expiry[j]
        /\ \A i, j \in Stored(s) : <<i, j>> \in store.older <=> <<i, j>> \in s.older
        /\ GoodStore(s, Keys)
    <3>1. CASE s = Read(store, k, now) /\ ~Live(store, k, now)
      BY <2>1, <3>1, WithoutExactly, WithoutProperties DEF Read, FiniteStore
    <3>2. CASE s = store
      BY <2>1, <3>2 DEF FiniteStore
    <3> QED
      BY <1>2, <3>1, <3>2
  <2>3. IsFiniteSet(Stored(s)) /\ Cardinality(Stored(s)) <= Cap
    <3>1. /\ IsFiniteSet(Stored(s)) /\ Cardinality(Stored(s)) <= Cardinality(Stored(store))
      BY <2>1, <2>2, FS_Subset DEF FiniteStore
    <3>2. /\ Cardinality(Stored(s)) \in Nat /\ Cardinality(Stored(store)) \in Nat
          /\ Cardinality(Stored(store)) <= Cap
      BY <2>1, <3>1, FS_CardinalityType DEF FiniteStore, CapRespected
    <3> QED
      BY <3>1, <3>2, CapAssumption
  <2>4. ttl \in Int \cup {NoExpiry} /\ now \in Int
    BY TTLAssumption, MaxTimeAssumption DEF IInv, BranchTypeOK
  <2>5. LET rest == Staying(s, k)
        IN /\ Stored(store') = rest \cup {k}
           /\ store'.expiry[k] = ExpiryOf(ttl, now)
           /\ \A j \in rest : store'.expiry[j] = s.expiry[j]
           /\ \A i, j \in rest : <<i, j>> \in s.older => <<i, j>> \in store'.older
           /\ \A j \in rest : <<j, k>> \in store'.older
    BY <1>2, <2>2, <2>3, <2>4, CapAssumption, WrittenExactly DEF Staying, OthersThan
  <2>6. OthersThan(s, k) = OthersThan(store, k) /\ OthersThan(s, k) \subseteq Stored(s)
    BY <2>2 DEF ExpiredKeys, OthersThan
  <2>7. Staying(s, k) = Staying(store, k) /\ Staying(s, k) \subseteq Stored(s)
    BY <2>2, <2>6 DEF Staying
  <2>8. Agree(store, store', Staying(store, k))
    BY <2>2, <2>5, <2>7 DEF Agree
  <2> QED
    BY <1>2, <2>5, <2>7, <2>8, PutRefines

<1>3. ASSUME NEW c \in Callers, Calls(c) PROVE [Lru!Next]_(Lru!vars)
  <2>1. PICK k \in Keys : \/ CallHit(c, k)
                          \/ \E ttl \in TTLs : \/ CallSync(c, k, ttl)
                                               \/ \E l \in Locks : \/ CallComputes(c, k, ttl, l)
                                                                   \/ CallWaits(c, k, ttl, l)
    BY <1>3 DEF Calls
  <2>2. CASE CallHit(c, k)
    BY <2>2, HitRefines DEF CallHit
  <2>3. ASSUME NEW ttl \in TTLs, CallSync(c, k, ttl) PROVE [Lru!Next]_(Lru!vars)
    <3> DEFINE missed == Read(store, k, now)
    <3>1. ~Live(store, k, now) /\ now' = now
      BY <2>3 DEF CallSync
    <3>2. CASE store' = missed /\ UNCHANGED used
      BY <3>1, <3>2, MissRefines
    <3>3. CASE store' \in Written(missed, k, ttl, now, DOMAIN key_locks \cup {k}, Cap) /\ used' = {k}
      <4>1. Stored(missed) \subseteq Stored(store)
        BY InvFiniteStore, ReadProperties DEF FiniteStore
      <4>2. (DOMAIN key_locks \cup {k}) \cap Stored(missed) \subseteq {k}
        BY <4>1 DEF IInv, StoreInv, LockedKeysHaveNoValue
      <4> QED
        BY <1>2, <3>1, <3>3, <4>2
    <3> QED
      BY <2>3, <3>2, <3>3 DEF CallSync
  <2>4. ASSUME NEW ttl \in TTLs, NEW l \in Locks, CallComputes(c, k, ttl, l) \/ CallWaits(c, k, ttl, l)
        PROVE  [Lru!Next]_(Lru!vars)
    <3>1. /\ ~Live(store, k, now) /\ store' = Read(store, k, now)
          /\ used' = used /\ now' = now
      BY <2>4 DEF CallComputes, CallWaits
    <3> QED
      BY <3>1, MissRefines
  <2> QED
    BY <2>1, <2>2, <2>3, <2>4
<1>4. ASSUME NEW c \in Callers, Resumes(c) PROVE [Lru!Next]_(Lru!vars)
  <2>1. CASE ResumeHit(c)
    BY <2>1, HitRefines DEF ResumeHit
  <2>2. CASE ResumeComputes(c)
    BY <2>2, MissRefines DEF ResumeComputes
  <2> QED
    BY <1>4, <2>1, <2>2 DEF Resumes
<1>5. ASSUME NEW c \in Callers, Finish(c) PROVE [Lru!Next]_(Lru!vars)
  <2>1. /\ Computing(c)
        /\ store' \in Written(store, call[c].key, call[c].ttl, now, DOMAIN key_locks, Cap)
        /\ used' = {call[c].key} /\ now' = now
    BY <1>5 DEF Finish
  <2>2. call[c].key \in Keys /\ call[c].ttl \in TTLs
    BY <2>1, SuspendedFields DEF IInv
  <2>3. DOMAIN key_locks \cap Stored(store) \subseteq {call[c].key}
    BY DEF IInv, StoreInv, LockedKeysHaveNoValue
  <2> QED
    BY <1>2, <2>1, <2>2, <2>3
<1>6. ASSUME NEW c \in Callers, Abort(c) \/ Cancels(c) PROVE [Lru!Next]_(Lru!vars)
  <2>1. UNCHANGED <<store, used, now>>
    BY <1>6 DEF Abort, Cancels, RequestCancel, DeliverCancel
  <2> QED
    BY <2>1 DEF Lru!vars
<1>7. CASE Tick
  <2>1. now' = now + 1 /\ UNCHANGED <<store, used>>
    BY <1>7 DEF Tick
  <2>2. Lru!Tick
    BY <2>1 DEF Lru!Tick
  <2> QED
    BY <2>2 DEF Lru!Next
<1>8. CASE UNCHANGED vars
  <2>1. UNCHANGED <<store, used, now>>
    BY <1>8 DEF vars
  <2> QED
    BY <2>1 DEF Lru!vars
<1> QED
  BY <1>3, <1>4, <1>5, <1>6, <1>7, <1>8 DEF Next

\* An empty store has no items.
LEMMA StorageInit == Init => Lru!Init
<1> SUFFICES ASSUME Init PROVE Lru!Init
  OBVIOUS
<1>1. Cardinality(Stored(store)) = 0
  <2>1. Stored(store) = {}
    BY DEF Init, EmptyStore, Stored
  <2> QED
    BY <2>1, FS_EmptySet
<1>2. Items(store) = << >>
  BY <1>1 DEF Items
<1> QED
  BY <1>2 DEF Init, Lru!Init

\* The store of a branch is a bounded map in recency order with expiry, for any number of
\* callers and keys, any cap and clock: what locks, waiters, failures and cancellations do
\* to it is a use, a put, the removal of an expired entry, or nothing.
THEOREM StorageRefines == Spec => StorageIsLru
<1>1. Init => Lru!Init
  BY StorageInit
<1>2. IInv /\ IInv' /\ [Next]_vars => [Lru!Next]_(Lru!vars)
  BY StorageStep
<1> QED
  BY <1>1, <1>2, Invariance, PTL DEF Spec, StorageIsLru, Lru!Spec

===============================================================================
