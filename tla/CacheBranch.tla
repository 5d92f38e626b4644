------------------------------ MODULE CacheBranch ------------------------------
(***************************************************************************)
(* The `cache` extension (extensions/cache.py): one branch of a wrapped    *)
(* tool, called by concurrent tasks of one event loop.  A call reads the   *)
(* store; on a miss it takes the lock of its key, re-reads, runs the tool, *)
(* writes, and drops the key's lock from the registry on every way out.    *)
(*                                                                         *)
(* The loop switches tasks only where a coroutine suspends: in acquire()   *)
(* of a busy lock and in the wrapped tool.  Every action below is the code *)
(* from one such point to the next.                                        *)
(***************************************************************************)
EXTENDS CacheStore, AsyncioLock

CONSTANTS
    Callers,    \* tasks that call the branch, one call at a time each
    Keys,       \* values of compute_key
    Locks,      \* identities of the asyncio.Lock objects (reused once garbage)
    Cap,        \* max_entries of the store
    TTLs,       \* values of the reserved `exp` argument, NoExpiry for None
    MaxTime,    \* bound on the clock
    Coroutines, \* the wrapped tool may be a coroutine function (TRUE) or a plain one
    MayFail,    \* the wrapped tool may raise
    MayCancel   \* the task of a call may be cancelled

ASSUME CapAssumption == Cap \in Nat \ {0}       \* CacheStore.__init__ refuses the rest
ASSUME TTLAssumption == TTLs \subseteq Int \cup {NoExpiry}
ASSUME MaxTimeAssumption == MaxTime \in Nat
ASSUME SwitchAssumption == Coroutines \subseteq BOOLEAN /\ {MayFail, MayCancel} \subseteq BOOLEAN

VARIABLES
    coroutine,  \* inspect.iscoroutinefunction(func): fixed for the branch
    store,      \* store._values
    key_locks,  \* store._key_locks: the registry, from keys to locks
    locks,      \* every lock object
    call,       \* what each caller is suspended in
    cancelling, \* waiters whose cancellation was requested and not yet delivered
    now,        \* time.monotonic()
    used,       \* history: the key whose value a call last read or wrote, if any
    answered,   \* history: waiters during whose wait a run of their key succeeded
    lost        \* history: keys whose callers were left without a value

vars == <<coroutine, store, key_locks, locks, call, cancelling, now, used, answered, lost>>

Idle == [at |-> "idle"]

\* "waiting" in acquire(), or "computing": in the wrapped tool, holding lock.
Suspended == [at : {"waiting", "computing"}, key : Keys, ttl : TTLs, lock : Locks]

Waiting(c)   == call[c].at = "waiting"
Computing(c) == call[c].at = "computing"

WaitsAt(c, i) == /\ Waiting(c)
                 /\ WaiterAt(locks[call[c].lock], i)
                 /\ locks[call[c].lock].waiters[i].task = c

WaitersFor(k) == {c \in Callers : Waiting(c) /\ call[c].key = k}

\* A lock object nobody refers to: the one asyncio.Lock() may return.
Unreferenced(l) == /\ \A k \in DOMAIN key_locks : key_locks[k] # l
                   /\ \A c \in Callers : call[c] # Idle => call[c].lock # l

\* key_lock(): the registered lock, or a new one, whose state is LockFor.
IsNewLock(k, l) == Unreferenced(l)

IsKeyLock(k, l) == IF k \in DOMAIN key_locks THEN l = key_locks[k] ELSE Unreferenced(l)

LockFor(k, l) == IF k \in DOMAIN key_locks THEN locks[l] ELSE FreshLock

Register(k, l) == [j \in DOMAIN key_locks \cup {k} |-> IF j = k THEN l ELSE key_locks[j]]

KeepLock(k) == key_locks

DropLockIfUncontended(k) ==
    IF WaitersFor(k) = {} THEN Restrict(key_locks, DOMAIN key_locks \ {k}) ELSE key_locks

DropLock(k) == Restrict(key_locks, DOMAIN key_locks \ {k})

--------------------------------------------------------------------------------

Init == /\ coroutine \in Coroutines
        /\ store = EmptyStore
        /\ key_locks = << >>
        /\ locks = [l \in Locks |-> FreshLock]
        /\ call = [c \in Callers |-> Idle]
        /\ cancelling = {}
        /\ now = 0
        /\ used = {}
        /\ answered = {}
        /\ lost = {}

\* The fast path: the value is read without the lock.
CallHit(c, k) ==
    /\ call[c] = Idle
    /\ Live(store, k, now)
    /\ store' = Read(store, k, now)
    /\ used' = {k}
    /\ UNCHANGED <<key_locks, locks, call, cancelling, now, answered>>

\* A miss whose lock is free: acquire() returns at once, the second read
\* misses again, and the tool starts.
CallComputes(c, k, ttl, l) ==
    /\ coroutine
    /\ call[c] = Idle
    /\ ~Live(store, k, now)
    /\ IsKeyLock(k, l)
    /\ CanTake(LockFor(k, l))
    /\ store' = Read(store, k, now)
    /\ key_locks' = Register(k, l)
    /\ locks' = [locks EXCEPT ![l] = Take(LockFor(k, l))]
    /\ call' = [call EXCEPT ![c] = [at |-> "computing", key |-> k, ttl |-> ttl, lock |-> l]]
    /\ UNCHANGED <<cancelling, now, used, answered>>

\* The same around a plain function: it runs, or raises, without a
\* suspension, and the lock is taken, released and dropped on the way.
CallSync(c, k, ttl) ==
    /\ ~coroutine
    /\ call[c] = Idle
    /\ ~Live(store, k, now)
    /\ LET missed == Read(store, k, now)
       IN \/ store' \in Written(missed, k, ttl, now, DOMAIN key_locks \cup {k}, Cap) /\ used' = {k}
          \/ MayFail /\ store' = missed /\ UNCHANGED used
    /\ key_locks' = DropLock(k)
    /\ UNCHANGED <<locks, call, cancelling, now, answered>>

\* A miss while another caller has the lock of the key.
CallWaits(c, k, ttl, l) ==
    /\ call[c] = Idle
    /\ ~Live(store, k, now)
    /\ IsKeyLock(k, l)
    /\ ~CanTake(LockFor(k, l))
    /\ store' = Read(store, k, now)
    /\ key_locks' = Register(k, l)
    /\ locks' = [locks EXCEPT ![l] = Enqueue(LockFor(k, l), c)]
    /\ call' = [call EXCEPT ![c] = [at |-> "waiting", key |-> k, ttl |-> ttl, lock |-> l]]
    /\ UNCHANGED <<cancelling, now, used, answered>>

\* Leaving the `try`: the finally clause drops the lock registered for the
\* key, whichever lock that is by now.
Leave(c) == /\ key_locks' = DropLock(call[c].key)
            /\ call' = [call EXCEPT ![c] = Idle]
            /\ cancelling' = cancelling \ {c}

\* The wake-up of a waiter reaches it before a cancellation does.
IsWoken(c, i) == /\ WaitsAt(c, i)
                 /\ locks[call[c].lock].waiters[i].fut = "woken"
                 /\ c \notin cancelling

\* It owns the lock and finds the value written.
ResumeHit(c) ==
    /\ \E i \in 1 .. Len(locks[call[c].lock].waiters) :
          /\ IsWoken(c, i)
          /\ locks' = [locks EXCEPT ![call[c].lock] = Release(ResumeWaiter(@, i))]
    /\ Live(store, call[c].key, now)
    /\ store' = Read(store, call[c].key, now)
    /\ used' = {call[c].key}
    /\ Leave(c)
    /\ answered' = answered \ {c}
    /\ UNCHANGED now

\* It owns the lock and runs the tool without looking.
ResumeUnread(c) ==
    /\ \E i \in 1 .. Len(locks[call[c].lock].waiters) :
          /\ IsWoken(c, i)
          /\ locks' = [locks EXCEPT ![call[c].lock] = ResumeWaiter(@, i)]
    /\ call' = [call EXCEPT ![c].at = "computing"]
    /\ UNCHANGED <<store, key_locks, cancelling, now, used, answered>>

\* It owns the lock and finds no value: it runs the tool itself.
ResumeComputes(c) ==
    /\ \E i \in 1 .. Len(locks[call[c].lock].waiters) :
          /\ IsWoken(c, i)
          /\ locks' = [locks EXCEPT ![call[c].lock] = ResumeWaiter(@, i)]
    /\ ~Live(store, call[c].key, now)
    /\ store' = Read(store, call[c].key, now)
    /\ call' = [call EXCEPT ![c].at = "computing"]
    /\ UNCHANGED <<key_locks, cancelling, now, used, answered>>

\* The tool returns: write, release, drop.
Finish(c) ==
    /\ Computing(c)
    /\ store' \in Written(store, call[c].key, call[c].ttl, now, DOMAIN key_locks, Cap)
    /\ used' = {call[c].key}
    /\ locks' = [locks EXCEPT ![call[c].lock] = Release(@)]
    /\ Leave(c)
    /\ answered' = (answered \cup WaitersFor(call[c].key)) \ {c}
    /\ UNCHANGED now

\* The tool raises, or the call is cancelled inside it: nothing is written.
Abort(c) ==
    /\ MayFail \/ MayCancel
    /\ Computing(c)
    /\ locks' = [locks EXCEPT ![call[c].lock] = Release(@)]
    /\ Leave(c)
    /\ answered' = answered \ {c}
    /\ UNCHANGED <<store, now, used>>

\* task.cancel() on a waiter, whether or not it has been woken already.
RequestCancel(c) ==
    /\ MayCancel
    /\ c \notin cancelling
    /\ \E i \in 1 .. Len(locks[call[c].lock].waiters) :
          /\ WaitsAt(c, i)
          /\ locks' = [locks EXCEPT ![call[c].lock] = CancelWaiter(@, i)]
    /\ cancelling' = cancelling \cup {c}
    /\ UNCHANGED <<store, key_locks, call, now, used, answered>>

\* CancelledError is raised in acquire(), and leaves through the finally.
DeliverCancel(c) ==
    /\ c \in cancelling
    /\ \E i \in 1 .. Len(locks[call[c].lock].waiters) :
          /\ WaitsAt(c, i)
          /\ locks' = [locks EXCEPT ![call[c].lock] = AbandonWaiter(@, i)]
    /\ Leave(c)
    /\ answered' = answered \ {c}
    /\ UNCHANGED <<store, now, used>>

Tick == /\ now < MaxTime
        /\ now' = now + 1
        /\ UNCHANGED <<store, key_locks, locks, call, cancelling, used, answered>>

Calls(c) == \E k \in Keys : \/ CallHit(c, k)
                            \/ \E ttl \in TTLs : \/ CallSync(c, k, ttl)
                                                 \/ \E l \in Locks : \/ CallComputes(c, k, ttl, l)
                                                                     \/ CallWaits(c, k, ttl, l)

Resumes(c) == Waiting(c) /\ (ResumeHit(c) \/ ResumeComputes(c))

Cancels(c) == Waiting(c) /\ (RequestCancel(c) \/ DeliverCancel(c))

\* A key is lost to the callers suspended on it when its value expires or is
\* evicted, or when a call of it leaves without there being one.
Recorded ==
    /\ UNCHANGED coroutine
    /\ lost' = {k \in Keys :
                  /\ \E c \in Callers : call'[c] # Idle /\ call'[c].key = k
                  /\ \/ k \in lost
                     \/ /\ ~Live(store', k, now')
                        /\ \/ Live(store, k, now)
                           \/ \E c \in Callers : /\ call[c] # Idle /\ call[c].key = k
                                                /\ call'[c] = Idle}

Next == /\ \/ \E c \in Callers : Calls(c) \/ Resumes(c) \/ Finish(c) \/ Abort(c) \/ Cancels(c)
           \/ Tick
        /\ Recorded

Spec == Init /\ [][Next]_vars

\* The loop runs every task that is ready, and the wrapped tool returns or
\* raises in the end.  Nothing else is assumed: callers need not call.
Fairness == \A c \in Callers : /\ WF_vars(Resumes(c) /\ Recorded)
                               /\ WF_vars(Waiting(c) /\ DeliverCancel(c) /\ Recorded)
                               /\ WF_vars((Finish(c) \/ Abort(c)) /\ Recorded)

FairSpec == Spec /\ Fairness

--------------------------------------------------------------------------------
(* Properties.                                                                  *)

BranchTypeOK ==
    /\ IsStore(store, Keys) /\ WellOrdered(store)
    /\ DOMAIN key_locks \subseteq Keys /\ Range(key_locks) \subseteq Locks
    /\ locks \in [Locks -> LockType(Callers)]
    /\ call \in [Callers -> Suspended \cup {Idle}]
    /\ cancelling \subseteq Callers
    /\ now \in 0 .. MaxTime
    /\ answered \subseteq Callers

\* Types, and the dictionary order of the store is a strict linear order.
TypeOK == BranchTypeOK /\ coroutine \in Coroutines /\ used \cup lost \subseteq Keys

\* Through failures and cancellations, a lock object is locked exactly while one
\* caller runs the tool under it, and never while two do.
LockMatchesHolder ==
    \A l \in Locks :
        LET holders == {c \in Callers : Computing(c) /\ call[c].lock = l}
        IN /\ locks[l].locked <=> holders # {}
           /\ \A c, d \in holders : c = d

\* A lock that is free never has a queue whose head sleeps on: releasing and
\* cancelling, in any order, always pass the wake-up on.
NoLostWakeup ==
    \A l \in Locks :
        ~locks[l].locked /\ locks[l].waiters # << >> => locks[l].waiters[1].fut # "pending"

\* A registered lock is held by a running call of its key.  The registry is empty
\* when no tool runs, and a caller that finds a registered lock always has to wait.
RegisteredLockIsHeld ==
    \A k \in DOMAIN key_locks :
        \E c \in Callers : Computing(c) /\ call[c].key = k /\ call[c].lock = key_locks[k]

\* No key is stored and registered at once: the lock of a stored key is gone, also
\* when the key was computed under several locks (cache_store.py:48-49, "a key's
\* lock is dropped once its value is cached").
LockedKeysHaveNoValue == Stored(store) \cap DOMAIN key_locks = {}

\* The store never exceeds max_entries.  The exemption of locked keys from eviction
\* never takes effect in a branch, because a locked key has nothing to evict.
CapRespected == Cardinality(Stored(store)) <= Cap

\* Concurrent calls for one key run the tool once (cache.py:5, "Concurrent identical
\* calls single-flight on a per-key lock").
SingleFlight ==
    \A c, d \in Callers : Computing(c) /\ Computing(d) /\ call[c].key = call[d].key => c = d

\* They do, unless the key was lost while callers were suspended on it: a failed or a
\* cancelled call, an eviction or an expiry, is the only way to two runs at once.
SingleFlightUnlessLost ==
    \A c, d \in Callers :
        Computing(c) /\ Computing(d) /\ call[c].key = call[d].key => c = d \/ call[c].key \in lost

\* A call that was waiting when a run of its key succeeded does not run the tool
\* itself (cache.py:34-35, "concurrent callers for the same key wait on the lock,
\* then read the written value instead of re-executing").
NoReexecution == \A c \in Callers : Computing(c) => c \notin answered

\* It runs the tool itself only when the value it waited for is gone again.
NoReexecutionUnlessLost == \A c \in Callers : Computing(c) /\ c \in answered => call[c].key \in lost

\* A call that waits for a lock is answered, fails or is cancelled: it does not wait
\* forever, whatever the other callers of its key do.
EveryWaitEnds == \A c \in Callers : Waiting(c) ~> ~Waiting(c)

\* The storage of a branch is a bounded LRU map with expiry: locks, waiters and faults
\* have no influence on what it keeps, and every call that is answered makes its key the
\* last to go.
Items(s) == LET order == InOrder(Stored(s), s.older)
            IN [i \in 1 .. Cardinality(Stored(s)) |-> <<order[i], s.expiry[order[i]]>>]

Lru == INSTANCE LruCache WITH items <- Items(store)

StorageIsLru == Lru!Spec
================================================================================
