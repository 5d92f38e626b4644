------------------------- MODULE PooledRequest_proofs --------------------------
(***************************************************************************)
(* The request tool for any tasks, session keys, hosts and identities of   *)
(* registry entries, with failures and cancellations: the refcounts are    *)
(* exact, a session serves one request at a time, and each request leaves  *)
(* with its own pins.                                                      *)
(***************************************************************************)
EXTENDS PooledRequest, AsyncioLock_proofs, FiniteSetTheorems

--------------------------------------------------------------------------------
(* The inductive invariant.                                                     *)

Types ==
    /\ guard_on \in Guards /\ guard_on \in BOOLEAN
    /\ sessions \in [Keys -> Session]
    /\ registry \in [DOMAIN registry -> Entries] /\ DOMAIN registry \subseteq Keys
    /\ entries \in [Entries -> [lock : LockType(Tasks), refs : Nat]]
    /\ task \in [Tasks -> Active \cup {Idle}]
    /\ cancelling \subseteq Tasks

Locks == \A e \in Entries : Sound(entries[e].lock)

\* The tasks that refer to an entry, when tasks is what each is suspended in.
Refs(tasks, e) == {t \in Tasks : tasks[t].at # "idle" /\ tasks[t].entry = e}

\* Refcounts are exact, and no entry serves two keys.
Counted ==
    /\ \A e \in Entries : IsFiniteSet(Refs(task, e))
    /\ \A k \in DOMAIN registry : /\ entries[registry[k]].refs = Cardinality(Refs(task, registry[k]))
                                  /\ Refs(task, registry[k]) # {}
    /\ \A j, k \in DOMAIN registry : registry[j] = registry[k] => j = k

Performs(r) == r.at \in {"sending", "requested", "reading", "closing"}

\* An entry is found under its task's key, from the moment the guard is entered.
Placed(r, guarded, reg) ==
    /\ r.at = "preparing" \/ ~guarded \/ r.key = NoKey => r.entry = NoEntry
    /\ r.at = "waiting" => r.entry # NoEntry
    /\ Performs(r) /\ guarded /\ r.key # NoKey => r.entry # NoEntry
    /\ r.entry # NoEntry => r.key \in DOMAIN reg /\ reg[r.key] = r.entry

\* Its holder has locked it.
Holding(r, ents) == Performs(r) /\ r.entry # NoEntry => ents[r.entry].lock.locked

\* The pins stay those of the request from setting them to curl's reading them.
Pinned(r, guarded, sess) ==
    guarded => /\ r.at = "sending" /\ r.key # NoKey => sess[r.key].pins = r.host
               /\ r.at \in {"requested", "reading", "closing"} => r.sent.pins = r.host

Requests == \A t \in Tasks : task[t] # Idle => /\ Placed(task[t], guard_on, registry)
                                               /\ Holding(task[t], entries)
                                               /\ Pinned(task[t], guard_on, sessions)

OneHolder == \A t, u \in Tasks : /\ Performs(task[t]) /\ Performs(task[u])
                                 /\ task[t].entry = task[u].entry /\ task[t].entry # NoEntry
                                 => t = u

PInv == Types /\ Locks /\ Counted /\ Requests /\ OneHolder

--------------------------------------------------------------------------------
(* Lemmas.                                                                      *)

\* An idle task is no request.
LEMMA TaskRecords ==
    /\ Idle.at = "idle" /\ Idle \notin Active
    /\ \A r \in Active : /\ r.at \in Phases /\ r.at # "idle" /\ r # Idle
                         /\ r.key \in Keys \cup {NoKey} /\ r.host \in Hosts
                         /\ r.clear \in Clears
                         /\ r.entry \in Entries \cup {NoEntry} /\ r.sent \in Session
  BY DEF Idle, Active, Phases

\* What clearing and pinning do to a session.
LEMMA SessionOps ==
    ASSUME NEW session \in Session, NEW t \in Tasks, task[t].host \in Hosts
    PROVE  /\ Clear(session, t) \in Session /\ Clear(session, t).pins = session.pins
           /\ Pin(session, t) \in Session /\ Pin(session, t).pins = task[t].host
  BY DEF Session, Clear, Pin

\* The request at a task's side of an entry: what both registry and refcount see of it.
LEMMA RefsAfter ==
    ASSUME NEW t \in Tasks, task \in [Tasks -> Active \cup {Idle}],
           NEW r, r \in Active \/ r = Idle, task' = [task EXCEPT ![t] = r]
    PROVE  \A e : Refs(task', e) =
             IF r # Idle /\ r.entry = e THEN Refs(task, e) \cup {t} ELSE Refs(task, e) \ {t}
<1> TAKE e
<1>1. task'[t] = r /\ \A u \in Tasks : u # t => task'[u] = task[u]
  OBVIOUS
<1>2. r.at # "idle" <=> r # Idle
  BY TaskRecords
<1>3. CASE r # Idle /\ r.entry = e
  BY <1>1, <1>2, <1>3 DEF Refs
<1>4. CASE ~(r # Idle /\ r.entry = e)
  BY <1>1, <1>2, <1>4 DEF Refs
<1> QED
  BY <1>3, <1>4

\* A step within a request, at the same entry, with the same counts.
LEMMA CountedMove ==
    ASSUME Types, Counted, NEW t \in Tasks, task[t] # Idle,
           NEW r \in Active, r.entry = task[t].entry, task' = [task EXCEPT ![t] = r],
           registry' = registry, \A e \in Entries : entries'[e].refs = entries[e].refs
    PROVE  Counted'
<1>1. ASSUME NEW e PROVE Refs(task', e) = Refs(task, e)
  <2>1. Refs(task', e) = IF r # Idle /\ r.entry = e THEN Refs(task, e) \cup {t} ELSE Refs(task, e) \ {t}
    BY RefsAfter DEF Types
  <2>2. t \in Refs(task, e) <=> r.entry = e
    BY TaskRecords DEF Refs, Types
  <2> QED
    BY <2>1, <2>2, TaskRecords
<1>2. \A k \in DOMAIN registry : registry[k] \in Entries
  BY DEF Types
<1> QED
  BY <1>1, <1>2 DEF Counted

\* Entering the guard: one more reference to the registered entry, or the first to a new.
LEMMA CountedEnter ==
    ASSUME Types, Counted, NEW t \in Tasks, task[t] # Idle, task[t].entry = NoEntry,
           NEW k \in Keys, NEW e \in Entries, IsEntry(k, e), NEW r \in Active, r.entry = e,
           task' = [task EXCEPT ![t] = r], registry' = Register(k, e),
           NEW x, entries' = [entries EXCEPT ![e] = x], x.refs = EntryFor(k, e).refs + 1
    PROVE  Counted'
<1>0. entries'[e].refs = EntryFor(k, e).refs + 1 /\ \A d \in Entries : d # e => entries'[d] = entries[d]
  BY DEF Types
<1>1. ASSUME NEW d \in Entries
      PROVE  Refs(task', d) = IF d = e THEN Refs(task, d) \cup {t} ELSE Refs(task, d)
  <2>1. task \in [Tasks -> Active \cup {Idle}]
    BY DEF Types
  <2>2. Refs(task', d) =
          IF r # Idle /\ r.entry = d THEN Refs(task, d) \cup {t} ELSE Refs(task, d) \ {t}
    BY <2>1, RefsAfter
  <2>3. t \notin Refs(task, d)
    BY KeyAssumption DEF Refs
  <2> QED
    BY <2>2, <2>3, TaskRecords
<1>2. ASSUME NEW d \in Entries
      PROVE  IsFiniteSet(Refs(task', d))
  <2>1. IsFiniteSet(Refs(task, d))
    BY DEF Counted
  <2>2. IsFiniteSet(Refs(task, d) \cup {t})
    BY <2>1, FS_AddElement
  <2> QED
    BY <1>1, <2>1, <2>2
<1>3. /\ DOMAIN registry' = DOMAIN registry \cup {k} /\ registry'[k] = e
      /\ \A j \in DOMAIN registry : registry'[j] = registry[j] /\ registry[j] \in Entries
  BY DEF Register, IsEntry, Types
<1>4. EntryFor(k, e).refs = Cardinality(Refs(task, e))
  <2>1. CASE k \in DOMAIN registry
    BY <2>1 DEF EntryFor, IsEntry, Counted
  <2>2. CASE k \notin DOMAIN registry
    <3>1. Refs(task, e) = {}
      BY <2>2 DEF IsEntry, Unreferenced, References, Refs, At
    <3> QED
      BY <2>2, <3>1, FS_EmptySet DEF EntryFor, FreshEntry
  <2> QED
    BY <2>1, <2>2
<1>5. t \notin Refs(task, e) /\ IsFiniteSet(Refs(task, e))
  BY KeyAssumption DEF Refs, Counted
<1>6. entries'[e].refs = Cardinality(Refs(task', e)) /\ Refs(task', e) # {}
  <2>1. Cardinality(Refs(task, e) \cup {t}) = Cardinality(Refs(task, e)) + 1
    BY <1>5, FS_AddElement
  <2>2. Refs(task', e) = Refs(task, e) \cup {t}
    BY <1>1
  <2> QED
    BY <1>0, <1>4, <2>1, <2>2
<1>7. ASSUME NEW j \in DOMAIN registry'
      PROVE  /\ entries'[registry'[j]].refs = Cardinality(Refs(task', registry'[j]))
             /\ Refs(task', registry'[j]) # {}
  <2>1. CASE registry'[j] = e
    BY <1>6, <2>1
  <2>2. CASE registry'[j] # e
    <3>1. j \in DOMAIN registry /\ registry'[j] = registry[j] /\ registry[j] \in Entries
      BY <1>3, <2>2
    <3>2. Refs(task', registry[j]) = Refs(task, registry[j]) /\ entries'[registry[j]] = entries[registry[j]]
      BY <1>0, <1>1, <2>2, <3>1
    <3>3. /\ entries[registry[j]].refs = Cardinality(Refs(task, registry[j]))
          /\ Refs(task, registry[j]) # {}
      BY <3>1 DEF Counted
    <3> QED
      BY <3>1, <3>2, <3>3
  <2> QED
    BY <2>1, <2>2
<1>8. \A i, j \in DOMAIN registry' : registry'[i] = registry'[j] => i = j
  BY <1>3 DEF Counted, IsEntry, Unreferenced
<1> QED
  BY <1>2, <1>7, <1>8 DEF Counted

\* A registry loses at most the key of a task that leaves, and that only if it is the last.
Shrinks(t, e, k) ==
    /\ DOMAIN registry' \subseteq DOMAIN registry
    /\ \A j \in DOMAIN registry' : registry'[j] = registry[j]
    /\ \A u \in Tasks : u # t /\ task[u] # Idle /\ task[u].entry = e => k \in DOMAIN registry'
    /\ \A j \in DOMAIN registry : j # k => j \in DOMAIN registry'

\* Leaving it: one reference less, and no entry without any.
LEMMA CountedLeave ==
    ASSUME Types, Counted, NEW t \in Tasks, task[t] # Idle, NEW e \in Entries, task[t].entry = e,
           NEW k \in DOMAIN registry, registry[k] = e, task' = [task EXCEPT ![t] = Idle],
           registry' = Unregister(k, entries[e].refs - 1),
           NEW x, entries' = [entries EXCEPT ![e] = x], x.refs = entries[e].refs - 1
    PROVE  Counted' /\ entries[e].refs - 1 \in Nat /\ Shrinks(t, e, k)
<1>0. entries'[e].refs = entries[e].refs - 1 /\ \A d \in Entries : d # e => entries'[d] = entries[d]
  BY DEF Types
<1>1. ASSUME NEW d \in Entries
      PROVE  Refs(task', d) = Refs(task, d) \ {t}
  BY RefsAfter DEF Types
<1>2. ASSUME NEW d \in Entries
      PROVE  IsFiniteSet(Refs(task', d))
  <2>1. IsFiniteSet(Refs(task, d))
    BY DEF Counted
  <2>2. IsFiniteSet(Refs(task, d) \ {t})
    BY <2>1, FS_RemoveElement
  <2> QED
    BY <1>1, <2>2
<1>3. t \in Refs(task, e) /\ IsFiniteSet(Refs(task, e)) /\ entries[e].refs = Cardinality(Refs(task, e))
  BY TaskRecords DEF Refs, Counted, Types
<1>4. entries'[e].refs = Cardinality(Refs(task', e))
  BY <1>0, <1>1, <1>3, FS_RemoveElement
<1>5. Cardinality(Refs(task', e)) \in Nat /\ (Cardinality(Refs(task', e)) = 0 <=> Refs(task', e) = {})
  BY <1>2, FS_CardinalityType, FS_EmptySet
<1>6. \A d \in Entries : d # e => Refs(task', d) = Refs(task, d)
  BY <1>1, TaskRecords DEF Refs
<1>7. /\ DOMAIN registry' \subseteq DOMAIN registry
      /\ \A j \in DOMAIN registry' : registry'[j] = registry[j]
      /\ \A j \in DOMAIN registry : j # k => j \in DOMAIN registry'
      /\ k \in DOMAIN registry' <=> entries'[e].refs # 0
  BY <1>0 DEF Unregister, Restrict
<1>8. \A j \in DOMAIN registry' : /\ entries'[registry'[j]].refs = Cardinality(Refs(task', registry'[j]))
                                  /\ Refs(task', registry'[j]) # {}
  <2> SUFFICES ASSUME NEW j \in DOMAIN registry'
               PROVE  /\ entries'[registry'[j]].refs = Cardinality(Refs(task', registry'[j]))
                      /\ Refs(task', registry'[j]) # {}
    OBVIOUS
  <2>1. registry'[j] = registry[j] /\ j \in DOMAIN registry /\ registry[j] \in Entries
    BY <1>7 DEF Types
  <2>2. CASE j = k
    BY <1>4, <1>5, <1>7, <2>1, <2>2
  <2>3. CASE j # k
    <3>1. registry[j] # e
      BY <2>1, <2>3 DEF Counted
    <3>2. /\ entries[registry[j]].refs = Cardinality(Refs(task, registry[j]))
          /\ Refs(task, registry[j]) # {}
      BY <2>1 DEF Counted
    <3>3. entries'[registry[j]] = entries[registry[j]] /\ Refs(task', registry[j]) = Refs(task, registry[j])
      BY <1>0, <1>6, <2>1, <3>1
    <3> QED
      BY <2>1, <3>2, <3>3
  <2> QED
    BY <2>2, <2>3
<1>9. Counted'
  <2>1. \A i, j \in DOMAIN registry' : registry'[i] = registry'[j] => i = j
    BY <1>7 DEF Counted
  <2> QED
    BY <1>2, <1>8, <2>1 DEF Counted
<1>10. ASSUME NEW u \in Tasks, u # t, task[u] # Idle, task[u].entry = e
       PROVE  k \in DOMAIN registry'
  <2>1. u \in Refs(task', e)
    BY <1>1, <1>10, TaskRecords DEF Refs, Types
  <2> QED
    BY <1>4, <1>5, <1>7, <2>1
<1> QED
  BY <1>0, <1>4, <1>5, <1>7, <1>9, <1>10 DEF Shrinks

--------------------------------------------------------------------------------
(* The actions.                                                                 *)

NoHolder(e) == \A u \in Tasks : Performs(task[u]) => task[u].entry # e

\* A lock that is free has no holder.
LEMMA FreeLock ==
    ASSUME PInv, NEW e \in Entries, ~entries[e].lock.locked
    PROVE  NoHolder(e)
  BY TaskRecords, KeyAssumption DEF PInv, Requests, Holding, NoHolder, Performs

\* The pins of others' requests stay, if only those of a session that nobody uses change.
LEMMA PinnedStays ==
    ASSUME PInv, NEW u \in Tasks, task[u] # Idle, NEW r, sessions' \in [Keys -> Session],
           r.entry # NoEntry => r.key \in Keys,
           \A k \in Keys : \/ sessions'[k].pins = sessions[k].pins
                           \/ /\ r.key = k /\ r.entry # NoEntry /\ NoHolder(r.entry)
                              /\ k \in DOMAIN registry => registry[k] = r.entry
    PROVE  Pinned(task[u], guard_on, sessions')
<1>1. task[u] \in Active /\ Placed(task[u], guard_on, registry) /\ Pinned(task[u], guard_on, sessions)
  BY DEF PInv, Types, Requests
<1> SUFFICES ASSUME guard_on, task[u].at = "sending", task[u].key # NoKey
             PROVE  sessions'[task[u].key].pins = task[u].host
  BY <1>1 DEF Pinned
<1>2. task[u].key \in Keys /\ sessions[task[u].key].pins = task[u].host
  BY <1>1, TaskRecords DEF Pinned
<1>3. task[u].key \in DOMAIN registry /\ registry[task[u].key] = task[u].entry /\ Performs(task[u])
  BY <1>1 DEF Placed, Performs
<1> QED
  BY <1>2, <1>3 DEF NoHolder

\* A step within a request: its place stays, its lock may become locked.
LEMMA StepInv ==
    ASSUME PInv, NEW t \in Tasks, task[t] # Idle,
           NEW r \in Active, r.entry = task[t].entry, r.key = task[t].key,
           task' = [task EXCEPT ![t] = r], UNCHANGED <<guard_on, registry>>,
           cancelling' \subseteq Tasks,
           entries' \in [Entries -> [lock : LockType(Tasks), refs : Nat]], Locks',
           \A e \in Entries : /\ entries'[e].refs = entries[e].refs
                              /\ entries[e].lock.locked => entries'[e].lock.locked,
           sessions' \in [Keys -> Session],
           \A k \in Keys : \/ sessions'[k].pins = sessions[k].pins
                           \/ r.key = k /\ r.entry # NoEntry /\ NoHolder(r.entry),
           Placed(r, guard_on, registry), Holding(r, entries'), Pinned(r, guard_on, sessions'),
           Performs(r) /\ r.entry # NoEntry => Performs(task[t]) \/ NoHolder(r.entry)
    PROVE  PInv'
<1>1. Types'
  BY DEF PInv, Types
<1>2. Counted'
  BY CountedMove DEF PInv
<1>3. ASSUME NEW u \in Tasks, u # t, task[u] # Idle
      PROVE  Placed(task[u], guard_on, registry) /\ Holding(task[u], entries')
             /\ Pinned(task[u], guard_on, sessions')
  <2>1. task[u] \in Active /\ Placed(task[u], guard_on, registry) /\ Holding(task[u], entries)
    BY <1>3 DEF PInv, Types, Requests
  <2>2. Holding(task[u], entries')
    BY <2>1, TaskRecords DEF Holding
  <2>3. r.entry # NoEntry => r.key \in Keys
    BY DEF Placed, PInv, Types
  <2>4. \A k \in Keys : \/ sessions'[k].pins = sessions[k].pins
                        \/ /\ r.key = k /\ r.entry # NoEntry /\ NoHolder(r.entry)
                           /\ k \in DOMAIN registry => registry[k] = r.entry
    BY DEF Placed
  <2>5. Pinned(task[u], guard_on, sessions')
    BY <1>3, <2>3, <2>4, PinnedStays
  <2> QED
    BY <2>1, <2>2, <2>5
<1>4. Requests'
  <2> SUFFICES ASSUME NEW u \in Tasks, task'[u] # Idle
               PROVE  Placed(task'[u], guard_on, registry) /\ Holding(task'[u], entries')
                      /\ Pinned(task'[u], guard_on, sessions')
    BY DEF Requests
  <2>1. task'[u] = IF u = t THEN r ELSE task[u]
    BY DEF PInv, Types
  <2> QED
    BY <1>3, <2>1
<1>5. OneHolder'
  <2> SUFFICES ASSUME NEW u \in Tasks, NEW v \in Tasks, Performs(task'[u]), Performs(task'[v]),
                      task'[u].entry = task'[v].entry, task'[u].entry # NoEntry
               PROVE  u = v
    BY DEF OneHolder
  <2>1. task'[u] = (IF u = t THEN r ELSE task[u]) /\ task'[v] = (IF v = t THEN r ELSE task[v])
    BY DEF PInv, Types
  <2> QED
    BY <2>1 DEF PInv, OneHolder, NoHolder
<1> QED
  BY <1>1, <1>2, <1>4, <1>5 DEF PInv

\* A registered entry that is new to the tasks has no holder; the state of any other shows.
LEMMA EntryForType ==
    ASSUME PInv, NEW k \in Keys, NEW e \in Entries, IsEntry(k, e)
    PROVE  /\ EntryFor(k, e).lock \in LockType(Tasks) /\ Sound(EntryFor(k, e).lock)
           /\ EntryFor(k, e).refs \in Nat
           /\ ~EntryFor(k, e).lock.locked => NoHolder(e)
           /\ \A u \in Tasks : task[u] # Idle /\ task[u].entry = e => EntryFor(k, e) = entries[e]
<1>1. CASE k \in DOMAIN registry
  <2>1. EntryFor(k, e) = entries[e]
    BY <1>1 DEF EntryFor
  <2> QED
    BY <2>1, FreeLock DEF PInv, Types, Locks
<1>2. CASE k \notin DOMAIN registry
  <2>1. EntryFor(k, e) = FreshEntry
    BY <1>2 DEF EntryFor
  <2>2. \A u \in Tasks : task[u] # Idle => task[u].entry # e
    BY <1>2, TaskRecords DEF IsEntry, Unreferenced, References, At, PInv, Types
  <2>3. NoHolder(e)
    BY <2>2, TaskRecords DEF NoHolder, Performs
  <2> QED
    BY <2>1, <2>2, <2>3, FreshLockSound DEF FreshEntry
<1> QED
  BY <1>1, <1>2

\* A reference more, and another lock, in an entry.
LEMMA ReferRecord ==
    ASSUME NEW entry \in [lock : LockType(Tasks), refs : Nat], NEW l
    PROVE  /\ Refer(entry).lock = entry.lock
           /\ [Refer(entry) EXCEPT !.lock = l] = [lock |-> l, refs |-> entry.refs + 1]
<1>1. Refer(entry) = [lock |-> entry.lock, refs |-> entry.refs + 1]
  BY DEF Refer
<1> QED
  BY <1>1

\* Entering the guard, whether the lock is taken at once or waited for.
LEMMA EnterInv ==
    ASSUME PInv, NEW t \in Tasks, task[t] # Idle, task[t].entry = NoEntry,
           NEW r \in Active, r.key \in Keys, NEW e \in Entries, r.entry = e, guard_on,
           IsEntry(r.key, e), r.at \in {"sending", "waiting"}, task' = [task EXCEPT ![t] = r],
           registry' = Register(r.key, e), UNCHANGED <<guard_on, cancelling>>,
           NEW x, entries' = [entries EXCEPT ![e] = x], x.refs = EntryFor(r.key, e).refs + 1,
           x \in [lock : LockType(Tasks), refs : Nat], Sound(x.lock),
           EntryFor(r.key, e).lock.locked => x.lock.locked,
           r.at = "sending" => x.lock.locked /\ ~EntryFor(r.key, e).lock.locked,
           sessions' \in [Keys -> Session],
           \A k \in Keys : sessions'[k].pins = sessions[k].pins \/ (r.key = k /\ r.at = "sending"),
           Pinned(r, guard_on, sessions')
    PROVE  PInv'
<1>1. /\ EntryFor(r.key, e).lock \in LockType(Tasks) /\ EntryFor(r.key, e).refs \in Nat
      /\ ~EntryFor(r.key, e).lock.locked => NoHolder(e)
      /\ \A u \in Tasks : task[u] # Idle /\ task[u].entry = e => EntryFor(r.key, e) = entries[e]
  BY EntryForType
<1>2. /\ DOMAIN registry' = DOMAIN registry \cup {r.key} /\ registry'[r.key] = e
      /\ \A j \in DOMAIN registry : registry'[j] = registry[j] /\ registry[j] \in Entries
      /\ registry' \in [DOMAIN registry' -> Entries] /\ DOMAIN registry' \subseteq Keys
  BY DEF Register, IsEntry, PInv, Types
<1>3. entries'[e] = x /\ \A d \in Entries : d # e => entries'[d] = entries[d]
  BY DEF PInv, Types
<1>4. Types' /\ Locks'
  BY <1>2, <1>3 DEF PInv, Types, Locks
<1>5. Counted'
  BY CountedEnter DEF PInv
<1>6. ASSUME NEW u \in Tasks, task[u] # Idle
      PROVE  Placed(task[u], guard_on, registry') /\ Holding(task[u], entries')
             /\ Pinned(task[u], guard_on, sessions')
  <2>1. task[u] \in Active /\ Placed(task[u], guard_on, registry) /\ Holding(task[u], entries)
    BY <1>6 DEF PInv, Types, Requests
  <2>2. Placed(task[u], guard_on, registry')
    BY <1>2, <2>1 DEF Placed
  <2>3. Holding(task[u], entries')
    BY <1>1, <1>3, <1>6, <2>1, TaskRecords DEF Holding
  <2>4. \A k \in Keys : \/ sessions'[k].pins = sessions[k].pins
                        \/ /\ r.key = k /\ r.entry # NoEntry /\ NoHolder(r.entry)
                           /\ k \in DOMAIN registry => registry[k] = r.entry
    BY <1>1, <1>2, KeyAssumption
  <2>5. Pinned(task[u], guard_on, sessions')
    BY <1>6, <2>4, PinnedStays
  <2> QED
    BY <2>2, <2>3, <2>5
<1>7. Placed(r, guard_on, registry') /\ Holding(r, entries')
  BY <1>2, <1>3, KeyAssumption DEF Placed, Holding, Performs
<1>8. Requests'
  <2> SUFFICES ASSUME NEW u \in Tasks, task'[u] # Idle
               PROVE  Placed(task'[u], guard_on, registry') /\ Holding(task'[u], entries')
                      /\ Pinned(task'[u], guard_on, sessions')
    BY DEF Requests
  <2>1. task'[u] = IF u = t THEN r ELSE task[u]
    BY DEF PInv, Types
  <2> QED
    BY <1>6, <1>7, <2>1
<1>9. OneHolder'
  <2> SUFFICES ASSUME NEW u \in Tasks, NEW v \in Tasks, Performs(task'[u]), Performs(task'[v]),
                      task'[u].entry = task'[v].entry, task'[u].entry # NoEntry
               PROVE  u = v
    BY DEF OneHolder
  <2>1. task'[u] = (IF u = t THEN r ELSE task[u]) /\ task'[v] = (IF v = t THEN r ELSE task[v])
    BY DEF PInv, Types
  <2>2. Performs(r) => NoHolder(e)
    BY <1>1 DEF Performs
  <2> QED
    BY <2>1, <2>2 DEF PInv, OneHolder, NoHolder
<1> QED
  BY <1>4, <1>5, <1>8, <1>9 DEF PInv

\* Leaving the guard with its lock in the state lock, and the locks of others untouched.
LEMMA LeaveInv ==
    ASSUME PInv, NEW t \in Tasks, task[t] # Idle, NEW lock, Leave(t, lock), guard_on' = guard_on,
           sessions' \in [Keys -> Session],
           \A k \in Keys : sessions'[k].pins = sessions[k].pins,
           task[t].entry # NoEntry =>
               /\ lock \in LockType(Tasks) /\ Sound(lock)
               /\ Performs(task[t]) \/ lock.locked = EntryOf(t).lock.locked
    PROVE  PInv'
<1>1. task[t] \in Active /\ task[t].entry \in Entries \cup {NoEntry}
  BY TaskRecords DEF PInv, Types
<1>2. task' = [task EXCEPT ![t] = Idle] /\ cancelling' \subseteq Tasks
  BY DEF Leave, PInv, Types
<1>3. OneHolder'
  BY <1>2, TaskRecords DEF PInv, Types, OneHolder, Performs
<1>4. CASE task[t].entry = NoEntry
  <2>1. UNCHANGED <<registry, entries>>
    BY <1>4 DEF Leave
  <2>2. Types' /\ Locks'
    BY <1>2, <2>1 DEF PInv, Types, Locks
  <2>3. Counted'
    <3>1. ASSUME NEW e \in Entries PROVE Refs(task', e) = Refs(task, e)
      <4>1. Refs(task', e) = Refs(task, e) \ {t}
        BY <1>2, RefsAfter DEF PInv, Types
      <4>2. t \notin Refs(task, e)
        BY <1>4, KeyAssumption DEF Refs
      <4> QED
        BY <1>2, <4>1, <4>2
    <3>2. \A k \in DOMAIN registry : registry[k] \in Entries
      BY DEF PInv, Types
    <3> QED
      BY <2>1, <3>1, <3>2 DEF PInv, Counted
  <2>4. Requests'
    <3> SUFFICES ASSUME NEW u \in Tasks, task'[u] # Idle
                 PROVE  Placed(task'[u], guard_on, registry) /\ Holding(task'[u], entries)
                        /\ Pinned(task'[u], guard_on, sessions')
      BY <2>1 DEF Requests
    <3>1. task'[u] \in Active /\ Placed(task'[u], guard_on, registry) /\ Holding(task'[u], entries)
          /\ Pinned(task'[u], guard_on, sessions)
      BY <1>2 DEF PInv, Types, Requests
    <3>2. task'[u].key # NoKey => task'[u].key \in Keys
      BY <3>1, TaskRecords
    <3> QED
      BY <3>1, <3>2 DEF Pinned
  <2> QED
    BY <1>3, <2>2, <2>3, <2>4 DEF PInv
<1>5. CASE task[t].entry # NoEntry
  <2> DEFINE e == task[t].entry
             k == task[t].key
  <2>1. e \in Entries /\ k \in DOMAIN registry /\ registry[k] = e
    BY <1>1, <1>5 DEF PInv, Requests, Placed
  <2>2. /\ entries' = [entries EXCEPT ![e] = [lock |-> lock, refs |-> entries[e].refs - 1]]
        /\ registry' = Unregister(k, entries[e].refs - 1)
    BY <1>5 DEF Leave, EntryOf
  <2>3. /\ entries'[e].lock = lock /\ entries'[e].refs = entries[e].refs - 1
        /\ \A d \in Entries : d # e => entries'[d] = entries[d]
    BY <2>1, <2>2 DEF PInv, Types
  <2> HIDE DEF e, k
  <2>4. Counted' /\ entries[e].refs - 1 \in Nat /\ Shrinks(t, e, k)
    <3>1. Types /\ Counted /\ task[t].entry = e
      BY DEF PInv, e
    <3> DEFINE x == [lock |-> lock, refs |-> entries[e].refs - 1]
    <3>2. entries' = [entries EXCEPT ![e] = x] /\ x.refs = entries[e].refs - 1
      BY <2>2
    <3> HIDE DEF x
    <3> QED
      BY <1>2, <2>1, <2>2, <3>1, <3>2, CountedLeave
  <2>5. lock \in LockType(Tasks) /\ Sound(lock)
    BY <1>5
  <2>6. registry' \in [DOMAIN registry' -> Entries] /\ DOMAIN registry' \subseteq Keys
    BY <2>2, <2>4 DEF PInv, Types, Shrinks, Unregister, Restrict
  <2>7. entries' \in [Entries -> [lock : LockType(Tasks), refs : Nat]]
    BY <2>2, <2>4, <2>5 DEF PInv, Types
  <2>8. Types'
    BY <1>2, <2>6, <2>7 DEF PInv, Types
  <2>9. Locks'
    BY <2>3, <2>5 DEF PInv, Locks
  <2>10. Requests'
    <3> SUFFICES ASSUME NEW u \in Tasks, task'[u] # Idle
                 PROVE  Placed(task'[u], guard_on, registry') /\ Holding(task'[u], entries')
                        /\ Pinned(task'[u], guard_on, sessions')
      BY DEF Requests
    <3>1. u # t /\ task'[u] = task[u] /\ task[u] \in Active
          /\ Placed(task[u], guard_on, registry) /\ Holding(task[u], entries)
          /\ Pinned(task[u], guard_on, sessions)
      BY <1>2 DEF PInv, Types, Requests
    <3>2. task[u].key # NoKey => task[u].key \in Keys
      BY <3>1, TaskRecords
    <3>3. Pinned(task[u], guard_on, sessions')
      BY <3>1, <3>2 DEF Pinned
    <3>4. task[u].entry # NoEntry => task[u].key \in DOMAIN registry /\ registry[task[u].key] = task[u].entry
      BY <3>1 DEF Placed
    <3>5. task[u].entry # NoEntry => task[u].key \in DOMAIN registry' /\ registry'[task[u].key] = task[u].entry
      BY <2>1, <2>4, <3>1, <3>4 DEF Shrinks
    <3>6. Placed(task[u], guard_on, registry')
      BY <3>1, <3>5 DEF Placed
    <3>7. Holding(task[u], entries')
      <4> SUFFICES ASSUME Performs(task[u]), task[u].entry # NoEntry
                   PROVE  entries'[task[u].entry].lock.locked
        BY DEF Holding
      <4>1. task[u].entry \in Entries /\ entries[task[u].entry].lock.locked
        BY <3>1, TaskRecords DEF Holding
      <4>2. CASE task[u].entry # e
        BY <2>3, <4>1, <4>2
      <4>3. CASE task[u].entry = e
        <5>1. ~Performs(task[t])
          BY <3>1, <4>3, <1>5 DEF PInv, OneHolder, e
        <5> QED
          BY <1>5, <2>3, <4>1, <4>3, <5>1 DEF EntryOf, e
      <4> QED
        BY <4>2, <4>3
    <3> QED
      BY <3>1, <3>3, <3>6, <3>7
  <2> QED
    BY <1>3, <2>4, <2>8, <2>9, <2>10 DEF PInv
<1> QED
  BY <1>4, <1>5

\* A request begins, or is refused, before it has to do with any entry.
LEMMA OutsideInv ==
    ASSUME PInv, NEW t \in Tasks, task[t] # Idle => task[t].entry = NoEntry,
           NEW r, \/ r = Idle
                  \/ r \in Active /\ r.at = "preparing" /\ r.entry = NoEntry,
           task' = [task EXCEPT ![t] = r],
           UNCHANGED <<guard_on, sessions, registry, entries, cancelling>>
    PROVE  PInv'
<1>1. Types' /\ Locks'
  BY DEF PInv, Types, Locks
<1>2. Counted'
  <2>1. ASSUME NEW e \in Entries PROVE Refs(task', e) = Refs(task, e)
    <3>1. Refs(task', e) = IF r # Idle /\ r.entry = e THEN Refs(task, e) \cup {t} ELSE Refs(task, e) \ {t}
      BY RefsAfter DEF PInv, Types
    <3>2. t \notin Refs(task, e) /\ ~(r # Idle /\ r.entry = e)
      BY KeyAssumption, TaskRecords DEF Refs
    <3> QED
      BY <3>1, <3>2
  <2>2. \A k \in DOMAIN registry : registry[k] \in Entries
    BY DEF PInv, Types
  <2> QED
    BY <2>1, <2>2 DEF PInv, Counted
<1>3. r # Idle => Placed(r, guard_on, registry) /\ Holding(r, entries) /\ Pinned(r, guard_on, sessions)
  BY DEF Placed, Holding, Pinned, Performs
<1>4. Requests'
  BY <1>3 DEF PInv, Types, Requests
<1>5. OneHolder'
  BY TaskRecords DEF PInv, Types, OneHolder, Performs
<1> QED
  BY <1>1, <1>2, <1>4, <1>5 DEF PInv

\* What is known of a request that is not idle.
LEMMA RequestFacts ==
    ASSUME PInv, NEW t \in Tasks, task[t].at # "idle"
    PROVE  /\ task[t] # Idle /\ task[t] \in Active
           /\ Placed(task[t], guard_on, registry) /\ Holding(task[t], entries)
           /\ Pinned(task[t], guard_on, sessions)
           /\ task[t].key \in Keys \cup {NoKey} /\ task[t].host \in Hosts
           /\ task[t].entry \in Entries \cup {NoEntry} /\ task[t].sent \in Session
  BY TaskRecords DEF PInv, Types, Requests

\* A step that touches no lock.
LEMMA UnlockedInv ==
    ASSUME PInv, NEW t \in Tasks, task[t].at # "idle",
           NEW r \in Active, r.entry = task[t].entry, r.key = task[t].key,
           task' = [task EXCEPT ![t] = r], UNCHANGED <<guard_on, registry, entries, cancelling>>,
           sessions' \in [Keys -> Session],
           \A k \in Keys : sessions'[k].pins = sessions[k].pins,
           Placed(r, guard_on, registry), Pinned(r, guard_on, sessions'),
           Performs(r) /\ r.entry # NoEntry => Performs(task[t])
    PROVE  PInv'
<1>1. task[t] # Idle /\ Holding(task[t], entries)
  BY RequestFacts
<1>2. Holding(r, entries')
  BY <1>1 DEF Holding
<1>3. Locks' /\ cancelling' \subseteq Tasks
      /\ entries' \in [Entries -> [lock : LockType(Tasks), refs : Nat]]
  BY DEF PInv, Types, Locks
<1>4. \A e \in Entries : /\ entries'[e].refs = entries[e].refs
                         /\ entries[e].lock.locked => entries'[e].lock.locked
  OBVIOUS
<1> QED
  BY <1>1, <1>2, <1>3, <1>4, StepInv

\* A new request has no entry yet.
LEMMA BeginInv ==
    ASSUME PInv, NEW t \in Tasks, Begins(t), UNCHANGED guard_on
    PROVE  PInv'
<1>1. PICK k \in Keys \cup {NoKey}, h \in Hosts, clear \in Clears : Begin(t, k, h, clear)
  BY DEF Begins
<1> DEFINE r == [at |-> "preparing", key |-> k, host |-> h, clear |-> clear,
                 entry |-> NoEntry, sent |-> EmptySession]
<1>2. r \in Active /\ r.at = "preparing" /\ r.entry = NoEntry
  BY DEF Active, Phases, EmptySession, Session
<1>3. task[t] = Idle /\ task' = [task EXCEPT ![t] = r]
      /\ UNCHANGED <<guard_on, sessions, registry, entries, cancelling>>
  BY <1>1 DEF Begin
<1> HIDE DEF r
<1> QED
  BY <1>2, <1>3, OutsideInv

\* A request that is refused never had one.
LEMMA RefuseInv ==
    ASSUME PInv, NEW t \in Tasks, Refuse(t), UNCHANGED guard_on
    PROVE  PInv'
<1>1. task[t].entry = NoEntry
  BY RequestFacts DEF Refuse, At, Placed
<1>2. task' = [task EXCEPT ![t] = Idle]
      /\ UNCHANGED <<guard_on, sessions, registry, entries, cancelling>>
  BY DEF Refuse
<1> QED
  BY <1>1, <1>2, OutsideInv

\* Without a key, or without the guard, there is no entry and no pin to keep.
LEMMA EnterUnlockedInv ==
    ASSUME PInv, NEW t \in Tasks, EnterUnlocked(t), UNCHANGED guard_on
    PROVE  PInv'
<1>1. /\ task[t].at = "preparing" /\ task[t] \in Active /\ task[t].entry = NoEntry
      /\ ~guard_on \/ task[t].key = NoKey
      /\ task[t].key # NoKey => task[t].key \in Keys
      /\ task[t].host \in Hosts
  BY RequestFacts DEF EnterUnlocked, At, Pooled, Placed
<1> DEFINE r == [task[t] EXCEPT !.at = "sending"]
<1>2. r \in Active /\ r.at = "sending" /\ r.entry = NoEntry /\ r.key = task[t].key
  BY <1>1 DEF Active, Phases
<1>3. task' = [task EXCEPT ![t] = r] /\ UNCHANGED <<guard_on, registry, entries, cancelling>>
  BY DEF EnterUnlocked
<1>4. sessions' \in [Keys -> Session] /\ \A k \in Keys : sessions'[k].pins = sessions[k].pins
  <2>1. sessions \in [Keys -> Session]
    BY DEF PInv, Types
  <2>2. CASE task[t].key = NoKey
    BY <2>1, <2>2 DEF EnterUnlocked, Pooled
  <2>3. CASE task[t].key # NoKey
    <3>1. sessions' = [sessions EXCEPT ![task[t].key] = Clear(sessions[task[t].key], t)]
      BY <2>3 DEF EnterUnlocked, Pooled
    <3>2. /\ Clear(sessions[task[t].key], t) \in Session
          /\ Clear(sessions[task[t].key], t).pins = sessions[task[t].key].pins
      BY <1>1, <2>1, <2>3, SessionOps
    <3> QED
      BY <2>1, <3>1, <3>2
  <2> QED
    BY <2>2, <2>3
<1> HIDE DEF r
<1>5. Placed(r, guard_on, registry) /\ Pinned(r, guard_on, sessions')
  BY <1>1, <1>2 DEF Placed, Pinned, Performs
<1> QED
  BY <1>1, <1>2, <1>3, <1>4, <1>5, UnlockedInv

\* Taking the free lock of the session, and pinning it, in one step.
LEMMA EnterTakesInv ==
    ASSUME PInv, NEW t \in Tasks, NEW e \in Entries, EnterTakes(t, e), UNCHANGED guard_on
    PROVE  PInv'
<1> DEFINE k == task[t].key
           r == [task[t] EXCEPT !.at = "sending", !.entry = e]
           x == [lock |-> Take(EntryFor(k, e).lock), refs |-> EntryFor(k, e).refs + 1]
           mine == Pin(Clear(sessions[k], t), t)
<1>1. /\ task[t].at = "preparing" /\ task[t] \in Active /\ task[t].entry = NoEntry
      /\ guard_on /\ k \in Keys /\ task[t].host \in Hosts /\ task[t] # Idle
  BY RequestFacts DEF EnterTakes, At, Pooled, Placed
<1>2. /\ r \in Active /\ r.at = "sending" /\ r.entry = e /\ r.key = k /\ r.host = task[t].host
  BY <1>1 DEF Active, Phases
<1>3. /\ EntryFor(k, e).lock \in LockType(Tasks) /\ Sound(EntryFor(k, e).lock)
      /\ EntryFor(k, e).refs \in Nat
  BY <1>1, EntryForType DEF EnterTakes
<1>4. /\ Take(EntryFor(k, e).lock) \in LockType(Tasks) /\ Sound(Take(EntryFor(k, e).lock))
      /\ Take(EntryFor(k, e).lock).locked /\ ~EntryFor(k, e).lock.locked
  BY <1>3, TakeSound DEF EnterTakes
<1>5. /\ x \in [lock : LockType(Tasks), refs : Nat] /\ Sound(x.lock) /\ x.lock.locked
      /\ x.refs = EntryFor(k, e).refs + 1
  BY <1>3, <1>4
<1>6. [Refer(EntryFor(k, e)) EXCEPT !.lock = Take(@)] = x
  <2>1. EntryFor(k, e) \in [lock : LockType(Tasks), refs : Nat]
    BY FreshLockSound DEF EntryFor, FreshEntry, PInv, Types
  <2>2. Refer(EntryFor(k, e)).lock = EntryFor(k, e).lock
    BY <2>1, ReferRecord
  <2> QED
    BY <2>1, <2>2, ReferRecord
<1>7. /\ task' = [task EXCEPT ![t] = r] /\ registry' = Register(k, e) /\ IsEntry(k, e)
      /\ entries' = [entries EXCEPT ![e] = x] /\ UNCHANGED <<guard_on, cancelling>>
      /\ sessions' = [sessions EXCEPT ![k] = mine]
  BY <1>6 DEF EnterTakes
<1>8. mine \in Session /\ mine.pins = task[t].host
  <2>1. Clear(sessions[k], t) \in Session
    BY <1>1, SessionOps DEF PInv, Types
  <2> QED
    BY <1>1, <2>1, SessionOps
<1> HIDE DEF k, r, x, mine
<1>9. /\ sessions' \in [Keys -> Session] /\ sessions'[k].pins = task[t].host
      /\ \A j \in Keys : sessions'[j].pins = sessions[j].pins \/ (r.key = j /\ r.at = "sending")
  BY <1>1, <1>2, <1>7, <1>8 DEF PInv, Types
<1>10. Pinned(r, guard_on, sessions')
  BY <1>2, <1>9 DEF Pinned
<1>11. /\ task[t] # Idle /\ task[t].entry = NoEntry /\ guard_on
       /\ r \in Active /\ r.key \in Keys /\ r.entry = e /\ r.at = "sending"
  BY <1>1, <1>2
<1>12. /\ IsEntry(r.key, e) /\ registry' = Register(r.key, e)
       /\ x.refs = EntryFor(r.key, e).refs + 1
       /\ x.lock.locked /\ ~EntryFor(r.key, e).lock.locked
  BY <1>2, <1>4, <1>5, <1>7
<1>13. /\ task' = [task EXCEPT ![t] = r] /\ entries' = [entries EXCEPT ![e] = x]
       /\ UNCHANGED <<guard_on, cancelling>>
       /\ x \in [lock : LockType(Tasks), refs : Nat] /\ Sound(x.lock)
  BY <1>5, <1>7
<1> QED
  BY <1>9, <1>10, <1>11, <1>12, <1>13, EnterInv

\* Queueing for it: the cookies of the session change, its pins do not.
LEMMA EnterWaitsInv ==
    ASSUME PInv, NEW t \in Tasks, NEW e \in Entries, EnterWaits(t, e), UNCHANGED guard_on
    PROVE  PInv'
<1> DEFINE k == task[t].key
           r == [task[t] EXCEPT !.at = "waiting", !.entry = e]
           x == [lock |-> Enqueue(EntryFor(k, e).lock, t), refs |-> EntryFor(k, e).refs + 1]
           cleared == Clear(sessions[k], t)
<1>1. /\ task[t].at = "preparing" /\ task[t] \in Active /\ task[t].entry = NoEntry
      /\ guard_on /\ k \in Keys /\ task[t].host \in Hosts /\ task[t] # Idle
  BY RequestFacts DEF EnterWaits, At, Pooled, Placed
<1>2. /\ r \in Active /\ r.at = "waiting" /\ r.entry = e /\ r.key = k
  BY <1>1 DEF Active, Phases
<1>3. /\ EntryFor(k, e).lock \in LockType(Tasks) /\ Sound(EntryFor(k, e).lock)
      /\ EntryFor(k, e).refs \in Nat
  BY <1>1, EntryForType DEF EnterWaits
<1>4. /\ Enqueue(EntryFor(k, e).lock, t) \in LockType(Tasks) /\ Sound(Enqueue(EntryFor(k, e).lock, t))
      /\ Enqueue(EntryFor(k, e).lock, t).locked = EntryFor(k, e).lock.locked
  BY <1>3, EnqueueSound DEF EnterWaits
<1>5. /\ x \in [lock : LockType(Tasks), refs : Nat] /\ Sound(x.lock)
      /\ x.lock.locked = EntryFor(k, e).lock.locked
      /\ x.refs = EntryFor(k, e).refs + 1
  BY <1>3, <1>4
<1>6. [Refer(EntryFor(k, e)) EXCEPT !.lock = Enqueue(@, t)] = x
  <2>1. EntryFor(k, e) \in [lock : LockType(Tasks), refs : Nat]
    BY FreshLockSound DEF EntryFor, FreshEntry, PInv, Types
  <2>2. Refer(EntryFor(k, e)).lock = EntryFor(k, e).lock
    BY <2>1, ReferRecord
  <2> QED
    BY <2>1, <2>2, ReferRecord
<1>7. /\ task' = [task EXCEPT ![t] = r] /\ registry' = Register(k, e) /\ IsEntry(k, e)
      /\ entries' = [entries EXCEPT ![e] = x] /\ UNCHANGED <<guard_on, cancelling>>
      /\ sessions' = [sessions EXCEPT ![k] = cleared]
  BY <1>6 DEF EnterWaits
<1>8. cleared \in Session /\ cleared.pins = sessions[k].pins
  BY <1>1, SessionOps DEF PInv, Types
<1> HIDE DEF k, r, x, cleared
<1>9. /\ sessions' \in [Keys -> Session]
      /\ \A j \in Keys : sessions'[j].pins = sessions[j].pins
  BY <1>1, <1>7, <1>8 DEF PInv, Types
<1>10. Pinned(r, guard_on, sessions')
  BY <1>2 DEF Pinned
<1> QED
  BY <1>1, <1>2, <1>5, <1>7, <1>9, <1>10, EnterInv

\* A woken waiter finds the lock free, takes it and pins the session.
LEMMA ResumeInv ==
    ASSUME PInv, NEW t \in Tasks, Resume(t), UNCHANGED guard_on
    PROVE  PInv'
<1> DEFINE e == task[t].entry
           k == task[t].key
           r == [task[t] EXCEPT !.at = "sending"]
           mine == Pin(sessions[k], t)
<1>1. /\ task[t].at = "waiting" /\ task[t] \in Active /\ task[t] # Idle /\ e \in Entries
      /\ e # NoEntry /\ guard_on /\ k \in Keys /\ k # NoKey /\ task[t].host \in Hosts
      /\ k \in DOMAIN registry /\ registry[k] = e
  BY RequestFacts DEF Resume, At, Placed
<1>2. /\ r \in Active /\ r.at = "sending" /\ r.entry = e /\ r.key = k /\ r.host = task[t].host
  BY <1>1 DEF Active, Phases
<1>3. entries[e].lock \in LockType(Tasks) /\ Sound(entries[e].lock)
  BY <1>1 DEF PInv, Types, Locks
<1>4. PICK i \in 1 .. Len(entries[e].lock.waiters) :
        /\ entries[e].lock.waiters[i].fut = "woken"
        /\ entries' = [entries EXCEPT ![e].lock = ResumeWaiter(@, i)]
  BY DEF Resume, EntryOf
<1> DEFINE lock == ResumeWaiter(entries[e].lock, i)
<1>5. lock \in LockType(Tasks) /\ Sound(lock) /\ lock.locked /\ ~entries[e].lock.locked
  BY <1>3, <1>4, ResumeWaiterSound
<1>6. mine \in Session /\ mine.pins = task[t].host
  BY <1>1, SessionOps DEF PInv, Types
<1>7. /\ task' = [task EXCEPT ![t] = r] /\ UNCHANGED <<guard_on, registry, cancelling>>
      /\ sessions' = [sessions EXCEPT ![k] = mine]
      /\ entries' = [entries EXCEPT ![e].lock = lock]
  BY <1>4 DEF Resume
<1>8. NoHolder(e)
  BY <1>1, <1>5, FreeLock
<1> HIDE DEF e, k, r, mine, lock
<1>9. /\ entries' \in [Entries -> [lock : LockType(Tasks), refs : Nat]]
      /\ entries'[e].lock = lock /\ entries'[e].refs = entries[e].refs
      /\ \A d \in Entries : d # e => entries'[d] = entries[d]
  BY <1>1, <1>5, <1>7 DEF PInv, Types
<1>10. /\ Locks'
       /\ \A d \in Entries : /\ entries'[d].refs = entries[d].refs
                             /\ entries[d].lock.locked => entries'[d].lock.locked
  BY <1>5, <1>9 DEF PInv, Locks
<1>11. /\ sessions' \in [Keys -> Session] /\ sessions'[k].pins = task[t].host
       /\ \A j \in Keys : \/ sessions'[j].pins = sessions[j].pins
                          \/ r.key = j /\ r.entry # NoEntry /\ NoHolder(r.entry)
  BY <1>1, <1>2, <1>6, <1>7, <1>8 DEF PInv, Types
<1>12. Placed(r, guard_on, registry) /\ Holding(r, entries') /\ Pinned(r, guard_on, sessions')
  BY <1>1, <1>2, <1>5, <1>9, <1>11 DEF Placed, Holding, Pinned
<1>13. r.entry = task[t].entry /\ r.key = task[t].key /\ cancelling' \subseteq Tasks
  BY <1>2, <1>7 DEF e, k, PInv, Types
<1>14. r.entry # NoEntry /\ NoHolder(r.entry)
  BY <1>1, <1>2, <1>8
<1> QED
  BY <1>1, <1>2, <1>7, <1>9, <1>10, <1>11, <1>12, <1>13, <1>14, StepInv

\* curl reads the pins that the request has set.
LEMMA SendInv ==
    ASSUME PInv, NEW t \in Tasks, Send(t), UNCHANGED guard_on
    PROVE  PInv'
<1> DEFINE r == [task[t] EXCEPT !.at = "requested", !.sent = SessionOf(t)]
<1>1. /\ task[t].at = "sending" /\ task[t] \in Active /\ task[t].host \in Hosts
      /\ task[t].key # NoKey => task[t].key \in Keys
      /\ Placed(task[t], guard_on, registry) /\ Pinned(task[t], guard_on, sessions)
  BY RequestFacts DEF Send, At
<1>2. SessionOf(t) \in Session /\ (guard_on => SessionOf(t).pins = task[t].host)
  <2>1. EmptySession \in Session
    BY DEF EmptySession, Session
  <2>2. Pin(EmptySession, t) \in Session /\ Pin(EmptySession, t).pins = task[t].host
    BY <1>1, <2>1, SessionOps
  <2> QED
    BY <1>1, <2>1, <2>2 DEF SessionOf, Pooled, Pinned, PInv, Types
<1>3. /\ r \in Active /\ r.at = "requested" /\ r.entry = task[t].entry /\ r.key = task[t].key
      /\ r.host = task[t].host /\ r.sent = SessionOf(t)
  BY <1>1, <1>2 DEF Active, Phases
<1>4. task' = [task EXCEPT ![t] = r] /\ UNCHANGED <<guard_on, sessions, registry, entries, cancelling>>
  BY DEF Send
<1> HIDE DEF r
<1>5. Placed(r, guard_on, registry) /\ Pinned(r, guard_on, sessions') /\ Performs(task[t])
  BY <1>1, <1>2, <1>3 DEF Placed, Pinned, Performs
<1>6. sessions' \in [Keys -> Session] /\ \A k \in Keys : sessions'[k].pins = sessions[k].pins
  BY <1>4 DEF PInv, Types
<1> QED
  BY <1>1, <1>3, <1>4, <1>5, <1>6, UnlockedInv

\* The holder leaves, and releases the lock if there is one.
LEMMA LeaveHoldingInv ==
    ASSUME PInv, NEW t \in Tasks, Performs(task[t]), LeaveHolding(t), guard_on' = guard_on,
           sessions' \in [Keys -> Session],
           \A k \in Keys : sessions'[k].pins = sessions[k].pins
    PROVE  PInv'
<1>1. /\ task[t] # Idle /\ task[t].entry \in Entries \cup {NoEntry}
      /\ Holding(task[t], entries)
  BY RequestFacts DEF Performs
<1>2. CASE task[t].entry = NoEntry
  BY <1>1, <1>2, LeaveInv DEF LeaveHolding
<1>3. CASE task[t].entry # NoEntry
  <2>1. EntryOf(t).lock \in LockType(Tasks) /\ Sound(EntryOf(t).lock) /\ EntryOf(t).lock.locked
    BY <1>1, <1>3 DEF EntryOf, Holding, PInv, Types, Locks
  <2>2. Release(EntryOf(t).lock) \in LockType(Tasks) /\ Sound(Release(EntryOf(t).lock))
    BY <2>1, ReleaseSound
  <2>3. Leave(t, Release(EntryOf(t).lock))
    BY <1>3 DEF LeaveHolding
  <2> QED
    BY <1>1, <2>2, <2>3, LeaveInv
<1> QED
  BY <1>2, <1>3

\* A response sets cookies, not pins.
LEMMA RespondInv ==
    ASSUME PInv, NEW t \in Tasks, Respond(t), UNCHANGED guard_on
    PROVE  PInv'
<1>1. /\ task[t].at = "requested" /\ task[t] \in Active
      /\ task[t].key # NoKey => task[t].key \in Keys
      /\ Placed(task[t], guard_on, registry) /\ Pinned(task[t], guard_on, sessions)
      /\ Performs(task[t])
  BY RequestFacts DEF Respond, At, Performs
<1>2. sessions' \in [Keys -> Session] /\ \A k \in Keys : sessions'[k].pins = sessions[k].pins
  BY <1>1 DEF Respond, Pooled, Session, PInv, Types
<1>3. CASE guard_on
  <2> DEFINE r == [task[t] EXCEPT !.at = "reading"]
  <2>1. /\ r \in Active /\ r.at = "reading" /\ r.entry = task[t].entry /\ r.key = task[t].key
        /\ r.host = task[t].host /\ r.sent = task[t].sent
    BY <1>1 DEF Active, Phases
  <2>2. task' = [task EXCEPT ![t] = r] /\ UNCHANGED <<guard_on, registry, entries, cancelling>>
    BY <1>3 DEF Respond
  <2> HIDE DEF r
  <2>3. Placed(r, guard_on, registry) /\ Pinned(r, guard_on, sessions')
    BY <1>1, <2>1 DEF Placed, Pinned, Performs
  <2> QED
    BY <1>1, <1>2, <2>1, <2>2, <2>3, UnlockedInv
<1>4. CASE ~guard_on
  BY <1>1, <1>2, <1>4, LeaveHoldingInv DEF Respond
<1> QED
  BY <1>3, <1>4

\* The end of the body changes nothing that is shared.
LEMMA EndBodyInv ==
    ASSUME PInv, NEW t \in Tasks, EndBody(t), UNCHANGED guard_on
    PROVE  PInv'
<1>1. /\ task[t].at = "reading" /\ task[t] \in Active
      /\ Placed(task[t], guard_on, registry) /\ Pinned(task[t], guard_on, sessions)
      /\ Performs(task[t])
  BY RequestFacts DEF EndBody, At, Performs
<1> DEFINE r == [task[t] EXCEPT !.at = "closing"]
<1>2. /\ r \in Active /\ r.at = "closing" /\ r.entry = task[t].entry /\ r.key = task[t].key
      /\ r.host = task[t].host /\ r.sent = task[t].sent
  BY <1>1 DEF Active, Phases
<1>3. task' = [task EXCEPT ![t] = r] /\ UNCHANGED <<guard_on, sessions, registry, entries, cancelling>>
  BY DEF EndBody
<1> HIDE DEF r
<1>4. Placed(r, guard_on, registry) /\ Pinned(r, guard_on, sessions')
  BY <1>1, <1>2, <1>3 DEF Placed, Pinned, Performs
<1>5. sessions' \in [Keys -> Session] /\ \A k \in Keys : sessions'[k].pins = sessions[k].pins
  BY <1>3 DEF PInv, Types
<1> QED
  BY <1>1, <1>2, <1>3, <1>4, <1>5, UnlockedInv

\* Closing the response, or failing before there is one.
LEMMA CloseOrAbortInv ==
    ASSUME PInv, NEW t \in Tasks, Close(t) \/ Abort(t), UNCHANGED guard_on
    PROVE  PInv'
<1>1. Performs(task[t]) /\ LeaveHolding(t) /\ UNCHANGED sessions
  BY DEF Close, Abort, At, Performs
<1>2. sessions' \in [Keys -> Session]
  BY <1>1 DEF PInv, Types
<1> QED
  BY <1>1, <1>2, LeaveHoldingInv

\* Cancelling a waiter changes its future at most.
LEMMA RequestCancelInv ==
    ASSUME PInv, NEW t \in Tasks, RequestCancel(t), UNCHANGED guard_on
    PROVE  PInv'
<1> DEFINE e == task[t].entry
<1>1. /\ task[t].at = "waiting" /\ task[t] \in Active /\ task[t] # Idle
      /\ e \in Entries /\ Placed(task[t], guard_on, registry)
  BY RequestFacts DEF RequestCancel, At, Placed
<1>2. PICK i \in 1 .. Len(entries[e].lock.waiters) :
        entries' = [entries EXCEPT ![e].lock = CancelWaiter(@, i)]
  BY DEF RequestCancel, EntryOf
<1>3. entries[e].lock \in LockType(Tasks) /\ Sound(entries[e].lock)
  BY <1>1 DEF PInv, Types, Locks
<1> DEFINE lock == CancelWaiter(entries[e].lock, i)
<1>4. lock \in LockType(Tasks) /\ Sound(lock) /\ lock.locked = entries[e].lock.locked
  BY <1>3, CancelWaiterSound
<1>5. entries' = [entries EXCEPT ![e].lock = lock]
  BY <1>2
<1> HIDE DEF e, lock
<1>6. /\ entries' \in [Entries -> [lock : LockType(Tasks), refs : Nat]]
      /\ entries'[e].lock = lock /\ entries'[e].refs = entries[e].refs
      /\ \A d \in Entries : d # e => entries'[d] = entries[d]
  BY <1>1, <1>4, <1>5 DEF PInv, Types
<1>7. /\ Locks'
      /\ \A d \in Entries : /\ entries'[d].refs = entries[d].refs
                            /\ entries[d].lock.locked => entries'[d].lock.locked
  BY <1>4, <1>6 DEF PInv, Locks
<1>8. /\ task' = [task EXCEPT ![t] = task[t]] /\ UNCHANGED <<guard_on, sessions, registry>>
      /\ cancelling' \subseteq Tasks /\ sessions' \in [Keys -> Session]
  BY DEF RequestCancel, PInv, Types
<1>9. Holding(task[t], entries') /\ Pinned(task[t], guard_on, sessions') /\ ~Performs(task[t])
  BY <1>1 DEF Holding, Pinned, Performs
<1> QED
  BY <1>1, <1>6, <1>7, <1>8, <1>9, StepInv

\* A cancelled waiter leaves its queue, and the lock as it is.
LEMMA DeliverCancelInv ==
    ASSUME PInv, NEW t \in Tasks, DeliverCancel(t), UNCHANGED guard_on
    PROVE  PInv'
<1>1. /\ task[t] # Idle /\ task[t].entry \in Entries
  BY RequestFacts DEF DeliverCancel, At, Placed
<1>2. EntryOf(t).lock \in LockType(Tasks) /\ Sound(EntryOf(t).lock)
  BY <1>1 DEF EntryOf, PInv, Types, Locks
<1>3. PICK i \in 1 .. Len(EntryOf(t).lock.waiters) : Leave(t, AbandonWaiter(EntryOf(t).lock, i))
  BY DEF DeliverCancel
<1>4. /\ AbandonWaiter(EntryOf(t).lock, i) \in LockType(Tasks)
      /\ Sound(AbandonWaiter(EntryOf(t).lock, i))
      /\ AbandonWaiter(EntryOf(t).lock, i).locked = EntryOf(t).lock.locked
  BY <1>2, AbandonWaiterSound
<1>5. sessions' \in [Keys -> Session] /\ \A k \in Keys : sessions'[k].pins = sessions[k].pins
  BY DEF DeliverCancel, PInv, Types
<1> QED
  BY <1>1, <1>3, <1>4, <1>5, LeaveInv

--------------------------------------------------------------------------------
(* The theorems.                                                                *)

\* At the start nothing is registered.
LEMMA InitInv == Init => PInv
<1> SUFFICES ASSUME Init PROVE PInv
  OBVIOUS
<1>1. /\ registry = << >> /\ DOMAIN registry = {}
      /\ \A t \in Tasks : task[t] = Idle
      /\ \A e \in Entries : entries[e] = FreshEntry
  BY DEF Init
<1>2. Types
  <2>1. EmptySession \in Session /\ FreshEntry \in [lock : LockType(Tasks), refs : Nat]
    BY FreshLockSound DEF EmptySession, Session, FreshEntry
  <2>2. registry \in [DOMAIN registry -> Entries]
    BY <1>1
  <2> QED
    BY <1>1, <2>1, <2>2, SwitchAssumption DEF Init, Types
<1>3. Locks
  BY <1>1, FreshLockSound DEF Locks, FreshEntry
<1>4. Counted
  <2>1. \A e \in Entries : Refs(task, e) = {}
    BY <1>1, TaskRecords DEF Refs
  <2> QED
    BY <1>1, <2>1, FS_EmptySet DEF Counted
<1>5. Requests /\ OneHolder
  BY <1>1, TaskRecords DEF Requests, OneHolder, Performs
<1> QED
  BY <1>2, <1>3, <1>4, <1>5 DEF PInv

\* Every action keeps the invariant.
LEMMA NextInv == PInv /\ [Next]_vars => PInv'
<1> SUFFICES ASSUME PInv, [Next]_vars PROVE PInv'
  OBVIOUS
<1>1. CASE UNCHANGED vars
  BY <1>1 DEF vars, PInv, Types, Locks, Counted, Requests, OneHolder
<1>2. CASE Next
  <2>1. UNCHANGED guard_on
    BY <1>2 DEF Next
  <2>2. PICK t \in Tasks : Begins(t) \/ Proceeds(t) \/ Refuse(t) \/ Abort(t) \/ RequestCancel(t)
    BY <1>2 DEF Next
  <2>3. CASE Begins(t)
    BY <2>1, <2>3, BeginInv
  <2>4. CASE Enters(t)
    BY <2>1, <2>4, EnterUnlockedInv, EnterTakesInv, EnterWaitsInv DEF Enters
  <2>5. CASE Resume(t)
    BY <2>1, <2>5, ResumeInv
  <2>6. CASE Send(t)
    BY <2>1, <2>6, SendInv
  <2>7. CASE Respond(t)
    BY <2>1, <2>7, RespondInv
  <2>8. CASE EndBody(t)
    BY <2>1, <2>8, EndBodyInv
  <2>9. CASE Close(t) \/ Abort(t)
    BY <2>1, <2>9, CloseOrAbortInv
  <2>10. CASE DeliverCancel(t)
    BY <2>1, <2>10, DeliverCancelInv
  <2>11. CASE Refuse(t)
    BY <2>1, <2>11, RefuseInv
  <2>12. CASE RequestCancel(t)
    BY <2>1, <2>12, RequestCancelInv
  <2> QED
    BY <2>2, <2>3, <2>4, <2>5, <2>6, <2>7, <2>8, <2>9, <2>10, <2>11, <2>12 DEF Proceeds
<1> QED
  BY <1>1, <1>2

\* Every reachable state satisfies the inductive invariant.
THEOREM Invariance == Spec => []PInv
  BY InitInv, NextInv, PTL DEF Spec

\* The variables have their types; a refcount never goes below zero (_session_guard in
\* http_client.py).
THEOREM Typing == Spec => []TypeOK
<1>1. PInv => TypeOK
  <2> SUFFICES ASSUME PInv PROVE TypeOK
    OBVIOUS
  <2>1. Range(registry) \subseteq Entries
    BY DEF PInv, Types, Range
  <2> QED
    BY <2>1 DEF PInv, Types, TypeOK
<1> QED
  BY <1>1, Invariance, PTL

\* The registry of locks is exact: it grows and shrinks with the requests, and no session
\* ever has two locks in use (_session_guard in http_client.py).
THEOREM RegistryIsExact == Spec => []RegistryMatchesTasks
<1>1. PInv => RegistryMatchesTasks
  <2> SUFFICES ASSUME PInv PROVE RegistryMatchesTasks
    OBVIOUS
  <2>1. \A e : References(e) = Refs(task, e)
    BY DEF References, Refs, At
  <2>2. ASSUME NEW t \in Tasks, ~At(t, "idle"), task[t].entry # NoEntry
        PROVE  task[t].key \in DOMAIN registry /\ registry[task[t].key] = task[t].entry
    BY <2>2, RequestFacts DEF At, Placed
  <2> QED
    BY <2>1, <2>2 DEF RegistryMatchesTasks, PInv, Counted
<1> QED
  BY <1>1, Invariance, PTL

\* Under the URL guard the requests of a session do not overlap, through failures,
\* cancellations and evictions of its lock (_session_guard in http_client.py).
THEOREM Exclusion == Spec => []SessionExclusive
<1>1. PInv => SessionExclusive
  <2> SUFFICES ASSUME PInv, guard_on, NEW t \in Tasks, NEW u \in Tasks,
                      Performing(t), Performing(u), task[t].key = task[u].key, task[t].key # NoKey
               PROVE  t = u
    BY DEF SessionExclusive
  <2>1. Performs(task[t]) /\ Performs(task[u])
    BY DEF Performing, Performs
  <2>2. Placed(task[t], guard_on, registry) /\ Placed(task[u], guard_on, registry)
    BY <2>1, RequestFacts DEF Performs
  <2>3. task[t].entry = task[u].entry /\ task[t].entry # NoEntry
    BY <2>1, <2>2 DEF Placed
  <2> QED
    BY <2>1, <2>3 DEF PInv, OneHolder
<1> QED
  BY <1>1, Invariance, PTL

\* Every guarded request leaves with the pins of its own host (_perform_pinned in
\* http_client.py).
THEOREM OwnPins == Spec => []SentWithOwnPins
<1>1. PInv => SentWithOwnPins
  <2> SUFFICES ASSUME PInv, guard_on, NEW t \in Tasks, task[t].at \in {"requested", "reading", "closing"}
               PROVE  task[t].sent.pins = task[t].host
    BY DEF SentWithOwnPins
  <2> QED
    BY RequestFacts DEF Pinned
<1> QED
  BY <1>1, Invariance, PTL
================================================================================
