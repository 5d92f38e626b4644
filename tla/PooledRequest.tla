----------------------------- MODULE PooledRequest -----------------------------
(***************************************************************************)
(* The `request` tool (_internal/tools/http_client.py): concurrent tasks   *)
(* of one event loop issue HTTP requests through pooled sessions.  Tasks   *)
(* with the same session_key share one session, its cookie jar and its     *)
(* RESOLVE pins; the refcounted lock of _session_guard serializes them     *)
(* around [set pins, request, read body, close].  A task without a key     *)
(* gets a session of its own.                                              *)
(*                                                                         *)
(* The pool and curl are external: the pool hands the same session to the  *)
(* same key, and curl reads the session's pins and cookies after an await  *)
(* inside request(), which is the race the guard is there for.             *)
(***************************************************************************)
EXTENDS AsyncioLock

CONSTANTS
    Tasks,      \* tasks that use the tool, one request at a time each
    Keys,       \* session keys
    NoKey,      \* session_key = None
    Hosts,      \* destinations; the pins of a request are those of its host
    NoHost,     \* no pin set
    Entries,    \* identities of registry entries (reused once garbage)
    NoEntry,
    Clears,     \* values of clear_session_cookies (TRUE is its default)
    Guards,     \* the possible settings of the URL guard, on (TRUE) or off
    MayFail     \* a request may be refused, fail or be cancelled

ASSUME KeyAssumption == NoKey \notin Keys /\ NoHost \notin Hosts /\ NoEntry \notin Entries
ASSUME SwitchAssumption == Guards \cup Clears \subseteq BOOLEAN /\ MayFail \in BOOLEAN

VARIABLES
    guard_on,   \* url_guard.guard_enabled(): a setting, fixed for the process
    sessions,   \* the jar and the pins of the pooled session of every key
    registry,   \* _session_locks of the loop: from session keys to entries
    entries,    \* the [lock, refcount] entries
    task,       \* what each task is suspended in
    cancelling  \* waiters whose cancellation is requested and not delivered

vars == <<guard_on, sessions, registry, entries, task, cancelling>>

Idle == [at |-> "idle"]

Phases == {"preparing",  \* resolving and validating hosts, entering the pool
           "waiting",    \* for the lock of _session_guard
           "sending",    \* inside request(), before curl reads the options
           "requested",  \* inside request(), awaiting the response's headers
           "reading",    \* streaming the body
           "closing"}    \* in resp.aclose()

\* Whether the jar holds a cookie some response set, and curl's RESOLVE option.
Session == [cookies : BOOLEAN, pins : Hosts \cup {NoHost}]

EmptySession == [cookies |-> FALSE, pins |-> NoHost]

\* `sent` is a history: the session as curl read it for this request.
Active == [at : Phases, key : Keys \cup {NoKey}, host : Hosts, clear : Clears,
           entry : Entries \cup {NoEntry}, sent : Session]

FreshEntry == [lock |-> FreshLock, refs |-> 0]

At(t, phase) == task[t].at = phase

Pooled(t) == task[t].key # NoKey

EntryOf(t) == entries[task[t].entry]

References(e) == {t \in Tasks : ~At(t, "idle") /\ task[t].entry = e}

\* An entry object nobody refers to: the one a new list may be.
Unreferenced(e) == References(e) = {} /\ \A k \in DOMAIN registry : registry[k] # e

\* The registered entry of a key, or a new one.
IsEntry(k, e) == IF k \in DOMAIN registry THEN e = registry[k] ELSE Unreferenced(e)

EntryFor(k, e) == IF k \in DOMAIN registry THEN entries[e] ELSE FreshEntry

Register(k, e) == [j \in DOMAIN registry \cup {k} |-> IF j = k THEN e ELSE registry[j]]

ReferNothing(entry) == entry

Refer(entry) == [entry EXCEPT !.refs = @ + 1]

\* The finally of _session_guard evicts the entry with its last reference.
UnregisterAlways(k, refs) == Restrict(registry, DOMAIN registry \ {k})

UnregisterOffByOne(k, refs) ==
    IF refs <= 1 THEN Restrict(registry, DOMAIN registry \ {k}) ELSE registry

Unregister(k, refs) ==
    IF refs = 0 THEN Restrict(registry, DOMAIN registry \ {k}) ELSE registry

--------------------------------------------------------------------------------

Init == /\ guard_on \in Guards
        /\ sessions = [k \in Keys |-> EmptySession]
        /\ registry = << >>
        /\ entries = [e \in Entries |-> FreshEntry]
        /\ task = [t \in Tasks |-> Idle]
        /\ cancelling = {}

\* A call: hosts are resolved and validated, and the pool's session entered.
Begin(t, k, h, clear) ==
    /\ task[t] = Idle
    /\ task' = [task EXCEPT ![t] = [at |-> "preparing", key |-> k, host |-> h, clear |-> clear,
                                    entry |-> NoEntry, sent |-> EmptySession]]
    /\ UNCHANGED <<sessions, registry, entries, cancelling>>

\* The URL guard or the pool refuses.
Refuse(t) ==
    /\ MayFail
    /\ At(t, "preparing")
    /\ task' = [task EXCEPT ![t] = Idle]
    /\ UNCHANGED <<sessions, registry, entries, cancelling>>

\* What a request does to the pooled session it enters: clear_session_cookies
\* empties the jar as soon as the session is entered, _perform_pinned sets the
\* pins.  A session without a key is seen by its own request only.
Clear(session, t) == IF task[t].clear THEN [session EXCEPT !.cookies = FALSE] ELSE session

Pin(session, t) == [session EXCEPT !.pins = task[t].host]

\* Without a key, or without the URL guard, no lock is involved; without the
\* guard no pins are set either.
EnterUnlocked(t) ==
    /\ At(t, "preparing")
    /\ ~guard_on \/ ~Pooled(t)
    /\ sessions' = IF Pooled(t) THEN [sessions EXCEPT ![task[t].key] = Clear(@, t)] ELSE sessions
    /\ task' = [task EXCEPT ![t].at = "sending"]
    /\ UNCHANGED <<registry, entries, cancelling>>

\* The lock of the session is free: it is taken without a suspension.
EnterTakes(t, e) ==
    LET k == task[t].key
    IN /\ At(t, "preparing") /\ guard_on /\ Pooled(t)
       /\ IsEntry(k, e)
       /\ CanTake(EntryFor(k, e).lock)
       /\ registry' = Register(k, e)
       /\ entries' = [entries EXCEPT ![e] = [Refer(EntryFor(k, e)) EXCEPT !.lock = Take(@)]]
       /\ sessions' = [sessions EXCEPT ![k] = Pin(Clear(@, t), t)]
       /\ task' = [task EXCEPT ![t].at = "sending", ![t].entry = e]
       /\ UNCHANGED cancelling

\* The pins are set before the lock is waited for.
EnterWaitsPinned(t, e) ==
    LET k == task[t].key
    IN /\ At(t, "preparing") /\ guard_on /\ Pooled(t)
       /\ IsEntry(k, e)
       /\ ~CanTake(EntryFor(k, e).lock)
       /\ registry' = Register(k, e)
       /\ entries' = [entries EXCEPT ![e] = [Refer(EntryFor(k, e)) EXCEPT !.lock = Enqueue(@, t)]]
       /\ sessions' = [sessions EXCEPT ![k] = Pin(Clear(@, t), t)]
       /\ task' = [task EXCEPT ![t].at = "waiting", ![t].entry = e]
       /\ UNCHANGED cancelling

\* The lock is busy: the cookies are cleared, the pins not yet set.
EnterWaits(t, e) ==
    LET k == task[t].key
    IN /\ At(t, "preparing") /\ guard_on /\ Pooled(t)
       /\ IsEntry(k, e)
       /\ ~CanTake(EntryFor(k, e).lock)
       /\ registry' = Register(k, e)
       /\ entries' = [entries EXCEPT ![e] = [Refer(EntryFor(k, e)) EXCEPT !.lock = Enqueue(@, t)]]
       /\ sessions' = [sessions EXCEPT ![k] = Clear(@, t)]
       /\ task' = [task EXCEPT ![t].at = "waiting", ![t].entry = e]
       /\ UNCHANGED cancelling

InQueue(t, i) == /\ At(t, "waiting")
                 /\ WaiterAt(EntryOf(t).lock, i)
                 /\ EntryOf(t).lock.waiters[i].task = t

\* A woken waiter owns the session: it sets its pins and sends.
Resume(t) ==
    /\ At(t, "waiting") /\ t \notin cancelling
    /\ \E i \in 1 .. Len(EntryOf(t).lock.waiters) :
          /\ InQueue(t, i)
          /\ EntryOf(t).lock.waiters[i].fut = "woken"
          /\ entries' = [entries EXCEPT ![task[t].entry].lock = ResumeWaiter(@, i)]
    /\ sessions' = [sessions EXCEPT ![task[t].key] = Pin(@, t)]
    /\ task' = [task EXCEPT ![t].at = "sending"]
    /\ UNCHANGED <<registry, cancelling>>

SessionOf(t) == IF Pooled(t) THEN sessions[task[t].key]
                ELSE IF guard_on THEN Pin(EmptySession, t) ELSE EmptySession

\* curl reads the options of the session: the request leaves with its pins and
\* its cookies.
Send(t) ==
    /\ At(t, "sending")
    /\ task' = [task EXCEPT ![t].at = "requested", ![t].sent = SessionOf(t)]
    /\ UNCHANGED <<sessions, registry, entries, cancelling>>

\* Leaving the guard, by whichever way: release, dereference, evict.
Leave(t, lock) ==
    /\ IF task[t].entry = NoEntry
       THEN UNCHANGED <<registry, entries>>
       ELSE LET refs == EntryOf(t).refs - 1
            IN /\ entries' = [entries EXCEPT ![task[t].entry] = [lock |-> lock, refs |-> refs]]
               /\ registry' = Unregister(task[t].key, refs)
    /\ task' = [task EXCEPT ![t] = Idle]
    /\ cancelling' = cancelling \ {t}

LeaveHolding(t) == IF task[t].entry = NoEntry THEN Leave(t, FreshLock)
                                              ELSE Leave(t, Release(EntryOf(t).lock))

\* The headers arrive and set a cookie.  A guarded request goes on to stream
\* the body; an unguarded one has it already and returns.
Respond(t) ==
    /\ At(t, "requested")
    /\ sessions' = IF Pooled(t) THEN [sessions EXCEPT ![task[t].key].cookies = TRUE] ELSE sessions
    /\ IF guard_on
       THEN task' = [task EXCEPT ![t].at = "reading"] /\ UNCHANGED <<registry, entries, cancelling>>
       ELSE LeaveHolding(t)

\* The body ends, grows over the limit or fails: the response is closed.
EndBody(t) ==
    /\ At(t, "reading")
    /\ task' = [task EXCEPT ![t].at = "closing"]
    /\ UNCHANGED <<sessions, registry, entries, cancelling>>

\* The response is closed, or the close is cancelled: the guard is left either way.
Close(t) ==
    /\ At(t, "closing")
    /\ LeaveHolding(t)
    /\ UNCHANGED sessions

\* The request fails or is cancelled before there is a response to close.
Abort(t) ==
    /\ MayFail
    /\ At(t, "sending") \/ At(t, "requested")
    /\ LeaveHolding(t)
    /\ UNCHANGED sessions

\* task.cancel() on a waiter, whether or not it has been woken already.
RequestCancel(t) ==
    /\ MayFail
    /\ At(t, "waiting") /\ t \notin cancelling
    /\ \E i \in 1 .. Len(EntryOf(t).lock.waiters) :
          /\ InQueue(t, i)
          /\ entries' = [entries EXCEPT ![task[t].entry].lock = CancelWaiter(@, i)]
    /\ cancelling' = cancelling \cup {t}
    /\ UNCHANGED <<sessions, registry, task>>

DeliverCancel(t) ==
    /\ At(t, "waiting") /\ t \in cancelling
    /\ \E i \in 1 .. Len(EntryOf(t).lock.waiters) :
          InQueue(t, i) /\ Leave(t, AbandonWaiter(EntryOf(t).lock, i))
    /\ UNCHANGED sessions

Begins(t) == \E k \in Keys \cup {NoKey}, h \in Hosts, clear \in Clears : Begin(t, k, h, clear)

Enters(t) == \/ EnterUnlocked(t)
             \/ \E e \in Entries : EnterTakes(t, e) \/ EnterWaits(t, e)

Proceeds(t) == \/ Enters(t) \/ Resume(t) \/ Send(t) \/ Respond(t)
               \/ EndBody(t) \/ Close(t) \/ DeliverCancel(t)

Next == /\ \E t \in Tasks : \/ Begins(t) \/ Proceeds(t)
                            \/ Refuse(t) \/ Abort(t) \/ RequestCancel(t)
        /\ UNCHANGED guard_on

Spec == Init /\ [][Next]_vars

\* The loop runs every task that is ready, and the network answers or fails.
FairSpec == Spec /\ \A t \in Tasks : WF_vars(Proceeds(t) /\ UNCHANGED guard_on)

--------------------------------------------------------------------------------
(* Properties.                                                                  *)

\* Types of the variables.
TypeOK ==
    /\ guard_on \in Guards
    /\ sessions \in [Keys -> Session]
    /\ DOMAIN registry \subseteq Keys /\ Range(registry) \subseteq Entries
    /\ \A e \in Entries : entries[e].lock \in LockType(Tasks) /\ entries[e].refs \in Nat
    /\ task \in [Tasks -> Active \cup {Idle}]
    /\ cancelling \subseteq Tasks

Performing(t) == task[t].at \in {"sending", "requested", "reading", "closing"}

\* Under the URL guard a pooled session serves one request at a time, from setting the
\* pins to closing the response, although the lock that serializes them is evicted and
\* made anew (http_client.py:175-178).
SessionExclusive ==
    guard_on => \A t, u \in Tasks : /\ Performing(t) /\ Performing(u)
                                   /\ task[t].key = task[u].key /\ task[t].key # NoKey
                                   => t = u

\* Every guarded request leaves with the pins of its own destination, whatever the other
\* tasks of its session do between its setting them and curl's reading them
\* (http_client.py:173-176, "so each keeps its own pin").
SentWithOwnPins ==
    guard_on => \A t \in Tasks : task[t].at \in {"requested", "reading", "closing"}
                                   => task[t].sent.pins = task[t].host

\* The refcount of a registered entry is the number of its holders and waiters, which is
\* never zero, and all of them found it under their own key: no key ever has two locks in
\* use, and the registry is empty when nothing is (http_client.py:176-178, 184-188).
RegistryMatchesTasks ==
    /\ \A k \in DOMAIN registry :
          /\ entries[registry[k]].refs = Cardinality(References(registry[k]))
          /\ References(registry[k]) # {}
    /\ \A t \in Tasks : ~At(t, "idle") /\ task[t].entry # NoEntry
                           => task[t].key \in DOMAIN registry /\ registry[task[t].key] = task[t].entry

\* A request that waits for its session gets it, or is cancelled.
EveryWaitEnds == \A t \in Tasks : At(t, "waiting") ~> ~At(t, "waiting")

\* A request with clear_session_cookies leaves with no cookie an earlier response set
\* (tools/request.py:33, "clear_session_cookies: Clear cookies before the request").
ClearedCookiesStayCleared ==
    \A t \in Tasks : task[t].at \in {"requested", "reading", "closing"} /\ task[t].clear
                        => ~task[t].sent.cookies
================================================================================
