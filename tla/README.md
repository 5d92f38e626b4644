# tai42-toolbox in TLA+

A verification development for `src/tai42_toolbox`: models of the parts of the
toolbox where several tasks, a proxy or an earlier call can get in each other's
way, TLC configurations that check them, and TLAPS proofs, for every size, of
the safety of the cache, the request tool, the batch, the CONNECT negotiation,
the routes and the stacks of extensions. Paths below are relative to `src/tai42_toolbox/`.

## The system

The toolbox is a plugin: *extensions* that wrap a tool of the host application
into a new one, and a few *tools*. Everything runs on one asyncio event loop, so
a task is interrupted only where it awaits something that really suspends; that
is the granularity of every model here (one action = the code between two
suspension points). Nothing is persisted: a restart loses all state.

| component | source | state | operations | hard part |
|---|---|---|---|---|
| cache extension | `extensions/cache.py`, `_internal/extensions/cache_store.py` | per branch: an LRU dictionary with expiries, a registry of per-key locks | `wrapper`, `read`, `write`, `key_lock`, `drop_lock` | callers that wait, fail, are cancelled, or find the value gone again |
| request tool | `tools/request.py`, `_internal/tools/http_client.py` | pooled sessions (cookie jar, RESOLVE pins), refcounted lock per session key | `perform_request`, `_session_guard`, `_perform_pinned` | options set on a shared session and read by curl after an await |
| batch extension | `extensions/batch.py`, `_internal/extensions/batch_executor.py` | tasks, a semaphore, the gather | `execute_batch` | fail-fast and cancellation while items queue, run and are woken |
| proxy: CONNECT | `_internal/extensions/socket_routing.py` | descriptor, timeouts, buffer, deadline | `RoutingSocket._connect_via_http_proxy` | a proxy that does anything at any phase |
| proxy: routes | `_internal/extensions/proxy_context.py`, `socket_routing.py`, `extensions/proxy.py` | `active_route` in every context, the route of every socket | `build_route`, `route`, `RoutingSocket.__new__/__init__/connect` | nested calls, inherited contexts, sockets that outlive calls |
| stacks: signature, prometheus_metrics, chain, output_schema, and the factories of the others | `extensions/`, `_internal/extensions/` | signatures, counters, cached values | `with_added_params`, the factories, the wrappers | any order of layers; failures and cancellations between two steps |
| tools under a stack | `tools/generate_embeddings.py`, `tools/pad_embeddings.py` | none | one call | widths at the boundary |
| other tools | `tools/generate_uuid.py`, `tools/current_time_info.py` | none | one expression | none |

What makes each correct: the *cache* computes a key once unless the value was
lost, never loses a wake-up, keeps its cap; the *request tool* sends every
request with its own pins and one at a time per session, and its registry is
exact; the *batch* respects the bound, returns everything in order and leaves
nothing running; the *CONNECT negotiation* ends in bounded time and memory,
without a leaked descriptor or a left-over timeout; *routes* follow the calls,
and no connection escapes the operator's pool or the guard; a *stack* can be
bound unless two layers claim one name or a batch cannot read the annotations
below it, hands every layer its arguments, counts what happened, and answers with
what the tool answered to those arguments (through a cache: to arguments
that may differ from them in secrets), of the width that was asked for. Hazards, each at
its line with the properties that cover it, are in `PROJECT.json`.

## Modules

| module | models |
|---|---|
| `AsyncioLock`, `AsyncioSemaphore` | the standard library's lock and semaphore, as operators on a record: a flag or a count, and the FIFO queue with the state of each waiter's future. External to the repository; both follow CPython's order of waking, cancelling and handing on. |
| `Ordering` | a finite set under a strict linear order, as the sequence of its elements. |
| `CacheStore` | the store: `expiry` (a function on the stored keys) and `older` (the recency order of the `OrderedDict`, as a strict order). `Read`, `Written`, eviction and expiry are operators. |
| `CacheBranch` | concurrent calls of one branch, on `CacheStore` and `AsyncioLock`. |
| `LruCache` | abstract: a bounded map in recency order with expiry, as a sequence. |
| `PooledRequest` | the request tool, on `AsyncioLock`. |
| `BatchExecutor` | one `execute_batch`, sequential or parallel, on `AsyncioSemaphore`. |
| `BatchContract` | abstract: what a batch promises about the tool's runs. |
| `ConnectHandshake` | the negotiation with an HTTP(S) proxy. |
| `ProxyCall` | choosing a proxy, routes over tasks, sockets. |
| `ToolStack` | extensions stacked on a tool: binding, then calls. |
| `*_proofs` | the theorems. `CacheBranch_proofs` uses the lemmas of `CacheStore_proofs` and `AsyncioLock_proofs`; the request tool's and the batch's use those on locks and sequences of `AsyncioLock_proofs`. |
| `MC*` | symmetry sets; for `ToolStack` its tools and the items of its batches. |

State and actions, and what they stand for:

- **CacheBranch.** `store`, `key_locks` are the fields of `CacheStore`; `locks`
  the lock objects (an identity nobody refers to may be reused, as a garbage
  object's may); `call[c]` the awaits of `wrapper` a task can be in: `acquire()`
  or the tool. `CallHit`, `CallComputes`, `CallWaits`, `CallSync` are a call up
  to its first suspension; `ResumeHit`, `ResumeComputes` a waiter that was woken;
  `Finish`, `Abort` the end of the tool; every way out runs `Leave`, the
  `finally` that drops whichever lock is registered. Cancelling is two steps, as
  in asyncio: `RequestCancel` marks, `DeliverCancel` raises. `answered`,
  `used` and `lost` (by `Recorded`) are histories; `used` makes a hit visible to
  `LruCache`, so that a hit that forgot to touch its entry would be no stutter. `None` and
  non-positive TTLs both mean no expiry, and the runs use both.
- **PooledRequest.** `registry` and `entries` are `_session_locks` and its
  `[lock, refcount]` lists; `sessions` what the external pool shares under a
  key. `sending` is the time between the call of `request()` and curl's reading
  of the options; the body's chunks are one `EndBody`. Resolution and validation
  of hosts are `Begin` and `Refuse`; whether a host is acceptable is left to
  the URL guard, which is a library.
- **BatchExecutor.** `item` is where each task is; `outer` how `gather` will
  resume the call. That gather reacts to an ended task in the same step, though
  the callback runs one loop turn later, is an abstraction; that the *call*
  is resumed later than that is kept, and is what `batch_fail_fast` shows.
  All tasks take their first steps in one turn of the loop, in the order they
  were made: until then (`AllStepped`) nothing else happens, but that the tool of
  the task whose step it is ends without having suspended (`MayEnd`). The call can be
  cancelled while it gathers and, again, while it drains. `NoIdleSlot` is the semaphore's liveness as
  a state predicate: a free slot and a sleeping task coexist for as long as a
  task that was woken before has yet to resume, and that one passes on what is
  free. (A newcomer queues behind a woken task even if another slot is free.)
- **ConnectHandshake.** `pc` is the blocking call under way; each takes any time
  up to the timeout of the object it is made on. `owns` are the objects with an
  open descriptor: `wrap_socket()` moves it from `self` to `tls`. Parsing of the
  status line is `Established` (a 200) or `Fails`. Name resolution takes no time.
  `Rejected` is what raises before the `try`: an address that is no pair, or
  whose name does not resolve; the socket stays the caller's, open and as it
  was. `CallerCloses` ends a tunnel, or closes a rejected socket: behind an
  HTTPS proxy `close` is by then that of the TLS object.
- **ProxyCall.** `active`, `tokens` are the contextvar in each task's context
  and the tokens of its `with route(...)` blocks; `sock` the route and class an
  object captured. `calls` and `owner` are histories: which call a task or socket
  belongs to. The choice is any candidate (`random.choice`); a host's name may
  resolve to anything at every connection, an address the guard has accepted is
  fixed. `FirstSent` walks the method resolution order, with PySocks's
  `connect()` (external) modelled as negotiating over `super().connect()`.

- **ToolStack.** `Bind*` are the factories, each composing the signature of its
  wrapper (`WithAddedParams`) and refused where `inspect.Signature` would be; a
  factory that raises ends the binding. A batch also evaluates the annotations of
  what it is bound over, and makes fields of them (`BindBatch`). An annotation is
  a value, or a string: of a name every extension with a return type of its own
  imports (`Any`, as in `generate_embeddings`), or of one that only the tool's module has. A
  function makefun made has the globals of its extension's module, so which
  strings a batch cannot evaluate (`Foreign`) depends on the layer right below
  it; a parameter that pydantic takes for no field is `unfit`. `stack` is the chain of wrappers that are
  suspended in one another, one call at a time: an action takes the call of one
  layer to its next call, or its outcome to the layer above. Arguments go down as
  makefun passes them, all by keyword, each layer taking out its control kwargs;
  a `**kwargs` becomes one field of a batch's input model. An answer is the set
  of widths of its vectors, with `ErrorText` for an item whose failure a batch
  made a value. A cache layer that has the value may still miss it, as it may have
  expired or been evicted. Its key (`KeyOf`) is the arguments with `str()` in the place of what
  `json.dumps` cannot encode: all `Secrets` print alike, and so do the items of a batch
  that differ in nothing else. `json.dumps` may also fail (`KeyFails`). The batch in a stack is sequential and within its
  size limit; what a parallel one does is `BatchExecutor`, as concurrent calls in
  a cache and under a proxy are `CacheBranch` and `ProxyCall`. The chain's next
  tool is `pad_embeddings`, jq takes all vectors or the first. `given`, `made`
  and `ended` are histories. Several factories and wrappers do the same with their
  control kwargs; `Controls`, `Taken` and `Passed` stand for all of them, and
  their map entries name one.

Operators that carry the name of a slip (`ReleaseForgettingToWake`,
`DropLockIfUncontended`, `LeaveClearing`, ...) stand before the definition they
deviate from and are used by nothing. Each is a plausible bug in that code; put
in place of the definition, it makes one property fail, so each property has
been seen to fail for a reason.

## What the runs show

| run | checks | instance |
|---|---|---|
| `cache_faults` | types; a lock is locked exactly while one caller computes under it; no lost wake-up; registered locks are held; no key is both stored and registered; the cap; one run per key, and no re-run by a waiter, unless the value was lost; the store implements `LruCache` | 3 callers, 3 keys, 3 locks, cap 2, TTL 0 (no expiry) or 1, clock to 2, coroutine or plain tool, failures and cancellations |
| `cache_liveness` | every wait for a lock ends | 3 callers, 2 keys, cap 1, failures and cancellations |
| `cache_stampede` | **violated**: single-flight without reservation | the documented claim |
| `request_tool` | types; one request at a time per session; own pins; registry and refcounts exact; waits end | 3 tasks, one key or none, 2 hosts, 2 entries, guard on or off, failures and cancellations |
| `request_cookies` | **violated**: a request that clears cookies leaves without any | 2 tasks, no failures |
| `batch_call` | types; slots conserved; no slot idle beside a sleeping task; nothing outlives the call; results in order; failures fill their slots; implements `BatchContract`; the call ends | up to 6 items, maximum batch size 5, caps none, 0, 1, 2, 3, both modes and an unknown one, fail-fast or not, cancellation, also while draining; 54,884 states |
| `batch_fail_fast` | **violated**: nothing starts after a failure | 2 items, cap 1: the second is queued when the first fails |
| `connect_handshake` | types; no leaked descriptor; the caller's timeout back; buffer and duration bounded; it ends | `connect_timeout` 3, header cap 3, `recv` up to 2, caller's timeout none, 0, 1, 4 |
| `connect_deadline` | **violated**: the negotiation ends by its deadline | the same |
| `proxy_call` | types; the active route is that of the innermost call; a socket keeps the route of the call it was made in; the pool policy; the guard | 2 tasks, nesting 2, one socket, four URLs, every policy |
| `tool_stack` | types; a bind is refused only for a clash of names, a bad schema, or a batch over annotations it cannot read; each layer gets the arguments of its signature; the counters match what happened; widths are as asked; an answer is the tool's to the same arguments or, through a cache, to arguments that differ in secrets alone | up to 3 extensions of six kinds over 5 tool signatures, 2 secrets, 2 calls, widths 0, 2, 3 against 2, batches of none or two items, failure or cancellation at every layer that can have one; 3,103,831 states |
| `proxy_socks` | **violated**: a SOCKS proxy hears SOCKS | 1 task, 1 socket |

*Bounds.* Three callers are a holder, a waiter that was woken and one that is
still asleep or a newcomer, the most a hand-over involves; three keys over a cap
of two give full stores and a choice of victim. A clock of two sees an entry
live, at its expiry, and written again. In the request tool two entries allow a
lock to be evicted and made anew while the old one is in use, if that could
happen. Six items against a maximum of five reach the refusal, and five under
caps 1 to 3 have running, woken and sleeping items at once, several of each, and
a newcomer that queues behind a woken one beside a free slot: with three
accepted items no slot is ever free while a task sleeps, with more it may be.
Three layers put each extension between two others, or between two metrics
layers; two calls make a cached answer, and with two secrets one for each of two calls
that have one key; the five signatures have every kind of annotation, a `**kwargs`
and a name that an extension adds; the widths are the exact one, a wider
one, and that of a vector without components. Times of 0 to
3 and a `recv` of up to 2 against a cap of 3 reach every comparison from both
sides. Symmetry (permutations of actors and of names) is used only in safety
runs.

*Fairness.* Weak fairness on each task's steps: an event loop runs every ready
task, and a lock's queue is FIFO. The wrapped tool, curl and the peer are assumed
to end or fail; the negotiation's blocking calls end with their timeouts. Callers
need not call, and nothing requires that faults occur.
Deadlock is checked in every run; a finished batch or negotiation stutters in
`Over`.

## What is proved

With TLAPS, for every value of the constants, from the `ASSUME`s of the modules,
which restate what constructors and settings validate (a cap and a clock are
naturals, a timeout is positive, there is at least one slot by default) and say
that names for "none" are not values. Each proof has one lemma per action; the theorems are its conjuncts.

- **Cache** (`CacheBranch_proofs`): `Typing`, `MutualExclusion`,
  `WakeUpsAreKept`, `RegistryIsLive`, `NoValueUnderLock`, `Bounded`. They follow
  from one inductive invariant, `IInv`. Mutual exclusion alone is not inductive:
  a woken waiter takes its lock, so the invariant says that each lock is `Sound`
  (only the head of the queue is ever woken, only while the lock is free, and a
  free lock's head is never asleep). The cap alone is not either: eviction spares
  keys with a registered lock, so one needs that no stored key has one
  (`LockedKeysHaveNoValue`), which in turn needs that whoever writes drops the
  key's lock, and that a call which leaves for another reason writes nothing.
  Lemmas on queues are in `AsyncioLock_proofs`, on recency and eviction in
  `CacheStore_proofs`.
- **Single-flight** (`CacheBranch_proofs`): `OneFlight`, `NoRepetition`. The
  invariant `FInv`, on top of `IInv`, says where the callers of a key that is not
  lost are: while its value is stored they only wait, and until then they are all
  on the one lock that is registered for it, and none has been answered. Two
  runs of one key would then hold one lock.
- **The store as an LRU map** (`CacheBranch_proofs`): `StorageRefines`, the
  branch implements `LruCache`. The mapping makes a sequence of the store: its
  keys by recency. That the sequence exists, and is the only one in that order,
  is proved without induction: the place of a key is the number of keys older
  than it, plus one (`InOrderEnumerates`, `EnumerationUnique`, on finite
  cardinalities). Then what each operation does to the set and its order fixes
  what it does to the sequence: a hit moves one item to the end, a read that
  finds an expired entry takes it out, a write keeps the live others, but for
  the first when they fill the map. The last needs two parts of `IInv`: with
  `LockedKeysHaveNoValue` eviction, which skips registered keys, skips none that
  is stored, and with `CapRespected` one eviction is enough.
- **Request tool** (`PooledRequest_proofs`): `Typing`, `RegistryIsExact`,
  `Exclusion`, `OwnPins`. The invariant says, beside the queues being sound, that
  a refcount is the number of tasks in the guard, that two keys never have one
  entry, and where each task stands with its lock. A request is sent with its own
  pins because a lock that is free has no holder: whoever wrote the pins since
  holds it still.
- **Routes** (`ProxyCall_proofs`): `Typing`, `RoutesFollowCalls`,
  `SocketsKeepRoutes`, `PoolIsRespected`, `GuardIsRespected`. The tokens of a
  task must be exactly the routes that its blocks covered; then leaving a block
  restores the route of the call around it.
- **Batch** (`BatchExecutor_proofs`): `BatchTypes`, `SlotsKept`, `NoLostWakeup`,
  `Drained`, `CompleteAndInOrder`, `FailuresAreResults`, and `ContractKept`: the
  batch implements `BatchContract`, step by step. Every operation of the
  semaphore has a lemma on the slots no tool holds (`Spare`) and on who sleeps
  beside a free one (`Busy`). The invariant `BInv` adds what a sequential call
  knows of the items behind it, and what `outer` says of how tasks ended. For the
  refinement one also needs that a call that aborts has cancelled every task it
  waits for, and no other call has cancelled any (`AbortsAll`): otherwise a
  queued task could begin in a call that aborts.
- **CONNECT** (`ConnectHandshake_proofs`): `Typing`, `NoLeak`, `Restored`,
  `Capped`, `Overrun`. The invariant adds what each phase knows (`Phase`): who
  owns the descriptor, and that time spent plus the timeout of the call under way
  is within twice the limit.

- **Stacks** (`ToolStack_proofs`), for any number of layers and calls, any tool,
  and any widths: `Typing`, `RefusedForCause`, `ArgumentsAlwaysArrive`,
  `MetricsAlwaysMatch`, `WidthsAlwaysAsAsked`, `AnswersAlwaysOfAlikeCalls`. None of the
  properties is inductive. A layer is bound, and called, with what the one
  beside it has, so the invariant `Inv` says what holds between neighbours, and
  the properties, which are about layers far apart, follow through the layers
  between them.
  - Signatures (`SigsOK`): each is one that `inspect.Signature` accepts; it is that
    of the layer below with the names the extension adds (`Composes`), or a
    batch's; every name in it is the tool's, or was added by a layer with no
    batch over it (`HasSource`). Hence a name refused is one that two layers claim. And the
    annotations a batch may stumble on (`Written`) are those of the tool, until
    the first batch; hence one refused for them (`Blocked`) is over a tool that
    has them.
  - Calls (`StackOK`): those under way are of the layers from the outermost one
    down without a gap, each waiting for the next, and only a chain may wait for
    its next tool.
  - Counters (`MetricsOK`): two metrics layers agree except while an outcome is
    between them (`InFlight`), when the lower has counted it and the upper not
    yet; nothing is counted before calls start (`QuietBefore`).
  - Widths (`WidthsOK`): not only what comes out, also what each sealed layer has
    cached, gathered or has on its way up.
  - Where answers are from (`OriginOK`, beside `Inv`, in `OriginInvariance`): a
    call under way asks the tool for the same arguments as the call it is made in
    (or some of them, in a batch); what a cache has kept under a key may answer
    every call of that layer with the key; what a batch has gathered and what is on its way
    up is what the layer may answer to its own arguments. The value in a cache is
    of one call and handed, later, to another. Their arguments may differ in the
    names taken out above the cache, and in what prints alike; so one needs that
    calls with one key ask the tool for arguments that differ in secrets alone,
    also through a batch below (`KeyAsks`, `KeyHidesSecrets`, `KeyDecides`).

Which property of which run each theorem states is in `PROJECT.json`. The
stacks' `Inv`, and `OriginOK` but for what it says of all arguments with one key,
also hold on the instance of `tool_stack`.

Only model-checked: liveness (every wait ends, the batch and the negotiation
end), which is beyond this prover. The violations are TLC's counterexamples.

## Where code and documentation part

1. `cache_stampede` — a call that fails drops the key's lock although others wait
   on it; the next caller makes a second lock, and two runs of the tool overlap
   (`cache.py:51`). With failures, cancellations, expiry and eviction excluded,
   single-flight holds (`SingleFlightUnlessLost` says exactly when).
2. `request_cookies` — the jar is cleared before the session's lock is waited for
   (`http_client.py:276`), and the request ahead refills it.
3. `batch_fail_fast` — an item that waits for a slot gets that of the one that
   fails, and its tool starts before the call is resumed to cancel it
   (`batch_executor.py:76`).
4. `connect_deadline` — `sendall()` runs under a timeout that was current before
   the connect or the handshake (`socket_routing.py:128`), so the negotiation
   takes up to twice `connect_timeout`.
5. `proxy_socks` — `socks.socksocket.connect` calls `super().connect()`, which is
   `RoutingSocket.connect`: the SOCKS proxy is sent an HTTP `CONNECT`
   (`socket_routing.py:226`). The repository's tests replace
   `socksocket.connect`, or use a proxy that never answers, so none gets this far.

One more, which is in the model and has no run of its own: the key of a cached
call has `str()` of what JSON cannot encode, and that is the same for any two
`SecretStr`. A call with one secret is answered with the value cached for
another (`cache_store.py:41`), where `cache.py:3` says that results are memoized
by call arguments, and `cache.py:7` rules out a wrong result.
`AnswersAreOfAlikeCalls` therefore allows secrets to differ, and only them; that
allowance is defined on the arguments (`WithoutSecrets`), not by the key.

## Not modelled

- Of the stack: the run-time histogram (a difference of wall-clock times, which
  can be negative) and the counters' labels; the module attribute under which
  `batch.py:42` leaves its input model; pydantic's validation and coercion of
  values; schemas beyond one that asks for a width; jq beyond taking all or the
  first.
- Of the cache's key: what else prints alike (a `datetime` and the string of it,
  fields with `repr=False`) or is encoded alike (an integer and a string as the
  key of a dictionary, a tuple and a list). Secrets and batch items stand for all of these.
- Of the request tool: the URL guard's decision (a library; it may refuse),
  serialization, decoding and the size limit of bodies.
- Of proxies: the parsing of a URL into its parts, beyond well-formed or not; the
  time a SOCKS negotiation takes; what a caller does with an established socket
  other than closing it (behind an HTTPS proxy `fileno()` and the like reach
  the object without the descriptor: `socket_routing.py:155`); that a blocking
  negotiation blocks the event loop.
- `generate_embeddings`' choice of provider and model; `generate_uuid` and
  `current_time_info`: single expressions over libraries and the clock.
- Packaging, the plugin manifest and release configuration: no behaviour at run
  time.

## Plan

Modelled and proved in order of weight: the cache (several actors, two
structures that must agree), the request tool (shared session), the batch
(fan-out), the negotiation, the routes, and the stack that composes them. What
is left, none of it needed by the above:

1. A parallel batch inside a stack, and a cache under one: the composition of
   `BatchExecutor` with `CacheBranch`.
2. The SOCKS socket's injected timeout.
