----------------------------- MODULE BatchExecutor -----------------------------
(***************************************************************************)
(* The `batch` extension (_internal/extensions/batch_executor.py): one     *)
(* call that runs a tool once per param set, sequentially or as tasks of   *)
(* the event loop under a semaphore, with asyncio.gather collecting them.  *)
(* Items are the positions of the input.                                   *)
(***************************************************************************)
EXTENDS AsyncioSemaphore

CONSTANTS
    MaxItems,            \* longest input of the calls considered
    MaxBatchSize,        \* batch_settings().max_batch_size
    DefaultConcurrent,   \* batch_settings().default_max_concurrent
    Modes,               \* execution modes
    Caps,                \* values of max_concurrent
    NoCap,               \* max_concurrent = None
    FailFasts,           \* values of fail_fast
    MayCancel            \* the task of the call may be cancelled

ASSUME SizeAssumption == MaxItems \in Nat /\ MaxBatchSize \in Nat \ {0}
ASSUME DefaultAssumption == DefaultConcurrent \in Nat \ {0}
ASSUME CapsAssumption == Caps \subseteq Int \cup {NoCap} /\ NoCap \notin Int
ASSUME SwitchAssumption == FailFasts \subseteq BOOLEAN /\ MayCancel \in BOOLEAN

Items == 1 .. MaxItems

VARIABLES
    args,        \* the arguments of the call
    pc,          \* where the call is suspended
    item,        \* what each item is at
    sem,         \* the semaphore of a parallel call
    cancelling,  \* items whose task was cancelled and has not ended yet
    outer,       \* how gather resumes the call; "cancelled" when its result is lost
    stopping,    \* a cancellation of the call has cancelled the gather it awaits
    results      \* the list the call builds or returns

vars == <<args, pc, item, sem, cancelling, outer, stopping, results>>

Arguments == [mode : Modes, size : 0 .. MaxItems, cap : Caps, fail_fast : FailFasts]

\* An item is "idle" until a sequential call comes to it or a parallel one
\* makes its task, and ends as "ok", "error" (the exception is its result),
\* "failed" (it raised) or "cancelled".
Ended == {"ok", "error", "failed", "cancelled"}

Is(i, states) == item[i] \in states

ItemsAt(state) == {i \in Items : item[i] = state}

\* The concurrency of a parallel call; the default is floored to the input.
ConcurrentLimit(a) ==
    IF a.cap # NoCap THEN a.cap
    ELSE IF a.size = 0 THEN 1
    ELSE IF DefaultConcurrent < a.size THEN DefaultConcurrent ELSE a.size

\* The ValueErrors and the RuntimeError raised before anything runs.
Refused(a) == \/ a.size > MaxBatchSize
              \/ a.mode = "parallel" /\ a.cap # NoCap /\ a.cap < 1
              \/ a.mode \notin {"parallel", "sequential"}

Init == /\ args \in Arguments
        /\ pc = "called"
        /\ item = [i \in Items |-> "idle"]
        /\ sem = Slots(0)
        /\ cancelling = {}
        /\ outer = "pending"
        /\ stopping = FALSE
        /\ results = << >>

Refuse == /\ pc = "called" /\ Refused(args)
          /\ pc' = "raised"
          /\ UNCHANGED <<args, item, sem, cancelling, outer, stopping, results>>

--------------------------------------------------------------------------------
(* Sequential calls.                                                            *)

StartSequential == /\ pc = "called" /\ ~Refused(args) /\ args.mode = "sequential"
                   /\ pc' = "sequential"
                   /\ UNCHANGED <<args, item, sem, cancelling, outer, stopping, results>>

\* The next item of the comprehension, or its end.
StepSequential ==
    /\ pc = "sequential" /\ ItemsAt("running") = {}
    /\ IF Len(results) < args.size
       THEN item' = [item EXCEPT ![Len(results) + 1] = "running"] /\ UNCHANGED pc
       ELSE pc' = "returned" /\ UNCHANGED item
    /\ UNCHANGED <<args, sem, cancelling, outer, stopping, results>>

FailureAlways(a) == "failed"

\* How the exception of a tool leaves process_single.
FailureOf(a) == IF a.fail_fast THEN "failed" ELSE "error"

EndSequential(i) ==
    /\ pc = "sequential" /\ Is(i, {"running"})
    /\ \E r \in {"ok", FailureOf(args)} :
          /\ item' = [item EXCEPT ![i] = r]
          /\ IF r = "failed" THEN pc' = "raised" /\ UNCHANGED results
                             ELSE results' = Append(results, <<i, r>>) /\ UNCHANGED pc
    /\ UNCHANGED <<args, sem, cancelling, outer, stopping>>

CancelSequential(i) ==
    /\ MayCancel
    /\ pc = "sequential" /\ Is(i, {"running"})
    /\ item' = [item EXCEPT ![i] = "cancelled"]
    /\ pc' = "raised"
    /\ UNCHANGED <<args, sem, cancelling, outer, stopping, results>>

--------------------------------------------------------------------------------
(* Parallel calls: the tasks.                                                   *)

\* The tasks are made and gathered; an empty gather is done at once.
StartParallel ==
    /\ pc = "called" /\ ~Refused(args) /\ args.mode = "parallel"
    /\ pc' = "gathering"
    /\ sem' = Slots(ConcurrentLimit(args))
    /\ item' = [i \in Items |-> IF i <= args.size THEN "new" ELSE "idle"]
    /\ outer' = IF args.size = 0 THEN "result" ELSE "pending"
    /\ UNCHANGED <<args, cancelling, stopping, results>>

\* A task's first step, in the order the tasks were made: it takes a slot and
\* runs the tool, or queues for one.
FirstStep(i) ==
    /\ Is(i, {"new"}) /\ \A j \in 1 .. i - 1 : ~Is(j, {"new"})
    /\ i \notin cancelling
    /\ IF Available(sem)
       THEN sem' = TakeSlot(sem) /\ item' = [item EXCEPT ![i] = "running"]
       ELSE sem' = JoinQueue(sem, i) /\ item' = [item EXCEPT ![i] = "queued"]
    /\ UNCHANGED <<args, pc, cancelling, outer, stopping, results>>

QueuedAt(i, n) == /\ Is(i, {"queued"}) /\ n \in 1 .. Len(sem.waiters)
                  /\ sem.waiters[n].task = i

\* The tasks take their first steps in one turn of the loop, and nothing else runs
\* among them but a tool that does not suspend, which ends in the step that began it.
AllStepped == ItemsAt("new") = {}

MayEnd(i) == AllStepped \/ i + 1 \in ItemsAt("new")

\* A woken task runs the tool.
Resume(i) ==
    /\ AllStepped /\ i \notin cancelling
    /\ \E n \in 1 .. Len(sem.waiters) : /\ QueuedAt(i, n)
                                        /\ sem.waiters[n].fut = "woken"
                                        /\ sem' = ResumeQueued(sem, n)
    /\ item' = [item EXCEPT ![i] = "running"]
    /\ UNCHANGED <<args, pc, cancelling, outer, stopping, results>>

GatheredFirst(i, r) ==
    IF outer # "pending" THEN outer
    ELSE IF r \in {"failed", "cancelled"} \/ stopping THEN "exception" ELSE "result"

\* gather's callback for a task that ended as r: the first exception resolves
\* the outer future, and so does the end of the last task.
Gathered(i, r) ==
    LET all == \A j \in 1 .. args.size : j = i \/ Is(j, Ended)
    IN IF outer # "pending" THEN outer
       ELSE IF r \in {"failed", "cancelled"} \/ (all /\ stopping) THEN "exception"
       ELSE IF all THEN "result" ELSE "pending"

EndTask(i, r) == /\ item' = [item EXCEPT ![i] = r]
                 /\ cancelling' = cancelling \ {i}
                 /\ outer' = Gathered(i, r)

\* The tool returns or raises, or is cancelled; the slot is given back.
EndParallel(i) ==
    /\ pc \in {"gathering", "draining"} /\ Is(i, {"running"}) /\ MayEnd(i)
    /\ \E r \in {"ok", FailureOf(args)} \cup (IF i \in cancelling THEN {"cancelled"} ELSE {}) :
          EndTask(i, r)
    /\ sem' = GiveSlot(sem)
    /\ UNCHANGED <<args, pc, stopping, results>>

\* A cancelled task that never ran the tool ends in its first step or in acquire().
EndCancelled(i) ==
    /\ i \in cancelling
    /\ \/ /\ Is(i, {"new"}) /\ \A j \in 1 .. i - 1 : ~Is(j, {"new"})
          /\ UNCHANGED sem
       \/ /\ AllStepped
          /\ \E n \in 1 .. Len(sem.waiters) : QueuedAt(i, n) /\ sem' = AbandonQueued(sem, n)
    /\ EndTask(i, "cancelled")
    /\ UNCHANGED <<args, pc, stopping, results>>

--------------------------------------------------------------------------------
(* Parallel calls: the caller.                                                  *)

Unended == {i \in Items : Is(i, {"new", "queued", "running"})}

NotStarted == {i \in Items : Is(i, {"new", "queued"})}

\* task.cancel() on a set of tasks: those in acquire() have their futures cancelled.
CancelTasks(S) ==
    /\ cancelling' = cancelling \cup S
    /\ sem' = [sem EXCEPT !.waiters =
                  [n \in 1 .. Len(@) |-> IF @[n].task \in S /\ @[n].fut = "pending"
                                         THEN [@[n] EXCEPT !.fut = "cancelled"] ELSE @[n]]]

\* Every item has its result, in the order of the input.
Return ==
    /\ pc = "gathering" /\ outer = "result"
    /\ results' = [i \in 1 .. args.size |-> <<i, item[i]>>]
    /\ pc' = "returned"
    /\ UNCHANGED <<args, item, sem, cancelling, outer, stopping>>

\* The first exception reaches the call: cancel the siblings, then drain them.
AbortSparingQueued ==
    /\ pc = "gathering" /\ AllStepped /\ outer \in {"exception", "cancelled"}
    /\ CancelTasks(ItemsAt("running"))
    /\ pc' = "draining"
    /\ UNCHANGED <<args, item, outer, stopping, results>>

AbortAndRaise ==
    /\ pc = "gathering" /\ AllStepped /\ outer \in {"exception", "cancelled"}
    /\ CancelTasks(Unended)
    /\ pc' = "raised"
    /\ UNCHANGED <<args, item, outer, stopping, results>>

Abort ==
    /\ pc = "gathering" /\ AllStepped /\ outer \in {"exception", "cancelled"}
    /\ CancelTasks(Unended)
    /\ pc' = "draining"
    /\ UNCHANGED <<args, item, outer, stopping, results>>

Raise ==
    /\ pc = "draining" /\ Unended = {}
    /\ pc' = "raised"
    /\ UNCHANGED <<args, item, sem, cancelling, outer, stopping, results>>

\* The call itself is cancelled while it gathers, or while it drains.  A pending
\* gather cancels its tasks and resolves when they end; a resolved one only loses
\* its result.
CancelCall ==
    /\ MayCancel
    /\ \/ /\ \/ pc = "gathering" /\ outer = "pending" /\ ~stopping
             \/ pc = "draining" /\ Unended # {}
          /\ stopping' = TRUE /\ CancelTasks(Unended)
          /\ UNCHANGED outer
       \/ /\ pc = "gathering" /\ outer \in {"result", "exception"}
          /\ outer' = "cancelled"
          /\ UNCHANGED <<cancelling, sem, stopping>>
    /\ UNCHANGED <<args, pc, item, results>>

TaskStep(i) == \/ FirstStep(i) \/ Resume(i) \/ EndCancelled(i)
               \/ EndParallel(i) \/ EndSequential(i)

CallStep == \/ Refuse \/ StartSequential \/ StepSequential \/ StartParallel
            \/ Return \/ Abort \/ Raise

\* The call is over: the one way the system stops.
Over == pc \in {"returned", "raised"} /\ UNCHANGED vars

Next == \/ CallStep \/ Over
        \/ CancelCall
        \/ \E i \in Items : TaskStep(i) \/ CancelSequential(i)

Spec == Init /\ [][Next]_vars

\* The loop runs every task that is ready and the tools end.
FairSpec == Spec /\ WF_vars(CallStep) /\ \A i \in Items : WF_vars(TaskStep(i))

--------------------------------------------------------------------------------
(* Properties.                                                                  *)

\* Types of the variables.
TypeOK ==
    /\ args \in Arguments
    /\ pc \in {"called", "sequential", "gathering", "draining", "returned", "raised"}
    /\ item \in [Items -> {"idle", "new", "queued", "running"} \cup Ended]
    /\ sem \in SemaphoreType(Items)
    /\ cancelling \subseteq Items
    /\ outer \in {"pending", "result", "exception", "cancelled"}
    /\ stopping \in BOOLEAN
    /\ \A n \in 1 .. Len(results) : results[n] \in Items \X {"ok", "error"}

\* No slot of the semaphore is lost or made up by tasks that end, fail or are cancelled
\* in the queue or just after they were woken: every slot is free, held by a running
\* tool, or on its way to a woken task.
SlotsConserved ==
    pc \in {"gathering", "draining"} =>
        sem.value + Cardinality(ItemsAt("running"))
                  + Cardinality({n \in 1 .. Len(sem.waiters) : sem.waiters[n].fut = "woken"})
           = ConcurrentLimit(args)

\* A slot is free while a task sleeps only on its way there: a task that was woken
\* before passes on what else is free as it resumes, or gives its slot back.
NoIdleSlot ==
    sem.value > 0 /\ (\E n \in 1 .. Len(sem.waiters) : sem.waiters[n].fut = "pending")
        => \E n \in 1 .. Len(sem.waiters) : sem.waiters[n].fut = "woken"

\* When the call is over so are its tasks: nothing it started outlives it
\* (batch_executor.py:72, "cancel in-flight siblings and drain before re-raising").
NothingOutlivesTheCall == pc \in {"returned", "raised"} => Unended = {}

\* A call that returns has one result per param set, in the order of the input, and none
\* of them is of an item that failed fast (batch_executor.py:41, 43-45).
ReturnsAllInOrder ==
    pc = "returned" => /\ Len(results) = args.size
                       /\ \A n \in 1 .. args.size : results[n] = <<n, item[n]>>
                       /\ args.fail_fast => \A n \in 1 .. args.size : results[n][2] = "ok"

\* With fail_fast=False an accepted call that nobody cancels returns, whatever its items
\* raise (batch_executor.py:44-45).
FailuresFillTheirSlots ==
    pc = "raised" /\ ~args.fail_fast => \/ Refused(args) \/ ItemsAt("cancelled") # {}
                                    \/ stopping \/ outer = "cancelled"

\* The call keeps the contract of a batch: the bound on concurrent runs, no run begun by
\* a call that aborts, and no return or raise before its time.
Phase == IF pc \in {"called", "sequential"} \/ (pc = "gathering" /\ ~stopping)
         THEN "open"
         ELSE IF pc \in {"gathering", "draining"} THEN "aborting" ELSE pc

Contract == INSTANCE BatchContract WITH
    size      <- args.size,
    limit     <- IF args.mode = "parallel" THEN ConcurrentLimit(args) ELSE 1,
    fail_fast <- args.fail_fast,
    phase     <- Phase,
    status    <- [i \in Items |-> IF Is(i, {"idle", "new", "queued"}) THEN "waiting" ELSE item[i]]

KeepsContract == Contract!Spec

\* The call ends, however its items end, fail or are cancelled.
CallEnds == <>(pc \in {"returned", "raised"})

\* Once an item has failed fast, none that queues for a slot is given one to run its tool
\* (extensions/batch.py:80, "fail_fast: Stop on first error if True; otherwise continue").
StopsOnFirstError ==
    [][ItemsAt("failed") # {} => \A i \in Items : Is(i, {"queued"}) => ~Is(i, {"running"})']_vars
================================================================================
