----------------------------- MODULE AsyncioLock -----------------------------
(***************************************************************************)
(* asyncio.Lock, the standard-library lock that both the `cache` branch    *)
(* and the `request` tool serialize on.  It is not part of the repository: *)
(* it is modelled from how src/ uses it, at the granularity that matters   *)
(* to its users, the steps between two suspension points of the event      *)
(* loop.                                                                   *)
(*                                                                         *)
(* A lock is a record: the flag, and the FIFO queue of the tasks suspended *)
(* in acquire(), each with the state of the future it awaits.              *)
(***************************************************************************)
EXTENDS Integers, SequencesExt

FutureStates == {"pending", "woken", "cancelled"}

LockType(Tasks) == [locked  : BOOLEAN,
                    waiters : Seq([task : Tasks, fut : FutureStates])]

FreshLock == [locked |-> FALSE, waiters |-> << >>]

WaiterAt(lk, i) == i \in 1 .. Len(lk.waiters)

\* acquire() returns without suspending: nobody holds the lock and nobody is
\* due to, so a caller never overtakes a waiter that is still in the queue.
CanTake(lk) == /\ ~lk.locked
               /\ \A i \in 1 .. Len(lk.waiters) : lk.waiters[i].fut = "cancelled"

Take(lk) == [lk EXCEPT !.locked = TRUE]

Enqueue(lk, t) ==
    [lk EXCEPT !.waiters = Append(@, [task |-> t, fut |-> "pending"])]

\* Resolve the future of the head of the queue, if it is still unresolved.
WakeFirst(lk) == IF lk.waiters # << >> /\ lk.waiters[1].fut = "pending"
                 THEN [lk EXCEPT !.waiters[1].fut = "woken"]
                 ELSE lk

ReleaseForgettingToWake(lk) == [lk EXCEPT !.locked = FALSE]

Release(lk) == WakeFirst([lk EXCEPT !.locked = FALSE])

\* task.cancel() on the i-th waiter: an unresolved future is cancelled at
\* once, a resolved one stays resolved and only the task is marked.
CancelWaiter(lk, i) ==
    IF lk.waiters[i].fut = "pending"
    THEN [lk EXCEPT !.waiters[i].fut = "cancelled"]
    ELSE lk

LeaveQueue(lk, i) == [lk EXCEPT !.waiters = RemoveAt(@, i)]

\* The i-th waiter resumes from its resolved future and owns the lock.
ResumeWaiter(lk, i) == Take(LeaveQueue(lk, i))

AbandonForgettingToWake(lk, i) == LeaveQueue(lk, i)

AbandonAlwaysWaking(lk, i) == WakeFirst(LeaveQueue(lk, i))

\* The i-th waiter resumes with CancelledError: it hands a wake-up it may
\* have consumed to the next in line.
AbandonWaiter(lk, i) ==
    LET rest == LeaveQueue(lk, i)
    IN IF rest.locked THEN rest ELSE WakeFirst(rest)
==============================================================================
