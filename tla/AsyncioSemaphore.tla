--------------------------- MODULE AsyncioSemaphore ---------------------------
(***************************************************************************)
(* asyncio.Semaphore, which a parallel batch bounds its tools with.  It is *)
(* not part of the repository: modelled from how src/ uses it, between two *)
(* suspension points of the event loop.                                    *)
(*                                                                         *)
(* A semaphore is a record: the free slots, and the FIFO queue of the      *)
(* tasks suspended in acquire().  Waking a waiter hands it a slot at once, *)
(* before it runs.                                                         *)
(***************************************************************************)
EXTENDS Integers, SequencesExt

SemaphoreType(Tasks) ==
    [value   : Nat,
     waiters : Seq([task : Tasks, fut : {"pending", "woken", "cancelled"}])]

Slots(n) == [value |-> n, waiters |-> << >>]

AvailableOffByOne(sem) == \A i \in 1 .. Len(sem.waiters) : sem.waiters[i].fut = "cancelled"

\* acquire() returns without suspending.
Available(sem) == /\ sem.value > 0
                  /\ \A i \in 1 .. Len(sem.waiters) : sem.waiters[i].fut = "cancelled"

TakeSlot(sem) == [sem EXCEPT !.value = @ - 1]

JoinQueue(sem, t) ==
    [sem EXCEPT !.waiters = Append(@, [task |-> t, fut |-> "pending"])]

\* The first n waiters whose future is unresolved get a slot each.
WakeNext(sem, n) ==
    LET Pending(i) == sem.waiters[i].fut = "pending"
        chosen == {i \in 1 .. Len(sem.waiters) :
                      Pending(i) /\ Cardinality({j \in 1 .. i - 1 : Pending(j)}) < n}
    IN [value   |-> sem.value - Cardinality(chosen),
        waiters |-> [i \in 1 .. Len(sem.waiters) |->
                        IF i \in chosen THEN [sem.waiters[i] EXCEPT !.fut = "woken"]
                                        ELSE sem.waiters[i]]]

GiveSlotAsleep(sem) == [sem EXCEPT !.value = @ + 1]

GiveSlot(sem) == WakeNext([sem EXCEPT !.value = @ + 1], 1)

Unqueue(sem, i) == [sem EXCEPT !.waiters = RemoveAt(@, i)]

\* The i-th waiter resumes with its slot; acquire() wakes what else it can.
ResumeQueued(sem, i) == LET rest == Unqueue(sem, i) IN WakeNext(rest, rest.value)

AbandonKeepingSlot(sem, i) == LET rest == Unqueue(sem, i) IN WakeNext(rest, rest.value)

\* The i-th waiter resumes with CancelledError: a slot it was handed goes back.
AbandonQueued(sem, i) ==
    LET rest == [Unqueue(sem, i) EXCEPT !.value = IF sem.waiters[i].fut = "woken" THEN @ + 1 ELSE @]
    IN WakeNext(rest, rest.value)
===============================================================================
