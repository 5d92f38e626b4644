-------------------------- MODULE AsyncioLock_proofs --------------------------
(***************************************************************************)
(* What every operation on an asyncio.Lock preserves, for any set of tasks *)
(* and a queue of any length.                                              *)
(***************************************************************************)
EXTENDS AsyncioLock, SequenceTheorems, TLAPS

\* Only the head of the queue is ever woken, and only while the lock is free;
\* a free lock never leaves a sleeping head behind.
Sound(lk) ==
    /\ \A i \in 1 .. Len(lk.waiters) :
          lk.waiters[i].fut = "woken" => i = 1 /\ ~lk.locked
    /\ ~lk.locked /\ lk.waiters # << >> => lk.waiters[1].fut # "pending"

\* Removing an element shifts the later ones down by one.
LEMMA RemoveAtProperties ==
    ASSUME NEW S, NEW s \in Seq(S), NEW i \in 1 .. Len(s)
    PROVE  /\ RemoveAt(s, i) \in Seq(S)
           /\ Len(RemoveAt(s, i)) = Len(s) - 1
           /\ \A j \in 1 .. Len(s) - 1 :
                 RemoveAt(s, i)[j] = IF j < i THEN s[j] ELSE s[j + 1]
<1> DEFINE front == SubSeq(s, 1, i - 1)
           back  == SubSeq(s, i + 1, Len(s))
<1>1. /\ front \in Seq(S) /\ Len(front) = i - 1
      /\ \A j \in 1 .. i - 1 : front[j] = s[j]
  BY SubSeqProperties
<1>2. /\ back \in Seq(S) /\ Len(back) = Len(s) - i
      /\ \A j \in 1 .. Len(s) - i : back[j] = s[i + j]
  BY SubSeqProperties
<1>3. /\ front \o back \in Seq(S)
      /\ Len(front \o back) = Len(front) + Len(back)
      /\ \A j \in 1 .. Len(front) + Len(back) :
            (front \o back)[j] = IF j <= Len(front) THEN front[j] ELSE back[j - Len(front)]
  <2> HIDE DEF front, back
  <2> QED
    BY <1>1, <1>2, ConcatProperties
<1>4. Len(s) \in Nat /\ Len(front) + Len(back) = Len(s) - 1
  <2> HIDE DEF front, back
  <2> QED
    BY <1>1, <1>2
<1>5. ASSUME NEW j \in 1 .. Len(s) - 1
      PROVE  (front \o back)[j] = IF j < i THEN s[j] ELSE s[j + 1]
  <2> DEFINE whole == front \o back
  <2>1. whole[j] = IF j <= i - 1 THEN front[j] ELSE back[j - (i - 1)]
    <3> HIDE DEF front, back
    <3> QED
      BY <1>1, <1>3, <1>4
  <2> HIDE DEF whole, front, back
  <2>2. CASE j < i
    BY <1>1, <2>1, <2>2
  <2>3. CASE ~(j < i)
    <3>1. j - (i - 1) \in 1 .. Len(s) - i /\ i + (j - (i - 1)) = j + 1
      BY <1>4, <2>3
    <3> QED
      BY <1>2, <1>4, <2>1, <2>3, <3>1
  <2> QED
    BY <2>2, <2>3 DEF whole
<1> QED
  BY <1>3, <1>4, <1>5 DEF RemoveAt

WaiterType(T) == [task : T, fut : FutureStates]

\* The queue of a lock is a sequence of waiters.
LEMMA QueueType ==
    ASSUME NEW T, NEW lk \in LockType(T)
    PROVE  /\ lk.locked \in BOOLEAN
           /\ lk.waiters \in Seq(WaiterType(T))
           /\ Len(lk.waiters) \in Nat
           /\ \A i \in 1 .. Len(lk.waiters) : lk.waiters[i] \in WaiterType(T)
           /\ lk.waiters # << >> => 1 \in 1 .. Len(lk.waiters)
<1>1. lk.locked \in BOOLEAN /\ lk.waiters \in Seq(WaiterType(T))
  BY DEF LockType, WaiterType
<1>2. /\ Len(lk.waiters) \in Nat
      /\ \A i \in 1 .. Len(lk.waiters) : lk.waiters[i] \in WaiterType(T)
      /\ lk.waiters # << >> => Len(lk.waiters) \in Nat \ {0}
  BY <1>1, EmptySeq, ElementOfSeq
<1> QED
  BY <1>1, <1>2

\* A record with such a queue is a lock.
LEMMA LockFromQueue ==
    ASSUME NEW T, NEW b \in BOOLEAN, NEW q \in Seq(WaiterType(T))
    PROVE  [locked |-> b, waiters |-> q] \in LockType(T)
  BY DEF LockType, WaiterType

\* A new lock is sound.
LEMMA FreshLockSound ==
    ASSUME NEW T
    PROVE  FreshLock \in LockType(T) /\ Sound(FreshLock) /\ ~FreshLock.locked
  BY DEF FreshLock, LockType, Sound

\* Taking a lock without suspending leaves nobody woken behind.
LEMMA TakeSound ==
    ASSUME NEW T, NEW lk \in LockType(T), Sound(lk), CanTake(lk)
    PROVE  Take(lk) \in LockType(T) /\ Sound(Take(lk)) /\ Take(lk).locked /\ ~lk.locked
  BY DEF Take, CanTake, LockType, Sound, FutureStates

\* Suspending in acquire() does not put a sleeper at the head of a free lock.
LEMMA EnqueueSound ==
    ASSUME NEW T, NEW lk \in LockType(T), NEW t \in T, Sound(lk), ~CanTake(lk)
    PROVE  /\ Enqueue(lk, t) \in LockType(T)
           /\ Sound(Enqueue(lk, t))
           /\ Enqueue(lk, t).locked = lk.locked
<1> DEFINE w == [task |-> t, fut |-> "pending"]
           new == Append(lk.waiters, w)
<1>1. /\ w \in [task : T, fut : FutureStates]
      /\ lk.waiters \in Seq([task : T, fut : FutureStates])
      /\ lk.locked \in BOOLEAN
  BY DEF LockType, FutureStates
<1>2. /\ new \in Seq([task : T, fut : FutureStates])
      /\ Len(new) = Len(lk.waiters) + 1
      /\ \A i \in 1 .. Len(lk.waiters) : new[i] = lk.waiters[i]
      /\ new[Len(new)] = w
  BY <1>1
<1>3. Enqueue(lk, t) = [locked |-> lk.locked, waiters |-> new]
  BY DEF Enqueue, LockType
<1>4. Sound(Enqueue(lk, t))
  BY <1>1, <1>2, <1>3 DEF Sound, CanTake, FutureStates
<1> QED
  BY <1>1, <1>2, <1>3, <1>4 DEF LockType

\* Waking the head of a free lock's queue restores what releasing it broke.
LEMMA WakeFirstSound ==
    ASSUME NEW T, NEW lk \in LockType(T), ~lk.locked,
           \A i \in 1 .. Len(lk.waiters) : lk.waiters[i].fut = "woken" => i = 1
    PROVE  /\ WakeFirst(lk) \in LockType(T)
           /\ Sound(WakeFirst(lk))
           /\ ~WakeFirst(lk).locked
<1> DEFINE W == WaiterType(T)
<1>1. lk.waiters \in Seq(W) /\ Len(lk.waiters) \in Nat
  BY QueueType
<1>2. CASE lk.waiters # << >> /\ lk.waiters[1].fut = "pending"
  <2> DEFINE head == [lk.waiters[1] EXCEPT !.fut = "woken"]
             new  == [lk.waiters EXCEPT ![1] = head]
  <2>1. 1 \in 1 .. Len(lk.waiters) /\ lk.waiters[1] \in W
    BY <1>2, QueueType
  <2>2. head \in W /\ head.fut = "woken"
    BY <2>1 DEF FutureStates, WaiterType
  <2>3. /\ new \in Seq(W) /\ Len(new) = Len(lk.waiters)
        /\ \A i \in 1 .. Len(lk.waiters) : new[i] = IF i = 1 THEN head ELSE lk.waiters[i]
    <3> HIDE DEF head, W
    <3> QED
      BY <1>1, <2>1, <2>2, ExceptSeq
  <2>4. WakeFirst(lk) = [lk EXCEPT !.waiters = new]
    BY <1>2, Zenon DEF WakeFirst
  <2>5. WakeFirst(lk) = [locked |-> FALSE, waiters |-> new]
    BY <2>4 DEF LockType
  <2> HIDE DEF new, head
  <2>6. [locked |-> FALSE, waiters |-> new] \in LockType(T)
    BY <2>3, LockFromQueue
  <2> HIDE DEF W
  <2>7. Sound([locked |-> FALSE, waiters |-> new])
    BY <1>1, <2>1, <2>2, <2>3 DEF Sound
  <2> QED
    BY <2>5, <2>6, <2>7
<1>3. CASE ~(lk.waiters # << >> /\ lk.waiters[1].fut = "pending")
  BY <1>3 DEF WakeFirst, Sound
<1> QED
  BY <1>2, <1>3

\* Releasing a held lock leaves it free and its queue awake.
LEMMA ReleaseSound ==
    ASSUME NEW T, NEW lk \in LockType(T), Sound(lk), lk.locked
    PROVE  Release(lk) \in LockType(T) /\ Sound(Release(lk)) /\ ~Release(lk).locked
<1> DEFINE free == [lk EXCEPT !.locked = FALSE]
<1>1. free \in LockType(T) /\ ~free.locked /\ free.waiters = lk.waiters
  BY DEF LockType
<1>2. \A i \in 1 .. Len(free.waiters) : free.waiters[i].fut = "woken" => i = 1
  BY <1>1 DEF Sound
<1> HIDE DEF free
<1>3. WakeFirst(free) \in LockType(T) /\ Sound(WakeFirst(free)) /\ ~WakeFirst(free).locked
  BY <1>1, <1>2, WakeFirstSound
<1> QED
  BY <1>3 DEF Release, free

\* Cancelling a waiter never turns it into a sleeper.
LEMMA CancelWaiterSound ==
    ASSUME NEW T, NEW lk \in LockType(T), Sound(lk), NEW i \in 1 .. Len(lk.waiters)
    PROVE  /\ CancelWaiter(lk, i) \in LockType(T)
           /\ Sound(CancelWaiter(lk, i))
           /\ CancelWaiter(lk, i).locked = lk.locked
<1> DEFINE W == WaiterType(T)
<1>1. lk.waiters \in Seq(W) /\ Len(lk.waiters) \in Nat /\ lk.waiters[i] \in W
  BY QueueType
<1>2. CASE lk.waiters[i].fut = "pending"
  <2> DEFINE gone == [lk.waiters[i] EXCEPT !.fut = "cancelled"]
             new  == [lk.waiters EXCEPT ![i] = gone]
  <2>1. gone \in W /\ gone.fut = "cancelled"
    BY <1>1 DEF FutureStates, WaiterType
  <2>2. /\ new \in Seq(W) /\ Len(new) = Len(lk.waiters)
        /\ \A j \in 1 .. Len(lk.waiters) : new[j] = IF j = i THEN gone ELSE lk.waiters[j]
    <3> HIDE DEF gone, W
    <3> QED
      BY <1>1, <2>1, ExceptSeq
  <2>3. CancelWaiter(lk, i) = [lk EXCEPT !.waiters = new]
    BY <1>2, Zenon DEF CancelWaiter
  <2>4. CancelWaiter(lk, i) = [locked |-> lk.locked, waiters |-> new]
    BY <2>3 DEF LockType
  <2>5. lk.locked \in BOOLEAN /\ (lk.waiters # << >> => 1 \in 1 .. Len(lk.waiters))
    BY QueueType
  <2> HIDE DEF new, gone, W
  <2>6. [locked |-> lk.locked, waiters |-> new] \in LockType(T)
    BY <2>2, <2>5, LockFromQueue DEF W
  <2>7. Sound([locked |-> lk.locked, waiters |-> new])
    BY <1>1, <2>1, <2>2, <2>5 DEF Sound
  <2> QED
    BY <2>4, <2>6, <2>7
<1>3. CASE lk.waiters[i].fut # "pending"
  BY <1>3 DEF CancelWaiter
<1> QED
  BY <1>2, <1>3

\* What leaving the queue keeps: the flag, and that only a head can be woken.
LEMMA LeaveQueueProperties ==
    ASSUME NEW T, NEW lk \in LockType(T), Sound(lk), NEW i \in 1 .. Len(lk.waiters)
    PROVE  LET rest == LeaveQueue(lk, i) IN
           /\ rest \in LockType(T)
           /\ rest.locked = lk.locked
           /\ \A j \in 1 .. Len(rest.waiters) :
                 rest.waiters[j].fut = "woken" => j = 1 /\ i # 1 /\ ~lk.locked
           /\ Len(rest.waiters) = Len(lk.waiters) - 1
<1> DEFINE W == WaiterType(T)
           new == RemoveAt(lk.waiters, i)
<1>1. lk.waiters \in Seq(W) /\ Len(lk.waiters) \in Nat /\ lk.locked \in BOOLEAN
  BY QueueType
<1>2. /\ new \in Seq(W)
      /\ Len(new) = Len(lk.waiters) - 1
      /\ \A j \in 1 .. Len(lk.waiters) - 1 :
            new[j] = IF j < i THEN lk.waiters[j] ELSE lk.waiters[j + 1]
  <2> HIDE DEF W
  <2> QED
    BY <1>1, RemoveAtProperties
<1>3. LeaveQueue(lk, i) = [locked |-> lk.locked, waiters |-> new]
  BY DEF LeaveQueue, LockType
<1> HIDE DEF new
<1>4. [locked |-> lk.locked, waiters |-> new] \in LockType(T)
  BY <1>1, <1>2, LockFromQueue
<1>5. ASSUME NEW j \in 1 .. Len(new), new[j].fut = "woken"
      PROVE  j = 1 /\ i # 1 /\ ~lk.locked
  <2>1. CASE j < i
    BY <1>1, <1>2, <1>5, <2>1 DEF Sound
  <2>2. CASE ~(j < i)
    <3>1. j + 1 \in 1 .. Len(lk.waiters) /\ lk.waiters[j + 1].fut = "woken"
      BY <1>1, <1>2, <1>5, <2>2
    <3> QED
      BY <1>1, <1>2, <3>1 DEF Sound
  <2> QED
    BY <2>1, <2>2
<1> QED
  BY <1>1, <1>2, <1>3, <1>4, <1>5

\* A woken waiter that resumes owns a lock nobody else is about to own.
LEMMA ResumeWaiterSound ==
    ASSUME NEW T, NEW lk \in LockType(T), Sound(lk), NEW i \in 1 .. Len(lk.waiters),
           lk.waiters[i].fut = "woken"
    PROVE  /\ ResumeWaiter(lk, i) \in LockType(T)
           /\ Sound(ResumeWaiter(lk, i))
           /\ ResumeWaiter(lk, i).locked
           /\ ~lk.locked
<1> DEFINE rest == LeaveQueue(lk, i)
<1>1. i = 1 /\ ~lk.locked
  BY DEF Sound
<1>2. rest \in LockType(T) /\ \A j \in 1 .. Len(rest.waiters) : rest.waiters[j].fut # "woken"
  BY <1>1, LeaveQueueProperties
<1> HIDE DEF rest
<1>3. Take(rest) \in LockType(T) /\ Sound(Take(rest)) /\ Take(rest).locked
  BY <1>2 DEF Take, LockType, Sound
<1> QED
  BY <1>1, <1>3 DEF ResumeWaiter, rest

\* A cancelled waiter that leaves a free lock passes the wake-up on.
LEMMA AbandonWaiterSound ==
    ASSUME NEW T, NEW lk \in LockType(T), Sound(lk), NEW i \in 1 .. Len(lk.waiters)
    PROVE  /\ AbandonWaiter(lk, i) \in LockType(T)
           /\ Sound(AbandonWaiter(lk, i))
           /\ AbandonWaiter(lk, i).locked = lk.locked
<1> DEFINE rest == LeaveQueue(lk, i)
<1>1. /\ rest \in LockType(T)
      /\ rest.locked = lk.locked
      /\ \A j \in 1 .. Len(rest.waiters) : rest.waiters[j].fut = "woken" => j = 1 /\ ~lk.locked
  BY LeaveQueueProperties
<1>2. lk.locked \in BOOLEAN
  BY DEF LockType
<1>3. AbandonWaiter(lk, i) = IF rest.locked THEN rest ELSE WakeFirst(rest)
  BY DEF AbandonWaiter
<1> HIDE DEF rest
<1>4. CASE rest.locked
  BY <1>1, <1>3, <1>4 DEF Sound
<1>5. CASE ~rest.locked
  <2>1. WakeFirst(rest) \in LockType(T) /\ Sound(WakeFirst(rest)) /\ ~WakeFirst(rest).locked
    BY <1>1, <1>5, WakeFirstSound
  <2>2. WakeFirst(rest).locked \in BOOLEAN
    BY <2>1 DEF LockType
  <2> QED
    BY <1>1, <1>2, <1>3, <1>5, <2>1, <2>2
<1> QED
  BY <1>4, <1>5
===============================================================================
