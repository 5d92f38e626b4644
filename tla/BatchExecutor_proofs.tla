------------------------- MODULE BatchExecutor_proofs -------------------------
(***************************************************************************)
(* Safety of a batch for any number of items, any concurrency and any      *)
(* batch size, in both modes, with failures and cancellations.             *)
(***************************************************************************)
EXTENDS BatchExecutor, AsyncioLock_proofs, FiniteSetTheorems, SequenceTheorems, TLAPS

--------------------------------------------------------------------------------
(* The semaphore.                                                               *)

SlotWaiter(T) == [task : T, fut : {"pending", "woken", "cancelled"}]

\* The places of the queue that were handed a slot, and those that sleep.
Awake(s) == {n \in 1 .. Len(s.waiters) : s.waiters[n].fut = "woken"}

Asleep(s) == {n \in 1 .. Len(s.waiters) : s.waiters[n].fut = "pending"}

\* The slots that no running tool holds.
Spare(s) == s.value + Cardinality(Awake(s))

\* No task sleeps while a slot is free, unless a woken one is about to pass it on.
Busy(s) == s.value > 0 /\ Asleep(s) # {} => Awake(s) # {}

\* A semaphore is a number of slots and a sequence of waiters.
LEMMA QueueParts ==
    ASSUME NEW T, NEW s \in SemaphoreType(T)
    PROVE  /\ s.value \in Nat /\ s.waiters \in Seq(SlotWaiter(T)) /\ Len(s.waiters) \in Nat
           /\ \A n \in 1 .. Len(s.waiters) : s.waiters[n] \in SlotWaiter(T)
           /\ DOMAIN s.waiters = 1 .. Len(s.waiters)
           /\ IsFiniteSet(Awake(s)) /\ Cardinality(Awake(s)) \in Nat
           /\ Spare(s) \in Nat
<1>1. s.value \in Nat /\ s.waiters \in Seq(SlotWaiter(T))
  BY DEF SemaphoreType, SlotWaiter
<1>2. Len(s.waiters) \in Nat /\ \A n \in 1 .. Len(s.waiters) : s.waiters[n] \in SlotWaiter(T)
  BY <1>1, ElementOfSeq, LenProperties
<1>3. DOMAIN s.waiters = 1 .. Len(s.waiters)
  BY <1>1, LenProperties
<1>4. IsFiniteSet(Awake(s))
  <2>1. IsFiniteSet(1 .. Len(s.waiters)) /\ Awake(s) \in SUBSET (1 .. Len(s.waiters))
    BY <1>2, FS_Interval DEF Awake
  <2> QED
    BY <2>1, FS_Subset
<1>5. Cardinality(Awake(s)) \in Nat
  BY <1>4, FS_CardinalityType
<1> QED
  BY <1>1, <1>2, <1>3, <1>4, <1>5 DEF Spare

\* Every nonempty set of naturals has a least element.
LEMMA Least ==
    ASSUME NEW S, S \subseteq Nat, S # {}
    PROVE  \E x \in S : \A y \in S : x <= y
<1>1. PICK x \in S : \A y \in S : <<y, x>> \notin OpToRel(<, Nat)
  BY NatLessThanWellFounded, WFMin
<1>2. \A y \in S : ~(y < x)
  BY <1>1 DEF OpToRel
<1> QED
  BY <1>2

\* ... and, when it is bounded, a greatest one.
LEMMA Greatest ==
    ASSUME NEW S, NEW n \in Nat, S \subseteq 1 .. n, S # {}
    PROVE  \E x \in S : \A y \in S : y <= x
<1> DEFINE D == {n - x : x \in S}
<1>1. D \subseteq Nat /\ D # {}
  <2>1. \A x \in S : n - x \in Nat
    OBVIOUS
  <2> QED
    BY <2>1
<1>2. PICK d \in D : \A y \in D : d <= y
  <2> HIDE DEF D
  <2> QED
    BY <1>1, Least
<1>3. PICK x \in S : d = n - x
  OBVIOUS
<1>4. \A y \in S : n - x <= n - y
  BY <1>2, <1>3
<1> QED
  BY <1>4

Below(P, i) == {j \in P : j < i}

\* The waiters that are woken when m slots are given out: at most m, and all
\* that sleep unless there are as many as slots.
LEMMA ChosenProperties ==
    ASSUME NEW L \in Nat, NEW P, P \subseteq 1 .. L, NEW m \in Nat, NEW chosen, chosen \subseteq P,
           \A i \in P : i \in chosen <=> Cardinality(Below(P, i)) < m
    PROVE  /\ IsFiniteSet(chosen) /\ Cardinality(chosen) \in Nat
           /\ Cardinality(chosen) <= m
           /\ Cardinality(chosen) < m => chosen = P
<1>1. IsFiniteSet(P) /\ IsFiniteSet(chosen) /\ Cardinality(chosen) \in Nat
  <2>1. IsFiniteSet(1 .. L)
    BY FS_Interval
  <2>2. P \in SUBSET (1 .. L) /\ chosen \in SUBSET P
    OBVIOUS
  <2>3. IsFiniteSet(P)
    BY <2>1, <2>2, FS_Subset
  <2>4. IsFiniteSet(chosen)
    BY <2>2, <2>3, FS_Subset
  <2> QED
    BY <2>3, <2>4, FS_CardinalityType
<1>2. ASSUME NEW i
      PROVE  IsFiniteSet(Below(P, i)) /\ Cardinality(Below(P, i)) \in Nat
  <2>1. Below(P, i) \in SUBSET P
    BY DEF Below
  <2> QED
    BY <1>1, <2>1, FS_Subset, FS_CardinalityType
<1>3. Cardinality(chosen) <= m
  <2>1. CASE chosen = {}
    <3>1. Cardinality(chosen) = 0
      BY <2>1, FS_EmptySet
    <3> QED
      BY <3>1
  <2>2. CASE chosen # {}
    <3>1. PICK x \in chosen : \A y \in chosen : y <= x
      BY <2>2, Greatest
    <3>2. chosen \in SUBSET (Below(P, x) \cup {x}) /\ x \notin Below(P, x)
      BY <3>1 DEF Below
    <3>3. /\ IsFiniteSet(Below(P, x) \cup {x})
          /\ Cardinality(Below(P, x) \cup {x}) = Cardinality(Below(P, x)) + 1
      BY <1>2, <3>2, FS_AddElement
    <3>4. Cardinality(chosen) <= Cardinality(Below(P, x) \cup {x})
      BY <3>2, <3>3, FS_Subset
    <3>5. Cardinality(Below(P, x)) < m
      BY <3>1
    <3> QED
      BY <1>1, <1>2, <3>3, <3>4, <3>5
  <2> QED
    BY <2>1, <2>2
<1>4. ASSUME Cardinality(chosen) < m, chosen # P PROVE FALSE
  <2>1. P \ chosen \subseteq Nat /\ P \ chosen # {}
    <3>1. P \ chosen # {}
      BY <1>4, Zenon
    <3>2. P \ chosen \subseteq Nat
      OBVIOUS
    <3> QED
      BY <3>1, <3>2
  <2>2. PICK x \in P \ chosen : \A y \in P \ chosen : x <= y
    BY <2>1, Least
  <2>3. Below(P, x) \in SUBSET chosen
    <3> SUFFICES ASSUME NEW y \in Below(P, x) PROVE y \in chosen
      OBVIOUS
    <3>1. y \in P /\ y < x /\ y \in Nat /\ x \in Nat
      BY <2>1 DEF Below
    <3> QED
      BY <2>2, <3>1
  <2>4. ~(Cardinality(Below(P, x)) < m)
    BY <2>2
  <2>5. Cardinality(Below(P, x)) <= Cardinality(chosen)
    BY <1>1, <2>3, FS_Subset
  <2> QED
    BY <1>1, <1>2, <1>4, <2>4, <2>5
<1> QED
  BY <1>1, <1>3, <1>4

\* Waking up to m waiters spends a slot on each.
LEMMA WakeNextProperties ==
    ASSUME NEW T, NEW s \in SemaphoreType(T), NEW m \in Nat, m <= s.value
    PROVE  LET new == WakeNext(s, m)
           IN /\ new \in SemaphoreType(T)
              /\ Spare(new) = Spare(s)
              /\ m = s.value \/ m > 0 => Busy(new)
<1> DEFINE L == Len(s.waiters)
           P == Asleep(s)
           chosen == {i \in P : Cardinality(Below(P, i)) < m}
           q == [i \in 1 .. L |-> IF i \in chosen THEN [s.waiters[i] EXCEPT !.fut = "woken"]
                                                  ELSE s.waiters[i]]
           new == [value |-> s.value - Cardinality(chosen), waiters |-> q]
<1>1. /\ s.value \in Nat /\ L \in Nat /\ IsFiniteSet(Awake(s)) /\ Cardinality(Awake(s)) \in Nat
      /\ \A i \in 1 .. L : s.waiters[i] \in SlotWaiter(T)
  BY QueueParts
<1>2. WakeNext(s, m) = new
  <2>1. {i \in 1 .. L : s.waiters[i].fut = "pending" /\
                        Cardinality({j \in 1 .. i - 1 : s.waiters[j].fut = "pending"}) < m} = chosen
    <3>1. \A i \in 1 .. L : {j \in 1 .. i - 1 : s.waiters[j].fut = "pending"} = Below(P, i)
      BY <1>1 DEF Asleep, Below
    <3> QED
      BY <3>1 DEF Asleep
  <2> QED
    BY <2>1 DEF WakeNext
<1>3. P \subseteq 1 .. L
  BY DEF Asleep
<1>4. /\ IsFiniteSet(chosen) /\ Cardinality(chosen) \in Nat /\ chosen \subseteq P
      /\ Cardinality(chosen) <= m /\ (Cardinality(chosen) < m => chosen = P)
  <2>1. chosen \subseteq P /\ \A i \in P : i \in chosen <=> Cardinality(Below(P, i)) < m
    OBVIOUS
  <2>2. L \in Nat /\ P \subseteq 1 .. L
    BY <1>1, <1>3
  <2> HIDE DEF P, L, chosen, q, new
  <2>3. /\ IsFiniteSet(chosen) /\ Cardinality(chosen) \in Nat
        /\ Cardinality(chosen) <= m
        /\ Cardinality(chosen) < m => chosen = P
    BY <2>1, <2>2, ChosenProperties
  <2> QED
    BY <2>1, <2>3
<1> HIDE DEF chosen
<1>5. q \in Seq(SlotWaiter(T)) /\ Len(q) = L
  <2>1. \A i \in 1 .. L : q[i] \in SlotWaiter(T)
    BY <1>1 DEF SlotWaiter
  <2> HIDE DEF L
  <2> QED
    BY <1>1, <2>1
<1>6. new.value \in Nat /\ new \in SemaphoreType(T)
  BY <1>1, <1>4, <1>5 DEF SemaphoreType, SlotWaiter
<1>7. Awake(new) = Awake(s) \cup chosen /\ Awake(s) \cap chosen = {} /\ Asleep(new) = P \ chosen
  <2>1. \A i \in 1 .. L : q[i].fut = IF i \in chosen THEN "woken" ELSE s.waiters[i].fut
    BY <1>1 DEF SlotWaiter
  <2>2. Len(new.waiters) = L /\ \A i \in 1 .. L : new.waiters[i].fut = q[i].fut
    BY <1>5
  <2>3. \A i \in P : i \in 1 .. L /\ s.waiters[i].fut = "pending"
    BY DEF Asleep
  <2> HIDE DEF new, q
  <2>4. \A i \in 1 .. L : new.waiters[i].fut = IF i \in chosen THEN "woken" ELSE s.waiters[i].fut
    BY <2>1, <2>2
  <2>5. Awake(new) = Awake(s) \cup chosen
    BY <1>4, <2>2, <2>3, <2>4 DEF Awake
  <2>6. Awake(s) \cap chosen = {}
    BY <1>4, <2>3 DEF Awake
  <2>7. Asleep(new) = P \ chosen
    BY <1>4, <2>2, <2>3, <2>4 DEF Asleep
  <2> QED
    BY <2>5, <2>6, <2>7
<1> HIDE DEF P, L, q
<1>8. Cardinality(Awake(new)) = Cardinality(Awake(s)) + Cardinality(chosen)
  <2>1. Cardinality(Awake(s) \cap chosen) = 0
    BY <1>7, FS_EmptySet
  <2> HIDE DEF new
  <2>2. Cardinality(Awake(s) \cup chosen)
           = Cardinality(Awake(s)) + Cardinality(chosen) - Cardinality(Awake(s) \cap chosen)
    BY <1>1, <1>4, FS_Union
  <2> QED
    BY <1>1, <1>4, <1>7, <2>1, <2>2
<1>9. Spare(new) = Spare(s)
  BY <1>1, <1>4, <1>8 DEF Spare
<1>10. ASSUME m = s.value \/ m > 0 PROVE Busy(new)
  <2>1. CASE chosen = {}
    <3>1. Cardinality(chosen) = 0
      BY <2>1, FS_EmptySet
    <3>2. m = 0 \/ Asleep(new) = {}
      BY <1>4, <1>7, <3>1
    <3> QED
      BY <1>1, <1>10, <3>1, <3>2 DEF Busy
  <2>2. CASE chosen # {}
    BY <1>7, <2>2 DEF Busy
  <2> QED
    BY <2>1, <2>2
<1> QED
  BY <1>2, <1>6, <1>9, <1>10 DEF P

\* Who is woken and who sleeps depends on the queue only.
LEMMA SameQueue ==
    ASSUME NEW s, NEW u, u.waiters = s.waiters
    PROVE  Awake(u) = Awake(s) /\ Asleep(u) = Asleep(s)
  BY DEF Awake, Asleep

\* Releasing a slot.
LEMMA GiveSlotProperties ==
    ASSUME NEW T, NEW s \in SemaphoreType(T)
    PROVE  LET new == GiveSlot(s)
           IN new \in SemaphoreType(T) /\ Spare(new) = Spare(s) + 1 /\ Busy(new)
<1> DEFINE up == [s EXCEPT !.value = @ + 1]
<1>1. /\ up.value = s.value + 1 /\ up.waiters = s.waiters /\ s.value \in Nat
      /\ up \in SemaphoreType(T)
  BY DEF SemaphoreType
<1>2. GiveSlot(s) = WakeNext(up, 1)
  BY DEF GiveSlot
<1>3. Spare(up) = Spare(s) + 1
  <2>1. Awake(up) = Awake(s)
    BY <1>1, SameQueue
  <2>2. Cardinality(Awake(s)) \in Nat
    BY QueueParts
  <2> HIDE DEF up
  <2> QED
    BY <1>1, <2>1, <2>2 DEF Spare
<1> HIDE DEF up
<1>4. /\ WakeNext(up, 1) \in SemaphoreType(T) /\ Spare(WakeNext(up, 1)) = Spare(up)
      /\ Busy(WakeNext(up, 1))
  BY <1>1, WakeNextProperties
<1> QED
  BY <1>2, <1>3, <1>4

\* Taking a slot without queueing.
LEMMA TakeSlotProperties ==
    ASSUME NEW T, NEW s \in SemaphoreType(T), Available(s)
    PROVE  LET new == TakeSlot(s)
           IN new \in SemaphoreType(T) /\ Spare(new) = Spare(s) - 1 /\ Busy(new)
<1>1. /\ TakeSlot(s) \in SemaphoreType(T)
      /\ TakeSlot(s).value = s.value - 1 /\ TakeSlot(s).waiters = s.waiters
  BY DEF TakeSlot, Available, SemaphoreType
<1>2. Awake(TakeSlot(s)) = Awake(s) /\ Asleep(TakeSlot(s)) = Asleep(s)
  BY <1>1, SameQueue
<1>3. Spare(TakeSlot(s)) = Spare(s) - 1
  <2>1. Cardinality(Awake(s)) \in Nat /\ s.value \in Nat
    BY QueueParts
  <2> QED
    BY <1>1, <1>2, <2>1 DEF Spare
<1>4. Asleep(s) = {}
  BY DEF Available, Asleep
<1> QED
  BY <1>1, <1>2, <1>3, <1>4 DEF Busy

\* Queueing: whoever finds a free slot it may not take finds a woken waiter too.
LEMMA JoinQueueProperties ==
    ASSUME NEW T, NEW s \in SemaphoreType(T), ~Available(s), Busy(s), NEW t \in T
    PROVE  LET new == JoinQueue(s, t)
           IN new \in SemaphoreType(T) /\ Spare(new) = Spare(s) /\ Busy(new)
<1> DEFINE L == Len(s.waiters)
           q == Append(s.waiters, [task |-> t, fut |-> "pending"])
           new == [value |-> s.value, waiters |-> q]
<1>1. JoinQueue(s, t) = new
  <2>1. \A x : [s EXCEPT !.waiters = x] = [value |-> s.value, waiters |-> x]
    BY DEF SemaphoreType
  <2> QED
    BY <2>1 DEF JoinQueue
<1>2. /\ s.value \in Nat /\ L \in Nat /\ s.waiters \in Seq(SlotWaiter(T))
      /\ \A n \in 1 .. L : s.waiters[n] \in SlotWaiter(T)
  BY QueueParts
<1>3. /\ q \in Seq(SlotWaiter(T)) /\ Len(q) = L + 1 /\ q[L + 1].fut = "pending"
      /\ \A n \in 1 .. L : q[n] = s.waiters[n]
  BY <1>2, AppendProperties DEF SlotWaiter
<1>4. new \in SemaphoreType(T)
  BY <1>2, <1>3 DEF SemaphoreType, SlotWaiter
<1>5. Awake(new) = Awake(s)
  <2>1. new.waiters = q
    OBVIOUS
  <2> HIDE DEF new, q, L
  <2>2. \A n \in 1 .. L + 1 : n = L + 1 \/ n \in 1 .. L
    BY <1>2
  <2>3. \A n \in 1 .. L : n \in 1 .. L + 1
    BY <1>2
  <2> QED
    BY <1>3, <2>1, <2>2, <2>3 DEF Awake, L
<1>6. ASSUME s.value > 0 PROVE Awake(s) # {}
  <2>1. PICK n \in 1 .. L : s.waiters[n].fut # "cancelled"
    BY <1>6 DEF Available
  <2>2. n \in Asleep(s) \/ n \in Awake(s)
    BY <1>2, <2>1 DEF Asleep, Awake, SlotWaiter
  <2> QED
    BY <1>6, <2>2 DEF Busy
<1>7. Busy(new) /\ Spare(new) = Spare(s)
  BY <1>5, <1>6 DEF Busy, Spare
<1> QED
  BY <1>1, <1>4, <1>7

\* The queue without its i-th waiter.
LEMMA UnqueueProperties ==
    ASSUME NEW T, NEW s \in SemaphoreType(T), NEW i \in 1 .. Len(s.waiters)
    PROVE  LET rest == Unqueue(s, i)
           IN /\ rest \in SemaphoreType(T) /\ rest.value = s.value
              /\ Spare(rest) = IF s.waiters[i].fut = "woken" THEN Spare(s) - 1 ELSE Spare(s)
<1> DEFINE L == Len(s.waiters)
           q == RemoveAt(s.waiters, i)
           rest == [value |-> s.value, waiters |-> q]
           Shift(n) == IF n < i THEN n ELSE n + 1
<1>1. Unqueue(s, i) = rest
  <2>1. \A x : [s EXCEPT !.waiters = x] = [value |-> s.value, waiters |-> x]
    BY DEF SemaphoreType
  <2> QED
    BY <2>1 DEF Unqueue
<1>2. /\ s.value \in Nat /\ L \in Nat /\ s.waiters \in Seq(SlotWaiter(T))
      /\ IsFiniteSet(Awake(s)) /\ Cardinality(Awake(s)) \in Nat
  BY QueueParts
<1>3. /\ q \in Seq(SlotWaiter(T)) /\ Len(q) = L - 1
      /\ \A n \in 1 .. L - 1 : q[n] = s.waiters[Shift(n)]
  <2>1. /\ q \in Seq(SlotWaiter(T)) /\ Len(q) = L - 1
        /\ \A n \in 1 .. L - 1 : q[n] = IF n < i THEN s.waiters[n] ELSE s.waiters[n + 1]
    BY <1>2, RemoveAtProperties
  <2> HIDE DEF q
  <2> QED
    BY <2>1
<1>4. rest \in SemaphoreType(T)
  BY <1>2, <1>3 DEF SemaphoreType, SlotWaiter
<1>5. rest.value = s.value /\ rest.waiters = q
  OBVIOUS
<1> HIDE DEF rest, q
<1>6. Cardinality(Awake(rest)) = Cardinality(Awake(s) \ {i})
  <2> DEFINE f == [n \in Awake(rest) |-> Shift(n)]
  <2>1. ASSUME NEW n \in Awake(rest)
        PROVE  n \in 1 .. L - 1 /\ Shift(n) \in Awake(s) \ {i}
    <3>1. n \in 1 .. L - 1 /\ q[n].fut = "woken"
      BY <1>3, <1>5 DEF Awake
    <3>2. Shift(n) \in 1 .. L /\ Shift(n) # i
      BY <1>2, <3>1
    <3> QED
      BY <1>3, <3>1, <3>2 DEF Awake
  <2>2. \A m, n \in Awake(rest) : Shift(m) = Shift(n) => m = n
    <3>1. \A n \in Awake(rest) : n \in 1 .. L - 1
      BY <2>1
    <3> QED
      BY <1>2, <3>1
  <2>3. ASSUME NEW m \in Awake(s) \ {i}
        PROVE  \E n \in Awake(rest) : m = Shift(n)
    <3>1. m \in 1 .. L /\ m # i /\ s.waiters[m].fut = "woken"
      BY DEF Awake
    <3>2. PICK n \in 1 .. L - 1 : m = Shift(n)
      <4>1. CASE m < i
        BY <1>2, <3>1, <4>1
      <4>2. CASE ~(m < i)
        <5>1. m - 1 \in 1 .. L - 1 /\ ~(m - 1 < i) /\ m = (m - 1) + 1
          BY <1>2, <3>1, <4>2
        <5> QED
          BY <5>1
      <4> QED
        BY <4>1, <4>2
    <3>3. n \in Awake(rest)
      BY <1>3, <1>5, <3>1, <3>2 DEF Awake
    <3> QED
      BY <3>2, <3>3
  <2>4. f \in Bijection(Awake(rest), Awake(s) \ {i})
    <3> HIDE DEF Shift
    <3>1. f \in [Awake(rest) -> Awake(s) \ {i}]
      BY <2>1
    <3>2. \A m, n \in Awake(rest) : f[m] = f[n] => m = n
      BY <2>2
    <3>3. \A m \in Awake(s) \ {i} : \E n \in Awake(rest) : f[n] = m
      BY <2>3
    <3> HIDE DEF f
    <3> QED
      BY <3>1, <3>2, <3>3 DEF Bijection, Injection, Surjection, IsInjective
  <2>5. IsFiniteSet(Awake(rest))
    BY <1>4, QueueParts DEF rest
  <2> QED
    BY <2>4, <2>5, FS_Bijection DEF ExistsBijection
<1>7. Cardinality(Awake(s) \ {i}) = IF s.waiters[i].fut = "woken" THEN Cardinality(Awake(s)) - 1
                                                                 ELSE Cardinality(Awake(s))
  <2>1. i \in Awake(s) <=> s.waiters[i].fut = "woken"
    BY DEF Awake
  <2> QED
    BY <1>2, <2>1, FS_RemoveElement
<1> QED
  BY <1>1, <1>2, <1>4, <1>5, <1>6, <1>7 DEF Spare

\* A woken waiter resumes with its slot, and wakes whom else it can.
LEMMA ResumeQueuedProperties ==
    ASSUME NEW T, NEW s \in SemaphoreType(T), NEW i \in 1 .. Len(s.waiters),
           s.waiters[i].fut = "woken"
    PROVE  LET new == ResumeQueued(s, i)
           IN new \in SemaphoreType(T) /\ Spare(new) = Spare(s) - 1 /\ Busy(new)
<1>1. Unqueue(s, i) \in SemaphoreType(T) /\ Spare(Unqueue(s, i)) = Spare(s) - 1
  BY UnqueueProperties
<1> DEFINE rest == Unqueue(s, i)
<1>2. ResumeQueued(s, i) = WakeNext(rest, rest.value)
  BY DEF ResumeQueued
<1>3. rest \in SemaphoreType(T) /\ rest.value \in Nat /\ rest.value <= rest.value
  BY <1>1, QueueParts
<1> HIDE DEF rest
<1>4. /\ WakeNext(rest, rest.value) \in SemaphoreType(T)
      /\ Spare(WakeNext(rest, rest.value)) = Spare(rest)
      /\ Busy(WakeNext(rest, rest.value))
  BY <1>3, WakeNextProperties
<1> QED
  BY <1>1, <1>2, <1>4 DEF rest

\* A cancelled waiter gives back the slot it may have been handed.
LEMMA AbandonQueuedProperties ==
    ASSUME NEW T, NEW s \in SemaphoreType(T), NEW i \in 1 .. Len(s.waiters)
    PROVE  LET new == AbandonQueued(s, i)
           IN new \in SemaphoreType(T) /\ Spare(new) = Spare(s) /\ Busy(new)
<1> DEFINE cut == Unqueue(s, i)
           back == IF s.waiters[i].fut = "woken" THEN cut.value + 1 ELSE cut.value
           rest == [cut EXCEPT !.value = back]
<1>1. /\ cut \in SemaphoreType(T)
      /\ Spare(cut) = IF s.waiters[i].fut = "woken" THEN Spare(s) - 1 ELSE Spare(s)
  BY UnqueueProperties
<1>2. AbandonQueued(s, i) = WakeNext(rest, rest.value)
  BY DEF AbandonQueued
<1> HIDE DEF cut
<1>3. cut.value \in Nat /\ Cardinality(Awake(cut)) \in Nat /\ Spare(s) \in Nat
  BY <1>1, QueueParts
<1>4. /\ rest \in SemaphoreType(T) /\ rest.value = back /\ rest.waiters = cut.waiters
  <2>1. back \in Nat
    BY <1>3
  <2> HIDE DEF back
  <2>2. rest.value = back /\ rest.waiters = cut.waiters
    BY <1>1 DEF SemaphoreType
  <2>3. rest \in SemaphoreType(T)
    BY <1>1, <2>1 DEF SemaphoreType
  <2> QED
    BY <2>2, <2>3
<1> HIDE DEF rest
<1>5. Spare(rest) = Spare(s)
  <2>1. Awake(rest) = Awake(cut)
    BY <1>4, SameQueue
  <2> QED
    BY <1>1, <1>3, <1>4, <2>1 DEF Spare
<1>6. rest.value \in Nat /\ rest.value <= rest.value
  BY <1>4, QueueParts
<1>7. /\ WakeNext(rest, rest.value) \in SemaphoreType(T)
      /\ Spare(WakeNext(rest, rest.value)) = Spare(rest)
      /\ Busy(WakeNext(rest, rest.value))
  BY <1>4, <1>6, WakeNextProperties
<1> QED
  BY <1>2, <1>5, <1>7

--------------------------------------------------------------------------------
(* The inductive invariant.                                                     *)

TypeInv == TypeOK /\ results \in Seq(Items \X {"ok", "error"})

\* A sequential call has the results of a prefix of its items, and runs the next one.
InOrder ==
    pc \in {"called", "sequential"} =>
        /\ Len(results) <= args.size
        /\ \A n \in 1 .. Len(results) : results[n] = <<n, item[n]>>
        /\ \A i \in Items : \/ i <= Len(results) \/ item[i] = "idle"
                            \/ i = Len(results) + 1 /\ i <= args.size /\ item[i] = "running"
        /\ pc = "called" => results = << >> /\ ItemsAt("running") = {}
        /\ pc = "sequential" => args.mode = "sequential"

\* The items of a parallel call are its tasks, and gather tells how they ended.
InParallel ==
    pc \in {"gathering", "draining"} =>
        /\ args.mode = "parallel"
        /\ \A i \in Items : item[i] = "idle" <=> i > args.size
        /\ outer = "result" => Unended = {}
        /\ outer \in {"pending", "result"} => ItemsAt("failed") = {} /\ ItemsAt("cancelled") = {}
        /\ outer = "exception" => stopping \/ ItemsAt("failed") # {} \/ ItemsAt("cancelled") # {}
        /\ pc = "draining" => outer \in {"exception", "cancelled"}

\* An exception leaves process_single only if the call fails fast.
FailuresAsAsked == \A i \in Items : item[i] \in {"failed", "error"} => item[i] = FailureOf(args)

BInv == /\ TypeInv /\ InOrder /\ InParallel /\ FailuresAsAsked
        /\ SlotsConserved /\ NoIdleSlot
        /\ NothingOutlivesTheCall /\ ReturnsAllInOrder /\ FailuresFillTheirSlots

--------------------------------------------------------------------------------
(* Lemmas about the items and their tasks.                                      *)

States == {"idle", "new", "queued", "running"} \cup Ended

RunningIn(f) == {j \in Items : f[j] = "running"}

\* The number of running tools, when an item changes.
LEMMA ItemMoves ==
    ASSUME NEW f \in [Items -> States], NEW i \in Items, NEW r \in States
    PROVE  LET g == [f EXCEPT ![i] = r]
           IN /\ g \in [Items -> States]
              /\ Cardinality(RunningIn(f)) \in Nat
              /\ Cardinality(RunningIn(g)) = IF f[i] = r THEN Cardinality(RunningIn(f))
                                             ELSE IF f[i] = "running" THEN Cardinality(RunningIn(f)) - 1
                                             ELSE IF r = "running" THEN Cardinality(RunningIn(f)) + 1
                                             ELSE Cardinality(RunningIn(f))
<1> DEFINE g == [f EXCEPT ![i] = r]
<1>1. IsFiniteSet(RunningIn(f)) /\ Cardinality(RunningIn(f)) \in Nat
  <2>1. IsFiniteSet(Items) /\ RunningIn(f) \in SUBSET Items
    BY SizeAssumption, FS_Interval DEF Items, RunningIn
  <2> QED
    BY <2>1, FS_Subset, FS_CardinalityType
<1>2. g \in [Items -> States] /\ g[i] = r /\ \A j \in Items \ {i} : g[j] = f[j]
  OBVIOUS
<1> HIDE DEF g
<1>3. CASE f[i] = r \/ (f[i] # "running" /\ r # "running")
  <2>1. RunningIn(g) = RunningIn(f)
    BY <1>2, <1>3 DEF RunningIn
  <2> QED
    BY <1>1, <1>2, <1>3, <2>1 DEF g
<1>4. CASE f[i] = "running" /\ r # "running"
  <2>1. RunningIn(g) = RunningIn(f) \ {i} /\ i \in RunningIn(f)
    BY <1>2, <1>4 DEF RunningIn
  <2>2. Cardinality(RunningIn(g)) = Cardinality(RunningIn(f)) - 1
    BY <1>1, <2>1, FS_RemoveElement
  <2> QED
    BY <1>1, <1>2, <1>4, <2>2 DEF g
<1>5. CASE f[i] # "running" /\ r = "running"
  <2>1. RunningIn(g) = RunningIn(f) \cup {i} /\ i \notin RunningIn(f)
    BY <1>2, <1>5 DEF RunningIn
  <2>2. Cardinality(RunningIn(g)) = Cardinality(RunningIn(f)) + 1
    BY <1>1, <2>1, FS_AddElement
  <2> QED
    BY <1>1, <1>2, <1>5, <2>2 DEF g
<1> QED
  BY <1>3, <1>4, <1>5

\* The two invariants of the semaphore in the terms of the lemmas above.
LEMMA SlotsRead ==
    /\ SlotsConserved <=> (pc \in {"gathering", "draining"} =>
                              sem.value + Cardinality(RunningIn(item)) + Cardinality(Awake(sem))
                                 = ConcurrentLimit(args))
    /\ NoIdleSlot <=> Busy(sem)
<1>1. RunningIn(item) = ItemsAt("running")
  BY DEF RunningIn, ItemsAt
<1>2. Awake(sem) = {n \in 1 .. Len(sem.waiters) : sem.waiters[n].fut = "woken"}
  BY DEF Awake
<1>3. SlotsConserved <=> (pc \in {"gathering", "draining"} =>
                              sem.value + Cardinality(RunningIn(item)) + Cardinality(Awake(sem))
                                 = ConcurrentLimit(args))
  BY <1>1, <1>2 DEF SlotsConserved
<1>4. NoIdleSlot <=> Busy(sem)
  <2>1. (\E n \in 1 .. Len(sem.waiters) : sem.waiters[n].fut = "pending") <=> Asleep(sem) # {}
    BY DEF Asleep
  <2>2. (\E n \in 1 .. Len(sem.waiters) : sem.waiters[n].fut = "woken") <=> Awake(sem) # {}
    BY DEF Awake
  <2> QED
    BY <2>1, <2>2 DEF NoIdleSlot, Busy
<1> QED
  BY <1>3, <1>4

\* ... and after a step.
LEMMA SlotsReadNext ==
    /\ SlotsConserved' <=> (pc' \in {"gathering", "draining"} =>
                              sem'.value + Cardinality(RunningIn(item')) + Cardinality(Awake(sem'))
                                 = ConcurrentLimit(args)')
    /\ NoIdleSlot' <=> Busy(sem')
<1>1. RunningIn(item') = ItemsAt("running")'
  BY DEF RunningIn, ItemsAt
<1>2. Awake(sem') = {n \in 1 .. Len(sem'.waiters) : sem'.waiters[n].fut = "woken"}
  BY DEF Awake
<1>3. SlotsConserved' <=> (pc' \in {"gathering", "draining"} =>
                              sem'.value + Cardinality(RunningIn(item')) + Cardinality(Awake(sem'))
                                 = ConcurrentLimit(args)')
  BY <1>1, <1>2 DEF SlotsConserved
<1>4. NoIdleSlot' <=> Busy(sem')
  <2>1. (\E n \in 1 .. Len(sem'.waiters) : sem'.waiters[n].fut = "pending") <=> Asleep(sem') # {}
    BY DEF Asleep
  <2>2. (\E n \in 1 .. Len(sem'.waiters) : sem'.waiters[n].fut = "woken") <=> Awake(sem') # {}
    BY DEF Awake
  <2> QED
    BY <2>1, <2>2 DEF NoIdleSlot, Busy
<1> QED
  BY <1>3, <1>4

\* Only a parallel call that is not over has tasks that have not begun.
LEMMA TasksAreParallel ==
    ASSUME BInv, NEW i \in Items, item[i] \in {"new", "queued"}
    PROVE  pc \in {"gathering", "draining"} /\ outer # "result"
<1>1. pc \in {"called", "sequential", "gathering", "draining", "returned", "raised"}
  BY DEF BInv, TypeInv, TypeOK
<1>2. pc \notin {"returned", "raised"}
  BY DEF BInv, NothingOutlivesTheCall, Unended, Is
<1>3. pc \notin {"called", "sequential"}
  <2> SUFFICES ASSUME pc \in {"called", "sequential"} PROVE FALSE
    OBVIOUS
  <2>1. results \in Seq(Items \X {"ok", "error"})
    BY DEF BInv, TypeInv
  <2>2. Len(results) \in Nat /\ \A n \in 1 .. Len(results) : results[n] \in Items \X {"ok", "error"}
    BY <2>1, ElementOfSeq, LenProperties
  <2>3. i <= Len(results) /\ i \in 1 .. Len(results)
    BY <2>2, SizeAssumption DEF BInv, InOrder, Items
  <2>4. results[i] = <<i, item[i]>>
    BY <2>3 DEF BInv, InOrder
  <2>5. item[i] \in {"ok", "error"}
    BY <2>2, <2>3, <2>4
  <2> QED
    BY <2>5
<1>4. outer # "result"
  BY <1>1, <1>2, <1>3 DEF BInv, InParallel, Unended, Is
<1> QED
  BY <1>1, <1>2, <1>3, <1>4

\* A task that gets to run, or to queue, keeps the invariant.
LEMMA BeginProperties ==
    ASSUME BInv, NEW i \in Items, item[i] \in {"new", "queued"}, NEW r \in {"queued", "running"},
           item' = [item EXCEPT ![i] = r],
           UNCHANGED <<args, pc, cancelling, outer, stopping, results>>,
           sem' \in SemaphoreType(Items), Busy(sem'),
           Spare(sem') = IF r = "running" THEN Spare(sem) - 1 ELSE Spare(sem)
    PROVE  BInv'
<1>1. pc \in {"gathering", "draining"} /\ outer # "result"
  BY TasksAreParallel
<1>2. /\ item \in [Items -> States] /\ sem \in SemaphoreType(Items)
      /\ r \in States /\ item[i] # "running" /\ r \notin Ended
  BY DEF BInv, TypeInv, TypeOK, States, Ended
<1>3. TypeInv'
  BY <1>2 DEF BInv, TypeInv, TypeOK, States
<1>4. SlotsConserved' /\ NoIdleSlot'
  <2>1. /\ sem.value \in Nat /\ Cardinality(Awake(sem)) \in Nat
        /\ sem'.value \in Nat /\ Cardinality(Awake(sem')) \in Nat
    BY <1>2, QueueParts
  <2>2. /\ Cardinality(RunningIn(item)) \in Nat
        /\ Cardinality(RunningIn(item')) = IF r = "running" THEN Cardinality(RunningIn(item)) + 1
                                           ELSE Cardinality(RunningIn(item))
    <3> DEFINE g == [item EXCEPT ![i] = r]
    <3>1. /\ Cardinality(RunningIn(item)) \in Nat
          /\ Cardinality(RunningIn(g)) = IF item[i] = r THEN Cardinality(RunningIn(item))
                                         ELSE IF item[i] = "running" THEN Cardinality(RunningIn(item)) - 1
                                         ELSE IF r = "running" THEN Cardinality(RunningIn(item)) + 1
                                         ELSE Cardinality(RunningIn(item))
      BY <1>2, ItemMoves
    <3>2. g = item'
      BY <1>2
    <3> HIDE DEF g
    <3> QED
      BY <1>2, <3>1, <3>2
  <2>3. sem.value + Cardinality(RunningIn(item)) + Cardinality(Awake(sem)) = ConcurrentLimit(args)
    BY <1>1, SlotsRead DEF BInv
  <2>4. sem'.value + Cardinality(RunningIn(item')) + Cardinality(Awake(sem')) = ConcurrentLimit(args)
    BY <2>1, <2>2, <2>3 DEF Spare
  <2>5. ConcurrentLimit(args)' = ConcurrentLimit(args)
    BY DEF ConcurrentLimit
  <2> QED
    BY <2>4, <2>5, SlotsReadNext
<1>5. \A j \in Items : /\ item'[j] = IF j = i THEN r ELSE item[j]
                       /\ item'[j] \in Ended <=> item[j] \in Ended
                       /\ item'[j] \in Ended => item'[j] = item[j]
                       /\ item'[j] = "idle" <=> item[j] = "idle"
  BY <1>2 DEF States, Ended
<1>6. InOrder' /\ FailuresAsAsked'
  <2>1. InOrder'
    BY <1>1 DEF InOrder
  <2>2. FailureOf(args)' = FailureOf(args)
    BY DEF FailureOf
  <2>3. FailuresAsAsked'
    BY <1>5, <2>2 DEF BInv, FailuresAsAsked, Ended
  <2> QED
    BY <2>1, <2>3
<1>7. InParallel'
  <2>1. ItemsAt("failed")' = ItemsAt("failed") /\ ItemsAt("cancelled")' = ItemsAt("cancelled")
    BY <1>5 DEF ItemsAt, Ended
  <2> QED
    BY <1>1, <1>5, <2>1 DEF BInv, InParallel
<1>8. NothingOutlivesTheCall' /\ ReturnsAllInOrder' /\ FailuresFillTheirSlots'
  BY <1>1 DEF NothingOutlivesTheCall, ReturnsAllInOrder, FailuresFillTheirSlots
<1> QED
  BY <1>3, <1>4, <1>6, <1>7, <1>8 DEF BInv

\* So does a task that ends.
LEMMA EndProperties ==
    ASSUME BInv, NEW i \in Items, NEW r \in Ended, EndTask(i, r),
           item[i] \in {"new", "queued", "running"}, pc \in {"gathering", "draining"},
           r \in {"failed", "error"} => r = FailureOf(args),
           UNCHANGED <<args, pc, stopping, results>>,
           sem' \in SemaphoreType(Items), Busy(sem'),
           Spare(sem') = IF item[i] = "running" THEN Spare(sem) + 1 ELSE Spare(sem)
    PROVE  BInv'
<1>1. /\ item \in [Items -> States] /\ sem \in SemaphoreType(Items)
      /\ r \in States /\ item[i] # r /\ r # "running" /\ item[i] \notin Ended
      /\ item' = [item EXCEPT ![i] = r] /\ outer' = Gathered(i, r)
      /\ cancelling' = cancelling \ {i}
  BY DEF BInv, TypeInv, TypeOK, States, Ended, EndTask
<1>2. outer \in {"pending", "exception", "cancelled"}
  BY <1>1 DEF BInv, TypeInv, TypeOK, InParallel, Unended, Is
<1>3. TypeInv'
  <2>1. outer' \in {"pending", "result", "exception", "cancelled"}
    BY <1>1, <1>2 DEF Gathered
  <2> QED
    BY <1>1, <2>1 DEF BInv, TypeInv, TypeOK, States
<1>4. SlotsConserved' /\ NoIdleSlot'
  <2>1. /\ sem.value \in Nat /\ Cardinality(Awake(sem)) \in Nat
        /\ sem'.value \in Nat /\ Cardinality(Awake(sem')) \in Nat
    BY <1>1, QueueParts
  <2>2. /\ Cardinality(RunningIn(item)) \in Nat
        /\ Cardinality(RunningIn(item')) = IF item[i] = "running" THEN Cardinality(RunningIn(item)) - 1
                                           ELSE Cardinality(RunningIn(item))
    <3> DEFINE g == [item EXCEPT ![i] = r]
    <3>1. /\ Cardinality(RunningIn(item)) \in Nat
          /\ Cardinality(RunningIn(g)) = IF item[i] = r THEN Cardinality(RunningIn(item))
                                         ELSE IF item[i] = "running" THEN Cardinality(RunningIn(item)) - 1
                                         ELSE IF r = "running" THEN Cardinality(RunningIn(item)) + 1
                                         ELSE Cardinality(RunningIn(item))
      BY <1>1, ItemMoves
    <3>2. g = item'
      BY <1>1
    <3> HIDE DEF g
    <3> QED
      BY <1>1, <3>1, <3>2
  <2>3. sem.value + Cardinality(RunningIn(item)) + Cardinality(Awake(sem)) = ConcurrentLimit(args)
    BY SlotsRead DEF BInv
  <2>4. sem'.value + Cardinality(RunningIn(item')) + Cardinality(Awake(sem')) = ConcurrentLimit(args)
    BY <2>1, <2>2, <2>3 DEF Spare
  <2>5. ConcurrentLimit(args)' = ConcurrentLimit(args)
    BY DEF ConcurrentLimit
  <2> QED
    BY <2>4, <2>5, SlotsReadNext
<1>5. /\ \A j \in Items : item'[j] = IF j = i THEN r ELSE item[j]
      /\ \A j \in Items : item'[j] = "idle" <=> item[j] = "idle"
  BY <1>1 DEF States, Ended
<1>6. InOrder' /\ FailuresAsAsked'
  <2>1. InOrder'
    BY DEF InOrder
  <2>2. FailureOf(args)' = FailureOf(args)
    BY DEF FailureOf
  <2>3. FailuresAsAsked'
    BY <1>5, <2>2 DEF BInv, FailuresAsAsked
  <2> QED
    BY <2>1, <2>3
<1>7. InParallel'
  <2>1. \A j \in Items : item'[j] = "idle" <=> j > args.size
    BY <1>5 DEF BInv, InParallel
  <2>2. /\ ItemsAt("failed")' = IF r = "failed" THEN ItemsAt("failed") \cup {i} ELSE ItemsAt("failed")
        /\ ItemsAt("cancelled")' = IF r = "cancelled" THEN ItemsAt("cancelled") \cup {i}
                                                     ELSE ItemsAt("cancelled")
    BY <1>1, <1>5 DEF ItemsAt, Ended
  <2>3. CASE outer # "pending"
    <3>1. outer' = outer
      BY <1>1, <2>3 DEF Gathered
    <3> QED
      BY <1>2, <2>1, <2>2, <2>3, <3>1 DEF BInv, InParallel
  <2>4. CASE outer = "pending" /\ r \in {"failed", "cancelled"}
    <3>1. outer' = "exception"
      BY <1>1, <2>4 DEF Gathered
    <3>2. ItemsAt("failed")' # {} \/ ItemsAt("cancelled")' # {}
      BY <2>2, <2>4
    <3> QED
      BY <2>1, <2>4, <3>1, <3>2 DEF BInv, InParallel
  <2>5. CASE outer = "pending" /\ r \notin {"failed", "cancelled"}
    <3> DEFINE all == \A j \in 1 .. args.size : j = i \/ Is(j, Ended)
    <3>1. ItemsAt("failed")' = {} /\ ItemsAt("cancelled")' = {} /\ pc = "gathering"
      BY <2>2, <2>5 DEF BInv, InParallel
    <3>2. outer' = IF all /\ stopping THEN "exception" ELSE IF all THEN "result" ELSE "pending"
      BY <1>1, <2>5 DEF Gathered
    <3>3. ASSUME all PROVE Unended' = {}
      <4> SUFFICES ASSUME NEW j \in Items, item'[j] \in {"new", "queued", "running"} PROVE FALSE
        BY DEF Unended, Is
      <4>1. j # i /\ item[j] \in {"new", "queued", "running"}
        BY <1>5 DEF Ended
      <4>2. ~(j > args.size) /\ j \in 1 .. args.size
        BY <4>1, SizeAssumption DEF BInv, TypeInv, TypeOK, Arguments, InParallel, Items
      <4>3. item[j] \in Ended
        BY <3>3, <4>1, <4>2 DEF Is
      <4> QED
        BY <4>1, <4>3 DEF Ended
    <3>4. args.mode = "parallel"
      BY DEF BInv, InParallel
    <3> HIDE DEF all
    <3> QED
      BY <2>1, <2>5, <3>1, <3>2, <3>3, <3>4 DEF InParallel
  <2> QED
    BY <2>3, <2>4, <2>5
<1>8. NothingOutlivesTheCall' /\ ReturnsAllInOrder' /\ FailuresFillTheirSlots'
  BY DEF NothingOutlivesTheCall, ReturnsAllInOrder, FailuresFillTheirSlots
<1> QED
  BY <1>3, <1>4, <1>6, <1>7, <1>8 DEF BInv

\* Cancelling tasks moves no slot and wakes nobody.
LEMMA CancelProperties ==
    ASSUME NEW S, sem \in SemaphoreType(Items), Busy(sem), CancelTasks(S)
    PROVE  /\ sem' \in SemaphoreType(Items) /\ Busy(sem')
           /\ sem'.value = sem.value /\ Awake(sem') = Awake(sem)
           /\ cancelling' = cancelling \cup S
<1> DEFINE L == Len(sem.waiters)
           q == [n \in 1 .. L |-> IF sem.waiters[n].task \in S /\ sem.waiters[n].fut = "pending"
                                  THEN [sem.waiters[n] EXCEPT !.fut = "cancelled"]
                                  ELSE sem.waiters[n]]
<1>1. sem.value \in Nat /\ L \in Nat /\ \A n \in 1 .. L : sem.waiters[n] \in SlotWaiter(Items)
  BY QueueParts
<1>2. sem' = [value |-> sem.value, waiters |-> q] /\ cancelling' = cancelling \cup S
  <2>1. \A x : [sem EXCEPT !.waiters = x] = [value |-> sem.value, waiters |-> x]
    BY DEF SemaphoreType
  <2> QED
    BY <2>1 DEF CancelTasks
<1>3. \A n \in 1 .. L : q[n] \in SlotWaiter(Items)
  BY <1>1 DEF SlotWaiter
<1>4. \A n \in 1 .. L : /\ q[n].fut = "woken" <=> sem.waiters[n].fut = "woken"
                        /\ q[n].fut = "pending" => sem.waiters[n].fut = "pending"
  BY <1>1 DEF SlotWaiter
<1>5. q \in Seq(SlotWaiter(Items)) /\ Len(q) = L
  <2> HIDE DEF L
  <2> QED
    BY <1>1, <1>3
<1>6. sem'.value = sem.value /\ sem'.waiters = q
  BY <1>2
<1>7. sem' \in SemaphoreType(Items)
  BY <1>1, <1>2, <1>5 DEF SemaphoreType, SlotWaiter
<1> HIDE DEF q
<1>8. Awake(sem') = Awake(sem) /\ Asleep(sem') \subseteq Asleep(sem)
  BY <1>4, <1>5, <1>6 DEF Awake, Asleep
<1> QED
  BY <1>2, <1>6, <1>7, <1>8 DEF Busy

--------------------------------------------------------------------------------
(* The invariant is inductive.                                                  *)

\* It holds when the call begins.
LEMMA BInvInit ==
    ASSUME Init
    PROVE  BInv
<1>1. sem = [value |-> 0, waiters |-> << >>] /\ sem \in SemaphoreType(Items)
  BY DEF Init, Slots, SemaphoreType
<1>2. results = << >> /\ Len(results) = 0 /\ results \in Seq(Items \X {"ok", "error"})
  BY DEF Init
<1>3. TypeInv
  <2>1. \A n \in 1 .. Len(results) : results[n] \in Items \X {"ok", "error"}
    BY <1>2
  <2>2. item \in [Items -> {"idle", "new", "queued", "running"} \cup Ended]
    BY DEF Init
  <2> QED
    BY <1>1, <1>2, <2>1, <2>2 DEF Init, TypeInv, TypeOK
<1>4. InOrder
  <2>1. args.size \in Nat
    BY SizeAssumption DEF Init, Arguments
  <2> QED
    BY <1>2, <2>1 DEF Init, InOrder, ItemsAt
<1>5. InParallel /\ SlotsConserved
  BY DEF Init, InParallel, SlotsConserved
<1>6. FailuresAsAsked
  BY DEF Init, FailuresAsAsked
<1>7. NoIdleSlot
  BY <1>1 DEF NoIdleSlot
<1>8. NothingOutlivesTheCall /\ ReturnsAllInOrder /\ FailuresFillTheirSlots
  BY DEF Init, NothingOutlivesTheCall, ReturnsAllInOrder, FailuresFillTheirSlots
<1> QED
  BY <1>3, <1>4, <1>5, <1>6, <1>7, <1>8 DEF BInv

\* What a call that has not begun, or is sequential, knows of its results.
LEMMA PrefixDone ==
    ASSUME BInv, pc \in {"called", "sequential"}
    PROVE  /\ args.size \in 0 .. MaxItems /\ Len(results) \in 0 .. args.size
           /\ \A n \in 1 .. Len(results) : n \in Items /\ item[n] \in {"ok", "error"}
           /\ \A j \in Items : item[j] \in {"idle", "running", "ok", "error"}
<1>1. /\ args.size \in 0 .. MaxItems /\ MaxItems \in Nat
      /\ results \in Seq(Items \X {"ok", "error"})
  BY SizeAssumption DEF BInv, TypeInv, TypeOK, Arguments
<1>2. /\ Len(results) \in Nat
      /\ \A n \in 1 .. Len(results) : results[n] \in Items \X {"ok", "error"}
  BY <1>1, ElementOfSeq, LenProperties
<1>3. Len(results) \in 0 .. args.size
  BY <1>1, <1>2 DEF BInv, InOrder
<1>4. ASSUME NEW n \in 1 .. Len(results) PROVE n \in Items /\ item[n] \in {"ok", "error"}
  <2>1. results[n] = <<n, item[n]>>
    BY DEF BInv, InOrder
  <2> QED
    BY <1>2, <2>1
<1>5. ASSUME NEW j \in Items PROVE item[j] \in {"idle", "running", "ok", "error"}
  <2>1. j <= Len(results) => j \in 1 .. Len(results)
    BY <1>1, <1>2 DEF Items
  <2> QED
    BY <1>4, <2>1 DEF BInv, InOrder
<1> QED
  BY <1>1, <1>3, <1>4, <1>5

LEMMA RefuseKeeps ==
    ASSUME BInv, Refuse
    PROVE  BInv'
<1>1. pc = "called" /\ pc' = "raised" /\ UNCHANGED <<args, item, sem, cancelling, outer, stopping, results>>
  BY DEF Refuse
<1>2. TypeInv' /\ NoIdleSlot' /\ FailuresAsAsked'
  BY <1>1 DEF BInv, TypeInv, TypeOK, NoIdleSlot, FailuresAsAsked, FailureOf
<1>3. InOrder' /\ InParallel' /\ SlotsConserved' /\ ReturnsAllInOrder'
  BY <1>1 DEF InOrder, InParallel, SlotsConserved, ReturnsAllInOrder
<1>4. NothingOutlivesTheCall'
  <2>1. \A j \in Items : item[j] \in {"idle", "running", "ok", "error"} /\ item[j] # "running"
    BY <1>1, PrefixDone DEF BInv, InOrder, ItemsAt
  <2> QED
    BY <1>1, <2>1 DEF NothingOutlivesTheCall, Unended, Is
<1>5. FailuresFillTheirSlots'
  <2>1. Refused(args)'
    BY <1>1 DEF Refuse, Refused
  <2> QED
    BY <2>1 DEF FailuresFillTheirSlots
<1> QED
  BY <1>2, <1>3, <1>4, <1>5 DEF BInv

LEMMA StartSequentialKeeps ==
    ASSUME BInv, StartSequential
    PROVE  BInv'
<1>1. /\ pc = "called" /\ pc' = "sequential" /\ args.mode = "sequential"
      /\ UNCHANGED <<args, item, sem, cancelling, outer, stopping, results>>
  BY DEF StartSequential
<1>2. TypeInv' /\ NoIdleSlot' /\ FailuresAsAsked'
  BY <1>1 DEF BInv, TypeInv, TypeOK, NoIdleSlot, FailuresAsAsked, FailureOf
<1>3. InOrder'
  BY <1>1 DEF BInv, InOrder
<1>4. InParallel' /\ SlotsConserved'
  BY <1>1 DEF InParallel, SlotsConserved
<1>5. NothingOutlivesTheCall' /\ ReturnsAllInOrder' /\ FailuresFillTheirSlots'
  BY <1>1 DEF NothingOutlivesTheCall, ReturnsAllInOrder, FailuresFillTheirSlots
<1> QED
  BY <1>2, <1>3, <1>4, <1>5 DEF BInv

LEMMA StepSequentialKeeps ==
    ASSUME BInv, StepSequential
    PROVE  BInv'
<1>1. /\ pc = "sequential" /\ ItemsAt("running") = {}
      /\ UNCHANGED <<args, sem, cancelling, outer, stopping, results>>
  BY DEF StepSequential
<1>2. /\ args.size \in 0 .. MaxItems /\ MaxItems \in Nat /\ Len(results) \in 0 .. args.size
      /\ \A n \in 1 .. Len(results) : n \in Items /\ item[n] \in {"ok", "error"}
      /\ \A j \in Items : item[j] \in {"idle", "ok", "error"}
  BY <1>1, PrefixDone, SizeAssumption DEF ItemsAt
<1>3. NoIdleSlot'
  BY <1>1 DEF BInv, NoIdleSlot
<1>4. CASE Len(results) < args.size
  <2> DEFINE i == Len(results) + 1
  <2>1. i \in Items /\ item' = [item EXCEPT ![i] = "running"] /\ pc' = "sequential"
    BY <1>1, <1>2, <1>4 DEF StepSequential, Items
  <2>2. item \in [Items -> States] /\ \A j \in Items : item'[j] = IF j = i THEN "running" ELSE item[j]
    BY <2>1 DEF BInv, TypeInv, TypeOK, States
  <2>3. TypeInv' /\ FailuresAsAsked'
    <3>1. TypeInv'
      BY <1>1, <2>1, <2>2 DEF BInv, TypeInv, TypeOK, States
    <3>2. FailuresAsAsked'
      BY <1>1, <2>2 DEF BInv, FailuresAsAsked, FailureOf
    <3> QED
      BY <3>1, <3>2
  <2>4. InOrder'
    <3>1. \A n \in 1 .. Len(results) : n # i
      BY <1>2
    <3>2. \A n \in 1 .. Len(results) : results[n] = <<n, item'[n]>>
      BY <1>1, <1>2, <2>2, <3>1 DEF BInv, InOrder
    <3>3. \A j \in Items : \/ j <= Len(results) \/ item'[j] = "idle"
                           \/ j = i /\ j <= args.size /\ item'[j] = "running"
      BY <1>1, <1>2, <1>4, <2>1, <2>2 DEF BInv, InOrder, ItemsAt
    <3>4. args.mode = "sequential"
      BY <1>1 DEF BInv, InOrder
    <3> QED
      BY <1>1, <1>2, <2>1, <3>2, <3>3, <3>4 DEF InOrder
  <2>5. InParallel' /\ SlotsConserved' /\ NothingOutlivesTheCall' /\ ReturnsAllInOrder'
        /\ FailuresFillTheirSlots'
    BY <2>1 DEF InParallel, SlotsConserved, NothingOutlivesTheCall, ReturnsAllInOrder,
                FailuresFillTheirSlots
  <2> QED
    BY <1>3, <2>3, <2>4, <2>5 DEF BInv
<1>5. CASE ~(Len(results) < args.size)
  <2>1. pc' = "returned" /\ item' = item /\ Len(results) = args.size
    BY <1>2, <1>5 DEF StepSequential
  <2>2. TypeInv' /\ FailuresAsAsked'
    BY <1>1, <2>1 DEF BInv, TypeInv, TypeOK, FailuresAsAsked, FailureOf
  <2>3. InOrder' /\ InParallel' /\ SlotsConserved' /\ FailuresFillTheirSlots'
    BY <2>1 DEF InOrder, InParallel, SlotsConserved, FailuresFillTheirSlots
  <2>4. NothingOutlivesTheCall'
    BY <1>2, <2>1 DEF NothingOutlivesTheCall, Unended, Is
  <2>5. ReturnsAllInOrder'
    <3>1. ASSUME NEW n \in 1 .. args.size
          PROVE  results[n] = <<n, item[n]>> /\ (args.fail_fast => results[n][2] = "ok")
      <4>1. results[n] = <<n, item[n]>> /\ n \in Items /\ item[n] \in {"ok", "error"}
        BY <1>1, <1>2, <2>1 DEF BInv, InOrder
      <4>2. item[n] = "error" => ~args.fail_fast
        BY <4>1 DEF BInv, FailuresAsAsked, FailureOf
      <4> QED
        BY <4>1, <4>2
    <3> QED
      BY <1>1, <2>1, <3>1 DEF ReturnsAllInOrder
  <2> QED
    BY <1>3, <2>2, <2>3, <2>4, <2>5 DEF BInv
<1> QED
  BY <1>4, <1>5

\* The one item a sequential call runs.
LEMMA SequentialRun ==
    ASSUME BInv, pc = "sequential", NEW i \in Items, item[i] = "running"
    PROVE  /\ i = Len(results) + 1 /\ i <= args.size
           /\ args.size \in 0 .. MaxItems /\ MaxItems \in Nat /\ Len(results) \in 0 .. args.size
           /\ \A n \in 1 .. Len(results) : n \in Items /\ n # i
           /\ \A j \in Items \ {i} : item[j] \in {"idle", "ok", "error"}
<1>1. /\ args.size \in 0 .. MaxItems /\ MaxItems \in Nat /\ Len(results) \in 0 .. args.size
      /\ \A n \in 1 .. Len(results) : n \in Items /\ item[n] \in {"ok", "error"}
      /\ \A j \in Items : item[j] \in {"idle", "running", "ok", "error"}
  BY PrefixDone, SizeAssumption
<1>2. ASSUME NEW j \in Items, item[j] = "running"
      PROVE  j = Len(results) + 1 /\ j <= args.size
  <2>1. ~(j <= Len(results))
    <3> SUFFICES ASSUME j <= Len(results) PROVE FALSE
      OBVIOUS
    <3>1. j \in 1 .. Len(results)
      BY <1>1 DEF Items
    <3> QED
      BY <1>1, <1>2, <3>1
  <2> QED
    BY <1>2, <2>1 DEF BInv, InOrder
<1> QED
  BY <1>1, <1>2

LEMMA EndSequentialKeeps ==
    ASSUME BInv, NEW i \in Items, EndSequential(i)
    PROVE  BInv'
<1>1. /\ pc = "sequential" /\ item[i] = "running"
      /\ UNCHANGED <<args, sem, cancelling, outer, stopping>>
  BY DEF EndSequential, Is
<1>2. PICK r \in {"ok", FailureOf(args)} :
          /\ item' = [item EXCEPT ![i] = r]
          /\ IF r = "failed" THEN pc' = "raised" /\ UNCHANGED results
                             ELSE results' = Append(results, <<i, r>>) /\ UNCHANGED pc
  BY DEF EndSequential
<1>3. /\ r \in {"ok", "error", "failed"}
      /\ r = "failed" => args.fail_fast
      /\ r \in {"failed", "error"} => r = FailureOf(args)
  BY DEF FailureOf
<1>4. /\ i = Len(results) + 1 /\ i <= args.size
      /\ args.size \in 0 .. MaxItems /\ MaxItems \in Nat /\ Len(results) \in 0 .. args.size
      /\ \A n \in 1 .. Len(results) : n \in Items /\ n # i
      /\ \A j \in Items \ {i} : item[j] \in {"idle", "ok", "error"}
  BY <1>1, SequentialRun
<1>5. /\ item \in [Items -> States] /\ item' \in [Items -> States]
      /\ \A j \in Items : item'[j] = IF j = i THEN r ELSE item[j]
  BY <1>2, <1>3 DEF BInv, TypeInv, TypeOK, States, Ended
<1>6. FailuresAsAsked' /\ NoIdleSlot'
  <2>1. FailureOf(args)' = FailureOf(args)
    BY <1>1 DEF FailureOf
  <2>2. NoIdleSlot'
    BY <1>1 DEF BInv, NoIdleSlot
  <2>3. FailuresAsAsked'
    BY <1>3, <1>5, <2>1 DEF BInv, FailuresAsAsked
  <2> QED
    BY <2>2, <2>3
<1>7. \A j \in Items : item'[j] \notin {"new", "queued", "running"}
  BY <1>3, <1>4, <1>5
<1>8. results \in Seq(Items \X {"ok", "error"})
  BY DEF BInv, TypeInv
<1>9. CASE r = "failed"
  <2>1. pc' = "raised" /\ results' = results
    BY <1>2, <1>9
  <2>2. TypeInv'
    BY <1>1, <1>5, <2>1 DEF BInv, TypeInv, TypeOK, States
  <2>3. InOrder' /\ InParallel' /\ SlotsConserved' /\ ReturnsAllInOrder'
    BY <2>1 DEF InOrder, InParallel, SlotsConserved, ReturnsAllInOrder
  <2>4. NothingOutlivesTheCall'
    BY <1>7 DEF NothingOutlivesTheCall, Unended, Is
  <2>5. FailuresFillTheirSlots'
    BY <1>1, <1>3, <1>9 DEF FailuresFillTheirSlots
  <2> QED
    BY <1>6, <2>2, <2>3, <2>4, <2>5 DEF BInv
<1>10. CASE r # "failed"
  <2>1. pc' = "sequential" /\ results' = Append(results, <<i, r>>) /\ <<i, r>> \in Items \X {"ok", "error"}
    BY <1>1, <1>2, <1>3, <1>10
  <2>2. /\ results' \in Seq(Items \X {"ok", "error"}) /\ Len(results') = i
        /\ \A n \in 1 .. Len(results) : results'[n] = results[n]
        /\ results'[i] = <<i, r>>
    BY <1>4, <1>8, <2>1, AppendProperties
  <2>3. TypeInv'
    <3>1. \A n \in 1 .. Len(results') : results'[n] \in Items \X {"ok", "error"}
      BY <2>2, ElementOfSeq
    <3> QED
      BY <1>1, <1>5, <2>1, <2>2, <3>1 DEF BInv, TypeInv, TypeOK, States
  <2>4. InOrder'
    <3>1. \A n \in 1 .. i : results'[n] = <<n, item'[n]>>
      <4> SUFFICES ASSUME NEW n \in 1 .. i PROVE results'[n] = <<n, item'[n]>>
        OBVIOUS
      <4>1. CASE n = i
        BY <1>5, <2>2, <4>1
      <4>2. CASE n # i
        <5>1. n \in 1 .. Len(results) /\ n \in Items
          BY <1>4, <4>2
        <5>2. results[n] = <<n, item[n]>>
          BY <1>1, <5>1 DEF BInv, InOrder
        <5> QED
          BY <1>5, <2>2, <4>2, <5>1, <5>2
      <4> QED
        BY <4>1, <4>2
    <3>2. \A j \in Items : j <= i \/ item'[j] = "idle"
      BY <1>1, <1>4, <1>5 DEF BInv, InOrder, Items
    <3>3. args.mode = "sequential"
      BY <1>1 DEF BInv, InOrder
    <3> QED
      BY <1>1, <1>4, <2>1, <2>2, <3>1, <3>2, <3>3 DEF InOrder
  <2>5. InParallel' /\ SlotsConserved' /\ NothingOutlivesTheCall' /\ ReturnsAllInOrder'
        /\ FailuresFillTheirSlots'
    BY <2>1 DEF InParallel, SlotsConserved, NothingOutlivesTheCall, ReturnsAllInOrder,
                FailuresFillTheirSlots
  <2> QED
    BY <1>6, <2>3, <2>4, <2>5 DEF BInv
<1> QED
  BY <1>9, <1>10

LEMMA CancelSequentialKeeps ==
    ASSUME BInv, NEW i \in Items, CancelSequential(i)
    PROVE  BInv'
<1>1. /\ pc = "sequential" /\ item[i] = "running" /\ pc' = "raised"
      /\ item' = [item EXCEPT ![i] = "cancelled"]
      /\ UNCHANGED <<args, sem, cancelling, outer, stopping, results>>
  BY DEF CancelSequential, Is
<1>2. \A j \in Items \ {i} : item[j] \in {"idle", "ok", "error"}
  BY <1>1, SequentialRun
<1>3. /\ item \in [Items -> States] /\ item' \in [Items -> States]
      /\ \A j \in Items : item'[j] = IF j = i THEN "cancelled" ELSE item[j]
  BY <1>1 DEF BInv, TypeInv, TypeOK, States, Ended
<1>4. TypeInv'
  BY <1>1, <1>3 DEF BInv, TypeInv, TypeOK, States
<1>5. FailuresAsAsked' /\ NoIdleSlot'
  BY <1>1, <1>3 DEF BInv, FailuresAsAsked, FailureOf, NoIdleSlot
<1>6. InOrder' /\ InParallel' /\ SlotsConserved' /\ ReturnsAllInOrder'
  BY <1>1 DEF InOrder, InParallel, SlotsConserved, ReturnsAllInOrder
<1>7. NothingOutlivesTheCall'
  BY <1>2, <1>3 DEF NothingOutlivesTheCall, Unended, Is
<1>8. FailuresFillTheirSlots'
  <2>1. i \in ItemsAt("cancelled")'
    BY <1>3 DEF ItemsAt
  <2> QED
    BY <2>1 DEF FailuresFillTheirSlots
<1> QED
  BY <1>4, <1>5, <1>6, <1>7, <1>8 DEF BInv

LEMMA StartParallelKeeps ==
    ASSUME BInv, StartParallel
    PROVE  BInv'
<1>1. /\ pc = "called" /\ ~Refused(args) /\ args.mode = "parallel" /\ pc' = "gathering"
      /\ sem' = Slots(ConcurrentLimit(args))
      /\ item' = [j \in Items |-> IF j <= args.size THEN "new" ELSE "idle"]
      /\ outer' = IF args.size = 0 THEN "result" ELSE "pending"
      /\ UNCHANGED <<args, cancelling, stopping, results>>
  BY DEF StartParallel
<1>2. args \in Arguments /\ args.size \in 0 .. MaxItems /\ args.cap \in Caps /\ MaxItems \in Nat
  BY SizeAssumption DEF BInv, TypeInv, TypeOK, Arguments
<1>3. ConcurrentLimit(args) \in Nat
  <2>1. CASE args.cap = NoCap
    BY <1>2, <2>1, DefaultAssumption DEF ConcurrentLimit
  <2>2. CASE args.cap # NoCap
    <3>1. args.cap \in Int /\ ~(args.cap < 1)
      BY <1>1, <1>2, <2>2, CapsAssumption DEF Refused
    <3> QED
      BY <2>2, <3>1 DEF ConcurrentLimit
  <2> QED
    BY <2>1, <2>2
<1>4. /\ sem'.value = ConcurrentLimit(args) /\ sem'.waiters = << >>
      /\ sem' \in SemaphoreType(Items)
  BY <1>1, <1>3 DEF Slots, SemaphoreType
<1>5. Awake(sem') = {} /\ Asleep(sem') = {} /\ RunningIn(item') = {}
  BY <1>1, <1>4 DEF Awake, Asleep, RunningIn
<1>6. TypeInv'
  BY <1>1, <1>4 DEF BInv, TypeInv, TypeOK
<1>7. SlotsConserved' /\ NoIdleSlot'
  <2>1. Cardinality(Awake(sem')) = 0 /\ Cardinality(RunningIn(item')) = 0
    BY <1>5, FS_EmptySet
  <2>2. ConcurrentLimit(args)' = ConcurrentLimit(args)
    BY <1>1 DEF ConcurrentLimit
  <2>3. sem'.value + Cardinality(RunningIn(item')) + Cardinality(Awake(sem')) = ConcurrentLimit(args)
    BY <1>3, <1>4, <2>1
  <2>4. Busy(sem')
    BY <1>5 DEF Busy
  <2> QED
    BY <2>2, <2>3, <2>4, SlotsReadNext
<1>8. InParallel'
  <2>1. \A j \in Items : item'[j] = (IF j <= args.size THEN "new" ELSE "idle") /\ j \in 1 .. MaxItems
    BY <1>1 DEF Items
  <2>2. ItemsAt("failed")' = {} /\ ItemsAt("cancelled")' = {}
    BY <2>1 DEF ItemsAt
  <2>3. \A j \in Items : item'[j] = "idle" <=> j > args.size
    BY <1>2, <2>1
  <2>4. outer' = "result" => Unended' = {}
    BY <1>1, <2>1 DEF Unended, Is
  <2> QED
    BY <1>1, <2>2, <2>3, <2>4 DEF InParallel
<1>9. FailuresAsAsked'
  BY <1>1 DEF FailuresAsAsked
<1>10. InOrder' /\ NothingOutlivesTheCall' /\ ReturnsAllInOrder' /\ FailuresFillTheirSlots'
  BY <1>1 DEF InOrder, NothingOutlivesTheCall, ReturnsAllInOrder, FailuresFillTheirSlots
<1> QED
  BY <1>6, <1>7, <1>8, <1>9, <1>10 DEF BInv

LEMMA FirstStepKeeps ==
    ASSUME BInv, NEW i \in Items, FirstStep(i)
    PROVE  BInv'
<1>1. /\ item[i] = "new" /\ sem \in SemaphoreType(Items) /\ Busy(sem)
      /\ UNCHANGED <<args, pc, cancelling, outer, stopping, results>>
  BY SlotsRead DEF BInv, TypeInv, TypeOK, FirstStep, Is
<1>2. CASE Available(sem)
  <2>1. sem' = TakeSlot(sem) /\ item' = [item EXCEPT ![i] = "running"]
    BY <1>2 DEF FirstStep
  <2>2. sem' \in SemaphoreType(Items) /\ Spare(sem') = Spare(sem) - 1 /\ Busy(sem')
    BY <1>1, <1>2, <2>1, TakeSlotProperties
  <2> QED
    BY <1>1, <2>1, <2>2, BeginProperties
<1>3. CASE ~Available(sem)
  <2>1. sem' = JoinQueue(sem, i) /\ item' = [item EXCEPT ![i] = "queued"]
    BY <1>3 DEF FirstStep
  <2>2. sem' \in SemaphoreType(Items) /\ Spare(sem') = Spare(sem) /\ Busy(sem')
    BY <1>1, <1>3, <2>1, JoinQueueProperties
  <2> QED
    BY <1>1, <2>1, <2>2, BeginProperties
<1> QED
  BY <1>2, <1>3

LEMMA ResumeKeeps ==
    ASSUME BInv, NEW i \in Items, Resume(i)
    PROVE  BInv'
<1>1. /\ sem \in SemaphoreType(Items)
      /\ item' = [item EXCEPT ![i] = "running"]
      /\ UNCHANGED <<args, pc, cancelling, outer, stopping, results>>
  BY DEF BInv, TypeInv, TypeOK, Resume
<1>2. PICK n \in 1 .. Len(sem.waiters) : /\ QueuedAt(i, n)
                                         /\ sem.waiters[n].fut = "woken"
                                         /\ sem' = ResumeQueued(sem, n)
  BY DEF Resume
<1>3. item[i] = "queued"
  BY <1>2 DEF QueuedAt, Is
<1>4. sem' \in SemaphoreType(Items) /\ Spare(sem') = Spare(sem) - 1 /\ Busy(sem')
  BY <1>1, <1>2, ResumeQueuedProperties
<1> QED
  BY <1>1, <1>3, <1>4, BeginProperties

LEMMA EndParallelKeeps ==
    ASSUME BInv, NEW i \in Items, EndParallel(i)
    PROVE  BInv'
<1>1. /\ pc \in {"gathering", "draining"} /\ item[i] = "running"
      /\ sem \in SemaphoreType(Items) /\ sem' = GiveSlot(sem)
      /\ UNCHANGED <<args, pc, stopping, results>>
  BY DEF BInv, TypeInv, TypeOK, EndParallel, Is
<1>2. PICK r \in {"ok", FailureOf(args)} \cup (IF i \in cancelling THEN {"cancelled"} ELSE {}) :
        EndTask(i, r)
  BY DEF EndParallel
<1>3. r \in Ended /\ (r \in {"failed", "error"} => r = FailureOf(args))
  BY DEF Ended, FailureOf
<1>4. sem' \in SemaphoreType(Items) /\ Spare(sem') = Spare(sem) + 1 /\ Busy(sem')
  BY <1>1, GiveSlotProperties
<1> QED
  BY <1>1, <1>2, <1>3, <1>4, EndProperties

LEMMA EndCancelledKeeps ==
    ASSUME BInv, NEW i \in Items, EndCancelled(i)
    PROVE  BInv'
<1>1. /\ EndTask(i, "cancelled") /\ UNCHANGED <<args, pc, stopping, results>>
      /\ sem \in SemaphoreType(Items) /\ Busy(sem) /\ "cancelled" \in Ended
  BY SlotsRead DEF BInv, TypeInv, TypeOK, EndCancelled, Ended
<1>2. CASE item[i] = "new" /\ UNCHANGED sem
  <2>1. pc \in {"gathering", "draining"}
    BY <1>2, TasksAreParallel
  <2>2. sem' \in SemaphoreType(Items) /\ Spare(sem') = Spare(sem) /\ Busy(sem')
    BY <1>1, <1>2 DEF Spare, Busy, Awake, Asleep
  <2> QED
    BY <1>1, <1>2, <2>1, <2>2, EndProperties
<1>3. ASSUME NEW n \in 1 .. Len(sem.waiters), QueuedAt(i, n), sem' = AbandonQueued(sem, n)
      PROVE  BInv'
  <2>1. item[i] = "queued"
    BY <1>3 DEF QueuedAt, Is
  <2>2. pc \in {"gathering", "draining"}
    BY <2>1, TasksAreParallel
  <2>3. sem' \in SemaphoreType(Items) /\ Spare(sem') = Spare(sem) /\ Busy(sem')
    BY <1>1, <1>3, AbandonQueuedProperties
  <2> QED
    BY <1>1, <2>1, <2>2, <2>3, EndProperties
<1> QED
  BY <1>2, <1>3 DEF EndCancelled, Is

\* When gather has every result, each item has ended as it may.
LEMMA AllGathered ==
    ASSUME BInv, pc = "gathering", outer = "result"
    PROVE  /\ Unended = {}
           /\ \A j \in 1 .. args.size : /\ j \in Items /\ item[j] \in {"ok", "error"}
                                        /\ item[j] = "error" => ~args.fail_fast
<1>1. args.size \in 0 .. MaxItems /\ MaxItems \in Nat
  BY SizeAssumption DEF BInv, TypeInv, TypeOK, Arguments
<1>2. Unended = {} /\ ItemsAt("failed") = {} /\ ItemsAt("cancelled") = {}
  BY DEF BInv, InParallel
<1>3. ASSUME NEW j \in 1 .. args.size
      PROVE  j \in Items /\ item[j] \in {"ok", "error"} /\ (item[j] = "error" => ~args.fail_fast)
  <2>1. j \in Items /\ ~(j > args.size)
    BY <1>1 DEF Items
  <2>2. item[j] # "idle"
    BY <2>1 DEF BInv, InParallel
  <2>3. item[j] \in {"idle", "new", "queued", "running"} \cup Ended
    BY <2>1 DEF BInv, TypeInv, TypeOK
  <2>4. item[j] \in {"ok", "error"}
    BY <1>2, <2>1, <2>2, <2>3 DEF Unended, ItemsAt, Is, Ended
  <2>5. item[j] = "error" => ~args.fail_fast
    BY <2>1 DEF BInv, FailuresAsAsked, FailureOf
  <2> QED
    BY <2>1, <2>4, <2>5
<1> QED
  BY <1>2, <1>3

LEMMA ReturnKeeps ==
    ASSUME BInv, Return
    PROVE  BInv'
<1>1. /\ pc = "gathering" /\ outer = "result" /\ pc' = "returned"
      /\ results' = [j \in 1 .. args.size |-> <<j, item[j]>>]
      /\ UNCHANGED <<args, item, sem, cancelling, outer, stopping>>
  BY DEF Return
<1>2. args.size \in 0 .. MaxItems /\ args.size \in Nat /\ MaxItems \in Nat
  BY SizeAssumption DEF BInv, TypeInv, TypeOK, Arguments
<1>3. Unended = {}
  BY <1>1, AllGathered
<1>4. ASSUME NEW j \in 1 .. args.size
      PROVE  j \in Items /\ item[j] \in {"ok", "error"} /\ (item[j] = "error" => ~args.fail_fast)
  BY <1>1, AllGathered
<1>5. results' \in Seq(Items \X {"ok", "error"}) /\ Len(results') = args.size
  <2>1. \A j \in 1 .. args.size : <<j, item[j]>> \in Items \X {"ok", "error"}
    BY <1>4
  <2> QED
    BY <1>1, <1>2, <2>1
<1>6. \A j \in 1 .. args.size : results'[j] = <<j, item[j]>>
  BY <1>1
<1>7. TypeInv'
  <2>1. \A n \in 1 .. Len(results') : results'[n] \in Items \X {"ok", "error"}
    BY <1>4, <1>5, <1>6
  <2> QED
    BY <1>1, <1>5, <2>1 DEF BInv, TypeInv, TypeOK
<1>8. FailuresAsAsked' /\ NoIdleSlot'
  BY <1>1 DEF BInv, FailuresAsAsked, FailureOf, NoIdleSlot
<1>9. InOrder' /\ InParallel' /\ SlotsConserved' /\ FailuresFillTheirSlots'
  BY <1>1 DEF InOrder, InParallel, SlotsConserved, FailuresFillTheirSlots
<1>10. NothingOutlivesTheCall'
  <2>1. Unended' = Unended
    BY <1>1 DEF Unended, Is
  <2> QED
    BY <1>3, <2>1 DEF NothingOutlivesTheCall
<1>11. ReturnsAllInOrder'
  <2>1. \A j \in 1 .. args.size : results'[j][2] = item[j]
    BY <1>6
  <2>2. \A j \in 1 .. args.size : args.fail_fast => item[j] = "ok"
    BY <1>4
  <2> QED
    BY <1>1, <1>5, <1>6, <2>1, <2>2 DEF ReturnsAllInOrder
<1> QED
  BY <1>7, <1>8, <1>9, <1>10, <1>11 DEF BInv

\* Cancelling tasks in a step of the caller that keeps the items as they are.
LEMMA CancelKeepsSlots ==
    ASSUME BInv, NEW S, S \subseteq Items, CancelTasks(S), UNCHANGED <<args, item, results>>,
           pc \in {"gathering", "draining"}
    PROVE  /\ sem' \in SemaphoreType(Items) /\ cancelling' \subseteq Items
           /\ SlotsConserved' /\ NoIdleSlot' /\ FailuresAsAsked'
           /\ Unended' = Unended
           /\ ItemsAt("failed")' = ItemsAt("failed") /\ ItemsAt("cancelled")' = ItemsAt("cancelled")
<1>1. sem \in SemaphoreType(Items) /\ Busy(sem) /\ cancelling \subseteq Items
  BY SlotsRead DEF BInv, TypeInv, TypeOK
<1>2. /\ sem' \in SemaphoreType(Items) /\ Busy(sem')
      /\ sem'.value = sem.value /\ Awake(sem') = Awake(sem)
      /\ cancelling' = cancelling \cup S
  BY <1>1, CancelProperties
<1>3. SlotsConserved' /\ NoIdleSlot'
  <2>1. sem.value + Cardinality(RunningIn(item)) + Cardinality(Awake(sem)) = ConcurrentLimit(args)
    BY SlotsRead DEF BInv
  <2>2. ConcurrentLimit(args)' = ConcurrentLimit(args)
    BY DEF ConcurrentLimit
  <2> QED
    BY <1>2, <2>1, <2>2, SlotsReadNext
<1>4. FailuresAsAsked'
  BY DEF BInv, FailuresAsAsked, FailureOf
<1>5. /\ Unended' = Unended
      /\ ItemsAt("failed")' = ItemsAt("failed") /\ ItemsAt("cancelled")' = ItemsAt("cancelled")
  BY DEF Unended, ItemsAt, Is
<1> QED
  BY <1>1, <1>2, <1>3, <1>4, <1>5

LEMMA AbortKeeps ==
    ASSUME BInv, Abort
    PROVE  BInv'
<1>1. /\ pc = "gathering" /\ outer \in {"exception", "cancelled"} /\ pc' = "draining"
      /\ CancelTasks(Unended) /\ Unended \subseteq Items
      /\ UNCHANGED <<args, item, outer, stopping, results>>
  BY DEF Abort, Unended
<1>2. /\ sem' \in SemaphoreType(Items) /\ cancelling' \subseteq Items
      /\ SlotsConserved' /\ NoIdleSlot' /\ FailuresAsAsked'
      /\ Unended' = Unended
      /\ ItemsAt("failed")' = ItemsAt("failed") /\ ItemsAt("cancelled")' = ItemsAt("cancelled")
  BY <1>1, CancelKeepsSlots
<1>3. TypeInv'
  BY <1>1, <1>2 DEF BInv, TypeInv, TypeOK
<1>4. InParallel'
  BY <1>1, <1>2 DEF BInv, InParallel
<1>5. InOrder' /\ NothingOutlivesTheCall' /\ ReturnsAllInOrder' /\ FailuresFillTheirSlots'
  BY <1>1 DEF InOrder, NothingOutlivesTheCall, ReturnsAllInOrder, FailuresFillTheirSlots
<1> QED
  BY <1>2, <1>3, <1>4, <1>5 DEF BInv

LEMMA RaiseKeeps ==
    ASSUME BInv, Raise
    PROVE  BInv'
<1>1. /\ pc = "draining" /\ Unended = {} /\ pc' = "raised"
      /\ UNCHANGED <<args, item, sem, cancelling, outer, stopping, results>>
  BY DEF Raise
<1>2. TypeInv' /\ NoIdleSlot' /\ FailuresAsAsked'
  BY <1>1 DEF BInv, TypeInv, TypeOK, NoIdleSlot, FailuresAsAsked, FailureOf
<1>3. InOrder' /\ InParallel' /\ SlotsConserved' /\ ReturnsAllInOrder'
  BY <1>1 DEF InOrder, InParallel, SlotsConserved, ReturnsAllInOrder
<1>4. NothingOutlivesTheCall'
  <2>1. Unended' = Unended
    BY <1>1 DEF Unended, Is
  <2> QED
    BY <1>1, <2>1 DEF NothingOutlivesTheCall
<1>5. FailuresFillTheirSlots'
  <2>1. outer = "cancelled" \/ stopping \/ ItemsAt("failed") # {} \/ ItemsAt("cancelled") # {}
    BY <1>1 DEF BInv, InParallel
  <2>2. ItemsAt("failed") # {} => args.fail_fast
    BY DEF BInv, FailuresAsAsked, FailureOf, ItemsAt
  <2>3. ItemsAt("cancelled")' = ItemsAt("cancelled")
    BY <1>1 DEF ItemsAt
  <2> QED
    BY <1>1, <2>1, <2>2, <2>3 DEF FailuresFillTheirSlots
<1> QED
  BY <1>2, <1>3, <1>4, <1>5 DEF BInv

LEMMA CancelCallKeeps ==
    ASSUME BInv, CancelCall
    PROVE  BInv'
<1>1. pc \in {"gathering", "draining"} /\ UNCHANGED <<args, pc, item, results>>
  BY DEF CancelCall
<1>2. InOrder' /\ NothingOutlivesTheCall' /\ ReturnsAllInOrder' /\ FailuresFillTheirSlots'
  BY <1>1 DEF InOrder, NothingOutlivesTheCall, ReturnsAllInOrder, FailuresFillTheirSlots
<1>3. CASE stopping' = TRUE /\ CancelTasks(Unended) /\ UNCHANGED outer
  <2>1. /\ sem' \in SemaphoreType(Items) /\ cancelling' \subseteq Items
        /\ SlotsConserved' /\ NoIdleSlot' /\ FailuresAsAsked'
        /\ Unended' = Unended
        /\ ItemsAt("failed")' = ItemsAt("failed") /\ ItemsAt("cancelled")' = ItemsAt("cancelled")
    <3>1. Unended \subseteq Items
      BY DEF Unended
    <3> QED
      BY <1>1, <1>3, <3>1, CancelKeepsSlots
  <2>2. TypeInv'
    BY <1>1, <1>3, <2>1 DEF BInv, TypeInv, TypeOK
  <2>3. InParallel'
    BY <1>1, <1>3, <2>1 DEF BInv, InParallel
  <2> QED
    BY <1>2, <2>1, <2>2, <2>3 DEF BInv
<1>4. CASE /\ pc = "gathering" /\ outer \in {"result", "exception"} /\ outer' = "cancelled"
           /\ UNCHANGED <<cancelling, sem, stopping>>
  <2>1. TypeInv' /\ NoIdleSlot' /\ FailuresAsAsked'
    BY <1>1, <1>4 DEF BInv, TypeInv, TypeOK, NoIdleSlot, FailuresAsAsked, FailureOf
  <2>2. SlotsConserved'
    BY <1>1, <1>4 DEF BInv, SlotsConserved, ConcurrentLimit, ItemsAt
  <2>3. InParallel'
    BY <1>1, <1>4 DEF BInv, InParallel
  <2> QED
    BY <1>2, <2>1, <2>2, <2>3 DEF BInv
<1> QED
  BY <1>3, <1>4 DEF CancelCall

LEMMA StutterKeeps ==
    ASSUME BInv, UNCHANGED vars
    PROVE  BInv'
<1>1. UNCHANGED <<args, pc, item, sem, cancelling, outer, stopping, results>>
  BY DEF vars
<1>2. ItemsAt("running")' = ItemsAt("running") /\ ItemsAt("failed")' = ItemsAt("failed")
      /\ ItemsAt("cancelled")' = ItemsAt("cancelled") /\ Unended' = Unended
  BY <1>1 DEF ItemsAt, Unended, Is
<1>3. TypeInv' /\ InOrder' /\ FailuresAsAsked'
  BY <1>1, <1>2 DEF BInv, TypeInv, TypeOK, InOrder, FailuresAsAsked, FailureOf
<1>4. InParallel'
  BY <1>1, <1>2 DEF BInv, InParallel
<1>5. SlotsConserved' /\ NoIdleSlot'
  BY <1>1, <1>2 DEF BInv, SlotsConserved, NoIdleSlot, ConcurrentLimit
<1>6. NothingOutlivesTheCall' /\ ReturnsAllInOrder'
  BY <1>1, <1>2 DEF BInv, NothingOutlivesTheCall, ReturnsAllInOrder
<1>7. FailuresFillTheirSlots'
  BY <1>1, <1>2 DEF BInv, FailuresFillTheirSlots, Refused
<1> QED
  BY <1>3, <1>4, <1>5, <1>6, <1>7 DEF BInv

\* One step per action.
LEMMA BInvNext ==
    ASSUME BInv, [Next]_vars
    PROVE  BInv'
<1>1. CASE CallStep
  <2>1. CASE Refuse
    BY <2>1, RefuseKeeps
  <2>2. CASE StartSequential
    BY <2>2, StartSequentialKeeps
  <2>3. CASE StepSequential
    BY <2>3, StepSequentialKeeps
  <2>4. CASE StartParallel
    BY <2>4, StartParallelKeeps
  <2>5. CASE Return
    BY <2>5, ReturnKeeps
  <2>6. CASE Abort
    BY <2>6, AbortKeeps
  <2>7. CASE Raise
    BY <2>7, RaiseKeeps
  <2> QED
    BY <1>1, <2>1, <2>2, <2>3, <2>4, <2>5, <2>6, <2>7 DEF CallStep
<1>2. CASE CancelCall
  BY <1>2, CancelCallKeeps
<1>3. ASSUME NEW i \in Items, TaskStep(i) \/ CancelSequential(i)
      PROVE  BInv'
  <2>1. CASE FirstStep(i)
    BY <2>1, FirstStepKeeps
  <2>2. CASE Resume(i)
    BY <2>2, ResumeKeeps
  <2>3. CASE EndCancelled(i)
    BY <2>3, EndCancelledKeeps
  <2>4. CASE EndParallel(i)
    BY <2>4, EndParallelKeeps
  <2>5. CASE EndSequential(i)
    BY <2>5, EndSequentialKeeps
  <2>6. CASE CancelSequential(i)
    BY <2>6, CancelSequentialKeeps
  <2> QED
    BY <1>3, <2>1, <2>2, <2>3, <2>4, <2>5, <2>6 DEF TaskStep
<1>4. CASE UNCHANGED vars
  BY <1>4, StutterKeeps
<1>5. CASE Over
  BY <1>5, StutterKeeps DEF Over
<1> QED
  BY <1>1, <1>2, <1>3, <1>4, <1>5 DEF Next

--------------------------------------------------------------------------------
(* The theorems.                                                                *)

\* The strengthened invariant holds of every call, sequential or parallel.
THEOREM BatchInvariance == Spec => []BInv
<1>1. Init => BInv
  BY BInvInit
<1>2. BInv /\ [Next]_vars => BInv'
  BY BInvNext
<1> QED
  BY <1>1, <1>2, PTL DEF Spec

\* The variables keep their types.
THEOREM BatchTypes == Spec => []TypeOK
<1>1. BInv => TypeOK
  BY DEF BInv, TypeInv
<1> QED
  BY <1>1, BatchInvariance, PTL

\* No slot is lost or made up, whoever fails or is cancelled in the queue or just woken.
THEOREM SlotsKept == Spec => []SlotsConserved
<1>1. BInv => SlotsConserved
  BY DEF BInv
<1> QED
  BY <1>1, BatchInvariance, PTL

\* A free slot and a sleeping task coexist only while a woken one is to pass it on.
THEOREM NoLostWakeup == Spec => []NoIdleSlot
<1>1. BInv => NoIdleSlot
  BY DEF BInv
<1> QED
  BY <1>1, BatchInvariance, PTL

\* A call that is over has left no task behind.
THEOREM Drained == Spec => []NothingOutlivesTheCall
<1>1. BInv => NothingOutlivesTheCall
  BY DEF BInv
<1> QED
  BY <1>1, BatchInvariance, PTL

\* A call that returns has every result, in the order of its input.
THEOREM CompleteAndInOrder == Spec => []ReturnsAllInOrder
<1>1. BInv => ReturnsAllInOrder
  BY DEF BInv
<1> QED
  BY <1>1, BatchInvariance, PTL

\* Without fail_fast no exception of a tool makes an accepted call raise.
THEOREM FailuresAreResults == Spec => []FailuresFillTheirSlots
<1>1. BInv => FailuresFillTheirSlots
  BY DEF BInv
<1> QED
  BY <1>1, BatchInvariance, PTL

--------------------------------------------------------------------------------
(* The call implements its contract.                                            *)

\* The refinement mapping of KeepsContract.
Status == [i \in Items |-> IF Is(i, {"idle", "new", "queued"}) THEN "waiting" ELSE item[i]]

Limit == IF args.mode = "parallel" THEN ConcurrentLimit(args) ELSE 1

\* Tasks are cancelled by a call that aborts only, and then all of them are.
AbortsAll == /\ Phase = "open" => cancelling = {}
             /\ Phase = "aborting" => Unended \subseteq cancelling
             /\ pc \in {"called", "sequential"} \/ outer = "result" => ~stopping

\* The actions of the contract in the terms of the call.
LEMMA ContractActions ==
    /\ Contract!Init <=> Phase = "open" /\ Status = [j \in Items |-> "waiting"]
    /\ Contract!vars = <<args.size, Limit, args.fail_fast, Phase, Status>>
    /\ Contract!Running = {j \in Items : Status[j] = "running"}
    /\ \A i \in Items : Contract!Begin(i) <=>
           /\ Phase = "open" /\ i <= args.size /\ Status[i] = "waiting"
           /\ Cardinality({j \in Items : Status[j] = "running"}) < Limit
           /\ Status' = [Status EXCEPT ![i] = "running"] /\ Phase' = Phase
    /\ \A i \in Items : Contract!End(i) <=>
           /\ Status[i] = "running"
           /\ \E r \in (IF args.fail_fast THEN {"ok", "failed"} ELSE {"ok", "error"}) :
                 Status' = [Status EXCEPT ![i] = r]
           /\ Phase' = Phase
    /\ \A i \in Items : Contract!GiveUp(i) <=>
           /\ Phase = "aborting" /\ Status[i] \in {"waiting", "running"}
           /\ Status' = [Status EXCEPT ![i] = "cancelled"] /\ Phase' = Phase
    /\ Contract!Abort <=> Phase = "open" /\ Phase' = "aborting" /\ Status' = Status
    /\ Contract!Return <=>
           /\ Phase = "open" /\ Phase' = "returned" /\ Status' = Status
           /\ \A i \in Items : i <= args.size => Status[i] \in {"ok", "error"}
    /\ Contract!Raise <=>
           /\ Phase \in {"open", "aborting"} /\ Phase' = "raised"
           /\ \/ {j \in Items : Status[j] = "running"} = {} /\ Status' = Status
              \/ \E i \in Items, r \in {"failed", "cancelled"} :
                    /\ {j \in Items : Status[j] = "running"} = {i}
                    /\ Status' = [Status EXCEPT ![i] = r]
<1>1. Contract!Init <=> Phase = "open" /\ Status = [j \in Items |-> "waiting"]
  BY DEF Contract!Init, Status
<1>2. Contract!vars = <<args.size, Limit, args.fail_fast, Phase, Status>>
  BY DEF Contract!vars, Status, Limit
<1>3. Contract!Running = {j \in Items : Status[j] = "running"}
  BY DEF Contract!Running, Status
<1>4. \A i \in Items : Contract!Begin(i) <=>
           /\ Phase = "open" /\ i <= args.size /\ Status[i] = "waiting"
           /\ Cardinality({j \in Items : Status[j] = "running"}) < Limit
           /\ Status' = [Status EXCEPT ![i] = "running"] /\ Phase' = Phase
  <2>1. Contract!Cardinality(Contract!Running) = Cardinality(Contract!Running)
    BY DEF Contract!Cardinality, Cardinality
  <2> QED
    BY <2>1 DEF Contract!Begin, Contract!Running, Status, Limit
<1>5. \A i \in Items : Contract!End(i) <=>
           /\ Status[i] = "running"
           /\ \E r \in (IF args.fail_fast THEN {"ok", "failed"} ELSE {"ok", "error"}) :
                 Status' = [Status EXCEPT ![i] = r]
           /\ Phase' = Phase
  BY DEF Contract!End, Contract!Result, Status
<1>6. \A i \in Items : Contract!GiveUp(i) <=>
           /\ Phase = "aborting" /\ Status[i] \in {"waiting", "running"}
           /\ Status' = [Status EXCEPT ![i] = "cancelled"] /\ Phase' = Phase
  BY DEF Contract!GiveUp, Status
<1>7. Contract!Abort <=> Phase = "open" /\ Phase' = "aborting" /\ Status' = Status
  BY DEF Contract!Abort, Status
<1>8. Contract!Return <=>
           /\ Phase = "open" /\ Phase' = "returned" /\ Status' = Status
           /\ \A i \in Items : i <= args.size => Status[i] \in {"ok", "error"}
  BY DEF Contract!Return, Status
<1>9. Contract!Raise <=>
           /\ Phase \in {"open", "aborting"} /\ Phase' = "raised"
           /\ \/ {j \in Items : Status[j] = "running"} = {} /\ Status' = Status
              \/ \E i \in Items, r \in {"failed", "cancelled"} :
                    /\ {j \in Items : Status[j] = "running"} = {i}
                    /\ Status' = [Status EXCEPT ![i] = r]
  BY DEF Contract!Raise, Contract!Running, Status
<1> QED
  BY <1>1, <1>2, <1>3, <1>4, <1>5, <1>6, <1>7, <1>8, <1>9

\* How the steps of the call change the state the contract sees.
LEMMA StatusMoves ==
    ASSUME NEW i \in Items, NEW r \in States, item \in [Items -> States],
           item' = [item EXCEPT ![i] = r]
    PROVE  Status' = [Status EXCEPT ![i] = IF r \in {"idle", "new", "queued"} THEN "waiting" ELSE r]
<1> DEFINE v == IF r \in {"idle", "new", "queued"} THEN "waiting" ELSE r
           W(x) == IF x \in {"idle", "new", "queued"} THEN "waiting" ELSE x
<1>1. Status = [j \in Items |-> W(item[j])] /\ Status' = [j \in Items |-> W(item'[j])]
  BY DEF Status, Is
<1>2. \A j \in Items : item'[j] = IF j = i THEN r ELSE item[j]
  OBVIOUS
<1>3. \A j \in Items : W(item'[j]) = IF j = i THEN v ELSE W(item[j])
  BY <1>2
<1> HIDE DEF W, v
<1>4. Status' = [Status EXCEPT ![i] = v]
  BY <1>1, <1>3
<1> QED
  BY <1>4 DEF v

\* A call that aborts goes on having cancelled every task it waits for.
LEMMA AbortsAllInit ==
    ASSUME Init
    PROVE  AbortsAll
  BY DEF Init, AbortsAll, Phase

LEMMA AbortsAllNext ==
    ASSUME BInv, AbortsAll, [Next]_vars
    PROVE  AbortsAll'
<1>1. CASE CallStep
  <2>1. CASE Refuse \/ StartSequential \/ StepSequential
    <3>1. /\ pc \in {"called", "sequential"} /\ UNCHANGED <<cancelling, outer, stopping>>
          /\ pc' \in {"sequential", "returned", "raised"}
      BY <2>1 DEF Refuse, StartSequential, StepSequential
    <3> QED
      BY <3>1 DEF AbortsAll, Phase
  <2>2. CASE StartParallel
    <3>1. pc = "called" /\ pc' = "gathering" /\ UNCHANGED <<cancelling, stopping>>
      BY <2>2 DEF StartParallel
    <3> QED
      BY <3>1 DEF AbortsAll, Phase
  <2>3. CASE Return \/ Raise
    <3>1. pc' \in {"returned", "raised"} /\ UNCHANGED <<outer, stopping>>
      BY <2>3 DEF Return, Raise
    <3> QED
      BY <3>1 DEF AbortsAll, Phase
  <2>4. CASE Abort
    <3>1. /\ pc' = "draining" /\ cancelling' = cancelling \cup Unended /\ Unended' = Unended
          /\ outer' \in {"exception", "cancelled"}
      BY <2>4 DEF Abort, CancelTasks, Unended, Is
    <3> QED
      BY <3>1 DEF AbortsAll, Phase
  <2> QED
    BY <1>1, <2>1, <2>2, <2>3, <2>4 DEF CallStep
<1>2. CASE CancelCall
  <2>1. pc \in {"gathering", "draining"} /\ pc' = pc /\ Unended' = Unended
    BY <1>2 DEF CancelCall, Unended, Is
  <2>2. CASE /\ pc = "draining" \/ outer = "pending"
             /\ stopping' = TRUE /\ CancelTasks(Unended) /\ UNCHANGED outer
    <3>1. cancelling' = cancelling \cup Unended
      BY <2>2 DEF CancelTasks
    <3>2. outer' # "result"
      BY <2>1, <2>2 DEF BInv, InParallel
    <3> QED
      BY <2>1, <2>2, <3>1, <3>2 DEF AbortsAll, Phase
  <2>3. CASE outer' = "cancelled" /\ UNCHANGED <<cancelling, stopping>>
    BY <2>1, <2>3 DEF AbortsAll, Phase
  <2> QED
    BY <1>2, <2>2, <2>3 DEF CancelCall
<1>3. ASSUME NEW i \in Items, EndSequential(i) \/ CancelSequential(i)
      PROVE  AbortsAll'
  <2>1. /\ pc = "sequential" /\ UNCHANGED <<cancelling, outer, stopping>>
        /\ pc' \in {"sequential", "raised"}
    BY <1>3 DEF EndSequential, CancelSequential
  <2> QED
    BY <2>1 DEF AbortsAll, Phase
<1>4. ASSUME NEW i \in Items, FirstStep(i) \/ Resume(i)
      PROVE  AbortsAll'
  <2>1. UNCHANGED <<pc, cancelling, outer, stopping>>
    BY <1>4 DEF FirstStep, Resume
  <2>2. Unended' = Unended
    <3>1. /\ item[i] \in {"new", "queued"}
          /\ item' = [item EXCEPT ![i] = "running"] \/ item' = [item EXCEPT ![i] = "queued"]
      BY <1>4 DEF FirstStep, Resume, QueuedAt, Is
    <3>2. item \in [Items -> States]
      BY DEF BInv, TypeInv, TypeOK, States
    <3> QED
      BY <3>1, <3>2 DEF Unended, Is
  <2> QED
    BY <2>1, <2>2 DEF AbortsAll, Phase
<1>5. ASSUME NEW i \in Items, EndParallel(i) \/ EndCancelled(i)
      PROVE  AbortsAll'
  <2>1. PICK r \in Ended : EndTask(i, r)
    <3>1. FailureOf(args) \in Ended
      BY DEF FailureOf, Ended
    <3> QED
      BY <1>5, <3>1 DEF EndParallel, EndCancelled, Ended
  <2>2. item[i] \in {"new", "queued", "running"} /\ UNCHANGED <<pc, stopping>>
    BY <1>5 DEF EndParallel, EndCancelled, QueuedAt, Is
  <2>3. pc \in {"gathering", "draining"}
    BY <1>5, <2>2, TasksAreParallel DEF EndParallel, EndCancelled, QueuedAt, Is
  <2>4. Unended' = Unended \ {i} /\ cancelling' = cancelling \ {i}
    <3>1. item \in [Items -> States]
      BY DEF BInv, TypeInv, TypeOK, States
    <3> QED
      BY <2>1, <2>2, <3>1 DEF EndTask, Unended, Is, Ended
  <2>5. outer' = "result" => outer = "result" \/ ~stopping
    BY <2>1 DEF EndTask, Gathered
  <2> QED
    BY <2>2, <2>3, <2>4, <2>5 DEF AbortsAll, Phase
<1>6. CASE UNCHANGED vars \/ Over
  <2>1. UNCHANGED <<pc, item, cancelling, outer, stopping>>
    BY <1>6 DEF vars, Over
  <2>2. Unended' = Unended
    BY <2>1 DEF Unended, Is
  <2> QED
    BY <2>1, <2>2 DEF AbortsAll, Phase
<1> QED
  BY <1>1, <1>2, <1>3, <1>4, <1>5, <1>6 DEF Next, TaskStep

\* A step of the contract, and a step it does not see.
LEMMA ContractSees ==
    ASSUME args' = args
    PROVE  /\ Status' = Status /\ Phase' = Phase => UNCHANGED Contract!vars
           /\ \A i \in Items : Contract!Begin(i) \/ Contract!End(i) \/ Contract!GiveUp(i)
                             => Contract!Next
           /\ Contract!Abort \/ Contract!Return \/ Contract!Raise => Contract!Next
<1>1. Limit' = Limit
  BY DEF Limit, ConcurrentLimit
<1>2. Contract!vars = <<args.size, Limit, args.fail_fast, Phase, Status>>
  BY ContractActions
<1>3. Contract!vars' = <<args'.size, Limit', args'.fail_fast, Phase', Status'>>
  BY DEF Contract!vars, Limit, Status
<1>4. UNCHANGED <<args.size, IF args.mode = "parallel" THEN ConcurrentLimit(args) ELSE 1,
                  args.fail_fast>>
  BY <1>1 DEF Limit
<1>5. Status' = Status /\ Phase' = Phase => UNCHANGED Contract!vars
  BY <1>1, <1>2, <1>3
<1>6. \A i \in Items : Contract!Begin(i) \/ Contract!End(i) \/ Contract!GiveUp(i)
                      => Contract!Next
  BY <1>4 DEF Contract!Next
<1>7. Contract!Abort \/ Contract!Return \/ Contract!Raise => Contract!Next
  BY <1>4 DEF Contract!Next
<1> QED
  BY <1>5, <1>6, <1>7

\* The steps of a call that is sequential, or has not begun.
LEMMA SequentialRefines ==
    ASSUME BInv, AbortsAll,
           \/ Refuse \/ StartSequential \/ StepSequential
           \/ \E i \in Items : EndSequential(i) \/ CancelSequential(i)
    PROVE  Contract!Next \/ UNCHANGED Contract!vars
<1> DEFINE Runs == {j \in Items : Status[j] = "running"}
<1>1. args' = args
  BY DEF Refuse, StartSequential, StepSequential, EndSequential, CancelSequential
<1>2. item \in [Items -> States]
  BY DEF BInv, TypeInv, TypeOK, States
<1>3. Runs = ItemsAt("running")
  BY DEF Status, ItemsAt, Is
<1>4. CASE Refuse
  <2>1. /\ Phase = "open" /\ Phase' = "raised" /\ Status' = Status /\ Runs = {}
    BY <1>3, <1>4 DEF Refuse, Phase, Status, Is, BInv, InOrder
  <2> QED
    BY <1>1, <2>1, ContractActions, ContractSees
<1>5. CASE StartSequential
  <2>1. Phase' = Phase /\ Status' = Status
    BY <1>5 DEF StartSequential, Phase, Status, Is
  <2> QED
    BY <1>1, <2>1, ContractSees
<1>6. CASE StepSequential
  <2>1. /\ pc = "sequential" /\ Phase = "open" /\ Runs = {}
        /\ args.size \in 0 .. MaxItems /\ MaxItems \in Nat /\ Len(results) \in 0 .. args.size
        /\ \A n \in 1 .. Len(results) : n \in Items /\ item[n] \in {"ok", "error"}
    BY <1>3, <1>6, PrefixDone, SizeAssumption DEF StepSequential, Phase
  <2>2. CASE Len(results) < args.size
    <3>1. PICK i \in Items : /\ i <= args.size /\ ~(i <= Len(results))
                             /\ item' = [item EXCEPT ![i] = "running"] /\ Phase' = Phase
      BY <1>6, <2>1, <2>2 DEF StepSequential, Items, Phase
    <3>2. Status' = [Status EXCEPT ![i] = "running"]
      <4>1. "running" \in States
        BY DEF States
      <4>2. Status' = [Status EXCEPT ![i] = IF "running" \in {"idle", "new", "queued"} THEN "waiting"
                                            ELSE "running"]
        BY <1>2, <3>1, <4>1, StatusMoves
      <4> QED
        BY <4>2
    <3>3. item[i] = "idle"
      BY <1>3, <2>1, <3>1 DEF BInv, InOrder, ItemsAt
    <3>4. Status[i] = "waiting"
      BY <3>1, <3>3 DEF Status, Is
    <3>5. Cardinality(Runs) < Limit
      <4>1. Cardinality(Runs) = 0
        BY <2>1, FS_EmptySet
      <4>2. Limit = 1
        BY <2>1 DEF BInv, InOrder, Limit
      <4> QED
        BY <4>1, <4>2
    <3>6. Contract!Begin(i)
      BY <2>1, <3>1, <3>2, <3>4, <3>5, ContractActions
    <3> QED
      BY <1>1, <3>1, <3>6, ContractSees
  <2>3. CASE ~(Len(results) < args.size)
    <3>1. Phase' = "returned" /\ Status' = Status
      BY <1>6, <2>3 DEF StepSequential, Phase, Status, Is
    <3>2. \A j \in Items : j <= args.size => j \in 1 .. Len(results)
      BY <2>1, <2>3 DEF Items
    <3>3. \A j \in Items : j <= args.size => Status[j] \in {"ok", "error"}
      BY <2>1, <3>2 DEF Status, Is
    <3> QED
      BY <1>1, <2>1, <3>1, <3>3, ContractActions, ContractSees
  <2> QED
    BY <2>2, <2>3
<1>7. ASSUME NEW i \in Items, EndSequential(i) \/ CancelSequential(i)
      PROVE  Contract!Next
  <2>1. pc = "sequential" /\ item[i] = "running" /\ Phase = "open"
    BY <1>7 DEF EndSequential, CancelSequential, Is, Phase
  <2>2. Runs = {i} /\ Status[i] = "running"
    <3>1. \A j \in Items \ {i} : item[j] # "running"
      BY <2>1, SequentialRun
    <3> QED
      BY <1>3, <2>1, <3>1 DEF ItemsAt, Status, Is
  <2>3. ASSUME NEW r \in {"failed", "cancelled"}, item' = [item EXCEPT ![i] = r], pc' = "raised"
        PROVE  Contract!Next
    <3>1. Status' = [Status EXCEPT ![i] = r]
      <4>1. r \in States /\ r \notin {"idle", "new", "queued"}
        BY DEF States, Ended
      <4> QED
        BY <1>2, <2>3, <4>1, StatusMoves
    <3>2. Phase' = "raised"
      BY <2>3 DEF Phase
    <3>3. Contract!Raise
      BY <2>1, <2>2, <3>1, <3>2, ContractActions
    <3> QED
      BY <1>1, <3>3, ContractSees
  <2>4. ASSUME NEW r \in {"ok", FailureOf(args)}, r # "failed",
               item' = [item EXCEPT ![i] = r], pc' = pc
        PROVE  Contract!Next
    <3>1. /\ r \in States /\ r \notin {"idle", "new", "queued"}
          /\ r \in (IF args.fail_fast THEN {"ok", "failed"} ELSE {"ok", "error"})
      BY <2>4 DEF States, Ended, FailureOf
    <3>2. Status' = [Status EXCEPT ![i] = r]
      BY <1>2, <2>4, <3>1, StatusMoves
    <3>3. Phase' = Phase
      BY <2>1, <2>4 DEF Phase
    <3>4. Contract!End(i)
      BY <2>2, <3>1, <3>2, <3>3, ContractActions
    <3> QED
      BY <1>1, <3>4, ContractSees
  <2> QED
    BY <1>7, <2>3, <2>4 DEF EndSequential, CancelSequential
<1> QED
  BY <1>4, <1>5, <1>6, <1>7

\* The steps of the tasks of a parallel call.
LEMMA TasksRefine ==
    ASSUME BInv, AbortsAll, NEW i \in Items,
           FirstStep(i) \/ Resume(i) \/ EndParallel(i) \/ EndCancelled(i)
    PROVE  Contract!Next \/ UNCHANGED Contract!vars
<1>1. args' = args /\ pc' = pc /\ stopping' = stopping
  BY DEF FirstStep, Resume, EndParallel, EndCancelled
<1>2. item \in [Items -> States] /\ sem \in SemaphoreType(Items)
  BY DEF BInv, TypeInv, TypeOK, States
<1>3. item[i] \in {"new", "queued", "running"} /\ pc \in {"gathering", "draining"}
  BY TasksAreParallel DEF FirstStep, Resume, EndParallel, EndCancelled, QueuedAt, Is
<1>4. Phase' = Phase /\ Phase \in {"open", "aborting"}
  BY <1>1, <1>3 DEF Phase
<1>5. Status[i] = IF item[i] = "running" THEN "running" ELSE "waiting"
  BY <1>3 DEF Status, Is
<1>6. ASSUME item' = [item EXCEPT ![i] = "running"], item[i] # "running", Phase = "open",
             sem.value + Cardinality(Awake(sem)) > 0
      PROVE  Contract!Begin(i)
  <2>1. Status' = [Status EXCEPT ![i] = "running"]
    <3>1. "running" \in States
      BY DEF States
    <3>2. Status' = [Status EXCEPT ![i] = IF "running" \in {"idle", "new", "queued"} THEN "waiting"
                                          ELSE "running"]
      BY <1>2, <1>6, <3>1, StatusMoves
    <3> QED
      BY <3>2
  <2>2. i <= args.size
    <3>1. ~(i > args.size)
      BY <1>3 DEF BInv, InParallel
    <3>2. i \in Nat /\ args.size \in Nat
      BY SizeAssumption DEF BInv, TypeInv, TypeOK, Arguments, Items
    <3> QED
      BY <3>1, <3>2
  <2>3. Cardinality({j \in Items : Status[j] = "running"}) < Limit
    <3>1. {j \in Items : Status[j] = "running"} = RunningIn(item)
      BY DEF Status, RunningIn, Is
    <3>2. sem.value + Cardinality(RunningIn(item)) + Cardinality(Awake(sem)) = ConcurrentLimit(args)
      BY <1>3, SlotsRead DEF BInv
    <3>3. Limit = ConcurrentLimit(args)
      BY <1>3 DEF BInv, InParallel, Limit
    <3>4. sem.value \in Nat /\ Cardinality(Awake(sem)) \in Nat
      BY <1>2, QueueParts
    <3>5. Cardinality(RunningIn(item)) \in Nat
      BY <1>2, <1>3, ItemMoves
    <3> QED
      BY <1>6, <3>1, <3>2, <3>3, <3>4, <3>5
  <2> QED
    BY <1>4, <1>5, <1>6, <2>1, <2>2, <2>3, ContractActions
<1>7. CASE FirstStep(i) \/ Resume(i)
  <2>1. Phase = "open" /\ item[i] # "running"
    <3>1. i \notin cancelling /\ item[i] \in {"new", "queued"}
      BY <1>7 DEF FirstStep, Resume, QueuedAt, Is
    <3>2. i \in Unended
      BY <3>1 DEF Unended, Is
    <3> QED
      BY <1>4, <3>1, <3>2 DEF AbortsAll
  <2>2. CASE item' = [item EXCEPT ![i] = "running"]
    <3>1. sem.value + Cardinality(Awake(sem)) > 0
      <4>1. /\ sem.value \in Nat /\ Cardinality(Awake(sem)) \in Nat
            /\ IsFiniteSet(Awake(sem))
        BY <1>2, QueueParts
      <4>2. CASE FirstStep(i)
        <5>1. "queued" # "running" /\ item'[i] = "running"
          BY <1>2, <2>2
        <5>2. Available(sem)
          BY <1>2, <4>2, <5>1 DEF FirstStep
        <5> QED
          BY <4>1, <5>2 DEF Available
      <4>3. CASE Resume(i)
        <5>1. Awake(sem) # {}
          BY <4>3 DEF Resume, Awake
        <5>2. Cardinality(Awake(sem)) # 0
          BY <4>1, <5>1, FS_EmptySet
        <5> QED
          BY <4>1, <5>2
      <4> QED
        BY <1>7, <4>2, <4>3
    <3> QED
      BY <1>1, <1>6, <2>1, <2>2, <3>1, ContractSees
  <2>3. CASE item' = [item EXCEPT ![i] = "queued"]
    <3>1. Status' = [Status EXCEPT ![i] = "waiting"]
      <4>1. "queued" \in States
        BY DEF States
      <4>2. Status' = [Status EXCEPT ![i] = IF "queued" \in {"idle", "new", "queued"} THEN "waiting"
                                            ELSE "queued"]
        BY <1>2, <2>3, <4>1, StatusMoves
      <4> QED
        BY <4>2
    <3>2. Status' = Status
      BY <1>5, <2>1, <3>1 DEF Status
    <3> QED
      BY <1>1, <1>4, <3>2, ContractSees
  <2> QED
    BY <1>7, <2>2, <2>3 DEF FirstStep, Resume
<1>8. ASSUME i \in cancelling, item' = [item EXCEPT ![i] = "cancelled"]
      PROVE  Contract!Next
  <2>1. Phase = "aborting"
    BY <1>4, <1>8 DEF AbortsAll
  <2>2. Status' = [Status EXCEPT ![i] = "cancelled"]
    <3>1. "cancelled" \in States /\ "cancelled" \notin {"idle", "new", "queued"}
      BY DEF States, Ended
    <3> QED
      BY <1>2, <1>8, <3>1, StatusMoves
  <2>3. Contract!GiveUp(i)
    BY <1>4, <1>5, <2>1, <2>2, ContractActions
  <2> QED
    BY <1>1, <2>3, ContractSees
<1>9. CASE EndCancelled(i)
  BY <1>8, <1>9 DEF EndCancelled, EndTask
<1>10. CASE EndParallel(i)
  <2>1. PICK r \in {"ok", FailureOf(args)} \cup (IF i \in cancelling THEN {"cancelled"} ELSE {}) :
          item' = [item EXCEPT ![i] = r]
    BY <1>10 DEF EndParallel, EndTask
  <2>2. CASE r \in {"ok", FailureOf(args)}
    <3>1. /\ r \in States /\ r \notin {"idle", "new", "queued"}
          /\ r \in (IF args.fail_fast THEN {"ok", "failed"} ELSE {"ok", "error"})
      BY <2>2 DEF States, Ended, FailureOf
    <3>2. Status' = [Status EXCEPT ![i] = r]
      BY <1>2, <2>1, <3>1, StatusMoves
    <3>3. Status[i] = "running"
      BY <1>5, <1>10 DEF EndParallel, Is
    <3>4. Contract!End(i)
      BY <1>4, <3>1, <3>2, <3>3, ContractActions
    <3> QED
      BY <1>1, <3>4, ContractSees
  <2>3. CASE r \notin {"ok", FailureOf(args)}
    <3>1. r = "cancelled" /\ i \in cancelling
      BY <2>1, <2>3
    <3> QED
      BY <1>8, <2>1, <3>1
  <2> QED
    BY <2>2, <2>3
<1> QED
  BY <1>7, <1>9, <1>10

\* The steps of the caller of a parallel call.
LEMMA CallerRefines ==
    ASSUME BInv, AbortsAll, StartParallel \/ Return \/ Abort \/ Raise \/ CancelCall
    PROVE  Contract!Next \/ UNCHANGED Contract!vars
<1> DEFINE Runs == {j \in Items : Status[j] = "running"}
<1>1. args' = args
  BY DEF StartParallel, Return, Abort, Raise, CancelCall
<1>2. CASE StartParallel
  <2>1. pc = "called" /\ pc' = "gathering" /\ ~stopping /\ stopping' = stopping
    BY <1>2 DEF StartParallel, AbortsAll
  <2>2. Status = [j \in Items |-> "waiting"]
    <3>1. Len(results) = 0 /\ \A j \in Items : item[j] # "running"
      BY <2>1 DEF BInv, InOrder, ItemsAt
    <3>2. \A j \in Items : item[j] = "idle"
      BY <2>1, <3>1, SizeAssumption DEF BInv, InOrder, Items
    <3> QED
      BY <3>2 DEF Status, Is
  <2>3. Status' = [j \in Items |-> "waiting"]
    <3>1. \A j \in Items : item'[j] \in {"new", "idle"}
      BY <1>2 DEF StartParallel
    <3> QED
      BY <3>1 DEF Status, Is
  <2>4. Phase' = Phase
    BY <2>1 DEF Phase
  <2> QED
    BY <1>1, <2>2, <2>3, <2>4, ContractSees
<1>3. CASE Return
  <2>1. pc = "gathering" /\ outer = "result" /\ pc' = "returned" /\ item' = item
    BY <1>3 DEF Return
  <2>2. Phase = "open" /\ Phase' = "returned" /\ Status' = Status
    BY <2>1 DEF AbortsAll, Phase, Status, Is
  <2>3. ASSUME NEW j \in Items, j <= args.size
        PROVE  Status[j] \in {"ok", "error"}
    <3>1. j \in 1 .. args.size
      BY <2>3, SizeAssumption DEF BInv, TypeInv, TypeOK, Arguments, Items
    <3>2. item[j] \in {"ok", "error"}
      BY <2>1, <3>1, AllGathered
    <3> QED
      BY <3>2 DEF Status, Is
  <2> QED
    BY <1>1, <2>2, <2>3, ContractActions, ContractSees
<1>4. CASE Raise
  <2>1. pc = "draining" /\ Unended = {} /\ pc' = "raised" /\ item' = item
    BY <1>4 DEF Raise
  <2>2. Phase = "aborting" /\ Phase' = "raised" /\ Status' = Status
    BY <2>1 DEF Phase, Status, Is
  <2>3. Runs = {}
    BY <2>1 DEF Unended, Status, Is
  <2> QED
    BY <1>1, <2>2, <2>3, ContractActions, ContractSees
<1>5. CASE Abort \/ CancelCall
  <2>1. /\ pc \in {"gathering", "draining"} /\ item' = item
        /\ pc' = "draining" \/ (pc' = pc /\ stopping' \in {stopping, TRUE})
    BY <1>5 DEF Abort, CancelCall
  <2>2. Status' = Status
    BY <2>1 DEF Status, Is
  <2>3. Phase' = Phase \/ (Phase = "open" /\ Phase' = "aborting")
    <3>1. Phase \in {"open", "aborting"}
      BY <2>1 DEF Phase
    <3>2. CASE pc' = "draining" \/ (pc' = pc /\ stopping' = TRUE)
      <4>1. Phase' = "aborting"
        BY <2>1, <3>2 DEF Phase
      <4> QED
        BY <3>1, <4>1
    <3>3. CASE pc' = pc /\ stopping' = stopping
      BY <3>3 DEF Phase
    <3> QED
      BY <2>1, <3>2, <3>3
  <2> QED
    BY <1>1, <2>2, <2>3, ContractActions, ContractSees
<1> QED
  BY <1>2, <1>3, <1>4, <1>5

\* Every step of the call is a step of the contract, or one it does not see.
LEMMA ContractStep ==
    ASSUME BInv, AbortsAll, [Next]_vars
    PROVE  [Contract!Next]_(Contract!vars)
<1>1. CASE \/ Refuse \/ StartSequential \/ StepSequential
           \/ \E i \in Items : EndSequential(i) \/ CancelSequential(i)
  BY <1>1, SequentialRefines
<1>2. CASE StartParallel \/ Return \/ Abort \/ Raise \/ CancelCall
  BY <1>2, CallerRefines
<1>3. ASSUME NEW i \in Items, FirstStep(i) \/ Resume(i) \/ EndParallel(i) \/ EndCancelled(i)
      PROVE  Contract!Next \/ UNCHANGED Contract!vars
  BY <1>3, TasksRefine
<1>4. CASE UNCHANGED vars \/ Over
  <2>1. UNCHANGED <<args, pc, item, stopping>>
    BY <1>4 DEF vars, Over
  <2>2. Status' = Status /\ Phase' = Phase
    BY <2>1 DEF Status, Phase, Is
  <2> QED
    BY <2>1, <2>2, ContractSees
<1> QED
  BY <1>1, <1>2, <1>3, <1>4 DEF Next, CallStep, TaskStep

\* The call keeps its contract: no more runs at a time than it was asked for, none begun
\* by a call that aborts, no return or raise before its time.
THEOREM ContractKept == Spec => KeepsContract
<1>1. Init => Contract!Init
  <2> SUFFICES ASSUME Init PROVE Contract!Init
    OBVIOUS
  <2>1. Phase = "open" /\ Status = [j \in Items |-> "waiting"]
    BY DEF Init, Phase, Status, Is
  <2> QED
    BY <2>1, ContractActions
<1>2. Init => AbortsAll
  BY AbortsAllInit
<1>3. BInv /\ AbortsAll /\ [Next]_vars => AbortsAll'
  BY AbortsAllNext
<1>4. BInv /\ AbortsAll /\ [Next]_vars => [Contract!Next]_(Contract!vars)
  BY ContractStep
<1> QED
  BY <1>1, <1>2, <1>3, <1>4, BatchInvariance, PTL DEF Spec, KeepsContract, Contract!Spec

===============================================================================
