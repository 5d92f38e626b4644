------------------------ MODULE ConnectHandshake_proofs ------------------------
(***************************************************************************)
(* Proofs about ConnectHandshake, for every timeout, cap and recv() size.  *)
(***************************************************************************)
EXTENDS ConnectHandshake, FiniteSetTheorems, TLAPS

\* What each phase knows of the descriptor, of the timeout its blocking call runs
\* under, and of the time spent.
Phase ==
    /\ pc \in {"called", "rejected"} => owns = {"self"} /\ timeout["self"] = original
    /\ pc = "called" => now = 0
    /\ pc \in {"connecting", "wrapping"} => /\ owns = {"self"}
                                            /\ now <= ConnectTimeout
                                            /\ timeout["self"] = ConnectTimeout - now
    /\ pc = "connecting" => now = 0
    /\ pc = "wrapping" => https
    /\ pc \in {"sending", "receiving"} => /\ owns = {Sock}
                                          /\ timeout[Sock] \in Nat
                                          /\ now + timeout[Sock] <= 2 * ConnectTimeout
    /\ pc = "established" => \E o \in Objects : owns = {o} /\ timeout[o] = original
    /\ pc = "established" => owns = {CloseReaches}
    /\ pc \in {"failed", "closed"} => owns = {}

Buffer == /\ pc \in {"called", "connecting", "wrapping", "sending"} => buffered = 0
          /\ BufferBounded

IInv == TypeOK /\ Phase /\ Buffer /\ OverrunBounded

\* The time left is a timeout that ends in time, unless the time is over.
LEMMA LeftType ==
    ASSUME NEW t \in Nat
    PROVE  /\ Left(t) \in Nat
           /\ t <= 2 * ConnectTimeout => t + Left(t) <= 2 * ConnectTimeout
           /\ t <= ConnectTimeout => Left(t) = ConnectTimeout - t
  BY TimeoutAssumption DEF Left

LEMMA InitIInv == Init => IInv
<1> SUFFICES ASSUME Init PROVE IInv
  OBVIOUS
<1>1. ConnectTimeout \in Nat
  BY TimeoutAssumption
<1>2. TypeOK
  BY CallerAssumption DEF Init, TypeOK, Objects
<1>3. Phase /\ Buffer /\ OverrunBounded
  BY <1>1, SizeAssumption DEF Init, Phase, Buffer, BufferBounded, OverrunBounded, Objects
<1> QED
  BY <1>2, <1>3 DEF IInv

\* A phase that ends leaves the time within bounds and the timeouts of the right type.
LEMMA BlocksIsBounded ==
    ASSUME IInv, NEW d, NEW o \in Objects, Blocks(o, d), timeout[o] \in Nat,
           now + timeout[o] <= 2 * ConnectTimeout
    PROVE  now' \in Nat /\ OverrunBounded' /\ now <= now' /\ now' <= now + timeout[o]
  BY TimeoutAssumption DEF IInv, TypeOK, Blocks, OverrunBounded

\* Failing closes the descriptor, given that `sock` had it or nobody had.
LEMMA FailKeepsIInv ==
    ASSUME IInv, NEW own, own = {Sock} \/ own = {}, Fail(own),
           now' \in Nat, OverrunBounded'
    PROVE  IInv'
<1>1. owns' = {}
  BY DEF Fail, Close
<1>2. TypeOK'
  BY <1>1 DEF IInv, TypeOK, Fail
<1>3. Phase' /\ Buffer'
  BY <1>1 DEF IInv, Phase, Buffer, BufferBounded, Fail
<1> QED
  BY <1>2, <1>3 DEF IInv

LEMMA RejectedKeepsIInv == ASSUME IInv, Rejected PROVE IInv'
<1>1. TypeOK'
  BY DEF Rejected, IInv, TypeOK
<1>2. Phase' /\ Buffer' /\ OverrunBounded'
  BY DEF Rejected, IInv, Phase, Buffer, BufferBounded, OverrunBounded
<1> QED
  BY <1>1, <1>2 DEF IInv

LEMMA BeginKeepsIInv == ASSUME IInv, Begin PROVE IInv'
<1>1. now = 0 /\ now' = 0 /\ owns' = {"self"} /\ pc' = "connecting" /\ buffered' = 0
  BY DEF Begin, IInv, Phase, Buffer
<1>2. Left(now) = ConnectTimeout /\ ConnectTimeout \in Nat
  BY <1>1, TimeoutAssumption DEF Left
<1>3. timeout'["self"] = ConnectTimeout
  BY <1>2 DEF Begin, SetTimeout, IInv, TypeOK, Objects
<1>4. TypeOK'
  BY <1>1, <1>2 DEF Begin, SetTimeout, IInv, TypeOK
<1>5. Phase' /\ Buffer' /\ OverrunBounded'
  BY <1>1, <1>2, <1>3, SizeAssumption DEF Phase, Buffer, BufferBounded, OverrunBounded
<1> QED
  BY <1>4, <1>5 DEF IInv

LEMMA CallerClosesKeepsIInv == ASSUME IInv, CallerCloses PROVE IInv'
<1>1. owns = {CloseReaches}
  BY DEF CallerCloses, IInv, Phase, CloseReaches
<1>2. owns' = {} /\ pc' = "closed"
  BY <1>1 DEF CallerCloses
<1>3. TypeOK'
  BY <1>2 DEF CallerCloses, IInv, TypeOK
<1>4. Phase' /\ Buffer' /\ OverrunBounded'
  BY <1>2 DEF CallerCloses, IInv, Phase, Buffer, BufferBounded, OverrunBounded
<1> QED
  BY <1>3, <1>4 DEF IInv

LEMMA ConnectedKeepsIInv ==
    ASSUME IInv, NEW d, Connected(d)
    PROVE  IInv'
<1>1. /\ now = 0 /\ timeout["self"] = ConnectTimeout /\ owns = {"self"} /\ ConnectTimeout \in Nat
      /\ buffered = 0
  BY TimeoutAssumption DEF Connected, IInv, Phase, Buffer
<1>2. now' \in Nat /\ OverrunBounded' /\ now' <= ConnectTimeout
  BY <1>1, BlocksIsBounded DEF Connected, Objects
<1>3. /\ Left(now') \in Nat
      /\ Left(now') = ConnectTimeout - now'
  BY <1>2, LeftType
<1>4. TypeOK'
  BY <1>2, <1>3 DEF Connected, BeforeWrap, SetTimeout, IInv, TypeOK, Objects
<1>5. Buffer'
  BY <1>1, SizeAssumption DEF Connected, Buffer, BufferBounded
<1>6. CASE https
  <2>1. pc' = "wrapping" /\ https' /\ owns' = {"self"} /\ timeout'["self"] = ConnectTimeout - now'
    BY <1>1, <1>3, <1>6 DEF Connected, BeforeWrap, SetTimeout, IInv, TypeOK, Objects
  <2>2. Phase'
    BY <2>1, <1>2 DEF Phase
  <2> QED
    BY <2>2, <1>2, <1>4, <1>5 DEF IInv
<1>7. CASE ~https
  <2>1. pc' = "sending" /\ ~https' /\ owns' = {"self"} /\ timeout'["self"] = ConnectTimeout
    BY <1>1, <1>7 DEF Connected, BeforeWrap
  <2>2. Phase'
    BY <2>1, <1>1, <1>2 DEF Phase, Sock
  <2> QED
    BY <2>2, <1>2, <1>4, <1>5 DEF IInv
<1> QED
  BY <1>6, <1>7

LEMMA WrappedKeepsIInv ==
    ASSUME IInv, NEW d, Wrapped(d)
    PROVE  IInv'
<1>1. /\ now \in Nat /\ now <= ConnectTimeout /\ timeout["self"] = ConnectTimeout - now
      /\ https /\ ConnectTimeout \in Nat /\ buffered = 0
  BY TimeoutAssumption DEF Wrapped, IInv, TypeOK, Phase, Buffer
<1>2. now' \in Nat /\ OverrunBounded' /\ now' <= ConnectTimeout
  BY <1>1, BlocksIsBounded DEF Wrapped, Objects
<1>3. timeout' = [timeout EXCEPT !["tls"] = ConnectTimeout - now]
  BY <1>1 DEF Wrapped, SetTimeout
<1>4. timeout'["tls"] = ConnectTimeout - now
  BY <1>3 DEF IInv, TypeOK, Objects
<1>5. TypeOK'
  BY <1>1, <1>2, <1>3 DEF Wrapped, IInv, TypeOK, Objects
<1>6. pc' = "sending" /\ owns' = {"tls"} /\ https'
  BY <1>1 DEF Wrapped
<1>7. Phase'
  BY <1>1, <1>2, <1>4, <1>6 DEF Phase, Sock
<1>8. Buffer'
  BY <1>1, SizeAssumption DEF Wrapped, Buffer, BufferBounded
<1> QED
  BY <1>2, <1>5, <1>7, <1>8 DEF IInv

LEMMA WrapFailsKeepsIInv ==
    ASSUME IInv, NEW d, WrapFails(d)
    PROVE  IInv'
<1>1. /\ now \in Nat /\ timeout["self"] = ConnectTimeout - now /\ now <= ConnectTimeout
      /\ owns = {"self"} /\ Sock = "self"
  BY DEF WrapFails, IInv, TypeOK, Phase, Sock
<1>2. now' \in Nat /\ OverrunBounded'
  BY <1>1, BlocksIsBounded, TimeoutAssumption DEF WrapFails, Objects
<1>3. PICK own \in {owns, {}} : Fail(own)
  BY DEF WrapFails
<1> QED
  BY <1>1, <1>2, <1>3, FailKeepsIInv

\* What the phases of a negotiation on `sock` have in common.
LEMMA OnSock ==
    ASSUME IInv, NEW d, pc \in {"sending", "receiving"}, Blocks(Sock, d)
    PROVE  /\ Sock \in Objects /\ owns = {Sock} /\ timeout[Sock] \in Nat
           /\ now' \in Nat /\ OverrunBounded'
<1>1. Sock \in Objects
  BY DEF Sock, Objects
<1>2. owns = {Sock} /\ timeout[Sock] \in Nat /\ now + timeout[Sock] <= 2 * ConnectTimeout
  BY DEF IInv, Phase
<1> QED
  BY <1>1, <1>2, BlocksIsBounded

\* A phase that goes on to recv() gives it the time left.
LEMMA ToReceiving ==
    ASSUME IInv, NEW d, pc \in {"sending", "receiving"}, Blocks(Sock, d),
           pc' = "receiving", SetTimeout(Sock, Left(now')), UNCHANGED <<https, original, owns>>,
           buffered' \in Nat, buffered' <= HeaderCap
    PROVE  IInv'
<1>1. /\ Sock \in Objects /\ owns = {Sock}
      /\ now' \in Nat /\ OverrunBounded'
  BY OnSock
<1>2. Left(now') \in Nat /\ now' + Left(now') <= 2 * ConnectTimeout
  BY <1>1, LeftType DEF OverrunBounded
<1>3. Sock' = Sock
  BY DEF Sock
<1>4. timeout'[Sock] = Left(now')
  BY <1>1 DEF SetTimeout, IInv, TypeOK
<1>5. TypeOK'
  BY <1>1, <1>2 DEF SetTimeout, IInv, TypeOK
<1>6. Phase'
  BY <1>1, <1>2, <1>3, <1>4 DEF Phase
<1>7. Buffer'
  BY SizeAssumption DEF Buffer, BufferBounded
<1> QED
  BY <1>1, <1>5, <1>6, <1>7 DEF IInv

LEMMA SentKeepsIInv ==
    ASSUME IInv, NEW d, Sent(d)
    PROVE  IInv'
<1>1. buffered' = 0
  BY DEF Sent, IInv, Buffer
<1> QED
  BY <1>1, ToReceiving, SizeAssumption DEF Sent

LEMMA ReceivedKeepsIInv ==
    ASSUME IInv, NEW d, NEW n \in 1 .. RecvSize, Received(d, n)
    PROVE  IInv'
<1>1. buffered \in Nat /\ buffered <= HeaderCap
  BY DEF Received, IInv, TypeOK, Buffer, BufferBounded
<1>2. buffered' = buffered + n /\ buffered' \in Nat
  BY <1>1, SizeAssumption DEF Received
<1>3. CASE ~TooMuch(n)
  <2>1. buffered' <= HeaderCap
    BY <1>1, <1>2, <1>3, SizeAssumption DEF TooMuch
  <2> QED
    BY <1>2, <1>3, <2>1, ToReceiving DEF Received
<1>4. CASE TooMuch(n)
  <2>1. /\ owns = {Sock} /\ now' \in Nat /\ OverrunBounded'
    BY OnSock DEF Received
  <2>2. pc' = "failed" /\ owns' = {} /\ UNCHANGED <<https, original, timeout>>
    BY <1>4, <2>1 DEF Received, Close
  <2>3. TypeOK'
    BY <1>2, <2>1, <2>2 DEF IInv, TypeOK
  <2>4. Phase' /\ Buffer'
    BY <1>1, <1>2, <2>2, SizeAssumption DEF Phase, Buffer, BufferBounded
  <2> QED
    BY <2>1, <2>3, <2>4 DEF IInv
<1> QED
  BY <1>3, <1>4

LEMMA EstablishedKeepsIInv ==
    ASSUME IInv, NEW d, NEW n \in 1 .. RecvSize, Established(d, n)
    PROVE  IInv'
<1>1. buffered \in Nat /\ buffered <= HeaderCap
  BY DEF Established, IInv, TypeOK, Buffer, BufferBounded
<1>2. /\ Sock \in Objects /\ owns = {Sock} /\ now' \in Nat /\ OverrunBounded'
  BY OnSock DEF Established
<1>3. timeout'[Sock] = original
  BY <1>2 DEF Established, SetTimeout, IInv, TypeOK
<1>4. TypeOK'
  BY <1>1, <1>2, SizeAssumption, CallerAssumption DEF Established, SetTimeout, IInv, TypeOK
<1>4a. Sock = CloseReaches'
  BY DEF Established, Sock, CloseReaches
<1>5. Phase'
  BY <1>2, <1>3, <1>4a DEF Established, Phase
<1>6. Buffer'
  BY <1>1, SizeAssumption DEF Established, Buffer, BufferBounded
<1> QED
  BY <1>2, <1>4, <1>5, <1>6 DEF IInv

LEMMA FailsKeepsIInv ==
    ASSUME IInv, NEW d, Fails(d)
    PROVE  IInv'
<1>1. /\ Sock \in Objects /\ owns = {Sock} /\ timeout[Sock] \in Nat
      /\ now + timeout[Sock] <= 2 * ConnectTimeout
  BY TimeoutAssumption DEF Fails, IInv, TypeOK, Phase, Sock, Objects
<1>2. now' \in Nat /\ OverrunBounded'
  BY <1>1, BlocksIsBounded DEF Fails
<1> QED
  BY <1>1, <1>2, FailKeepsIInv DEF Fails

LEMMA NextKeepsIInv == IInv /\ [Next]_vars => IInv'
<1> SUFFICES ASSUME IInv, [Next]_vars PROVE IInv'
  OBVIOUS
<1>1. CASE BlockingCall
  BY <1>1, ConnectedKeepsIInv, WrappedKeepsIInv, WrapFailsKeepsIInv, SentKeepsIInv,
     ReceivedKeepsIInv, EstablishedKeepsIInv, FailsKeepsIInv
     DEF BlockingCall
<1>2. CASE UNCHANGED vars
  BY <1>2 DEF vars, IInv, TypeOK, Phase, Buffer, BufferBounded, OverrunBounded, Sock, CloseReaches
<1> QED
  BY <1>1, <1>2, RejectedKeepsIInv, BeginKeepsIInv, CallerClosesKeepsIInv DEF Next, Connect, Over

\* The inductive invariant: in every phase, which object owns the descriptor and how much
\* time the blocking call under way may still take.
THEOREM Invariance == Spec => []IInv
<1> QED
  BY InitIInv, NextKeepsIInv, PTL DEF Spec

\* The variables keep their types; no timeout is ever negative, which settimeout() would refuse.
THEOREM Typing == Spec => []TypeOK
<1>1. IInv => TypeOK
  BY DEF IInv
<1> QED
  BY Invariance, <1>1, PTL

\* Nothing leaks a descriptor, whichever phase fails (socket_routing.py:168-173) and
\* whichever object the caller's close() has to reach (161).
THEOREM NoLeak == Spec => []NoDescriptorLeaks
<1>1. IInv => NoDescriptorLeaks
  <2> SUFFICES ASSUME IInv PROVE NoDescriptorLeaks
    OBVIOUS
  <2>1. pc \notin {"failed", "closed"} => \E o : owns = {o}
    BY DEF IInv, TypeOK, Phase
  <2>2. \A o : Cardinality({o}) = 1
    BY FS_Singleton
  <2> QED
    BY <2>1, <2>2 DEF NoDescriptorLeaks, IInv, Phase
<1> QED
  BY Invariance, <1>1, PTL

\* An established tunnel has the timeout its caller had set (socket_routing.py:174-177).
THEOREM Restored == Spec => []CallerTimeoutRestored
<1>1. IInv => CallerTimeoutRestored
  BY DEF IInv, Phase, CallerTimeoutRestored
<1> QED
  BY Invariance, <1>1, PTL

\* The response buffer is bounded, whatever the proxy sends and in whatever pieces
\* (socket_routing.py:139-140).
THEOREM Capped == Spec => []BufferBounded
<1>1. IInv => BufferBounded
  BY DEF IInv, Buffer
<1> QED
  BY Invariance, <1>1, PTL

\* The negotiation takes at most twice connect_timeout, name resolution apart, however the
\* time is spent (socket_routing.py:111-132).
THEOREM Overrun == Spec => []OverrunBounded
<1>1. IInv => OverrunBounded
  BY DEF IInv
<1> QED
  BY Invariance, <1>1, PTL
================================================================================
