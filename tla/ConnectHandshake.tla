--------------------------- MODULE ConnectHandshake ---------------------------
(***************************************************************************)
(* RoutingSocket.connect through an HTTP or HTTPS proxy (_internal/        *)
(* extensions/socket_routing.py): connect to the proxy, wrap the           *)
(* connection in TLS for an HTTPS proxy, send CONNECT, and read the        *)
(* response's headers, under one deadline and with one cap on what is      *)
(* buffered.  The proxy is free: it may be slow, close, trickle, or send   *)
(* anything.                                                               *)
(*                                                                         *)
(* Time passes in the blocking calls only, each of which ends within the   *)
(* timeout set on the socket object it is made on.  Resolving a name (the  *)
(* destination's before the deadline is set, that of an operator's proxy   *)
(* inside connect()) is bounded by no timeout, and takes no time here.     *)
(* The object the caller holds is "self"; "tls" is the one that replaces   *)
(* it behind an HTTPS proxy and takes its descriptor.                      *)
(***************************************************************************)
EXTENDS Integers, FiniteSets

CONSTANTS
    ConnectTimeout,     \* route.connect_timeout
    CallerTimeouts,     \* what gettimeout() may be when connect() is called
    NoTimeout,          \* None: block without a limit
    HeaderCap,          \* _MAX_PROXY_HEADER_BYTES
    RecvSize            \* most bytes one recv() returns

ASSUME TimeoutAssumption == ConnectTimeout \in Nat \ {0}     \* Field(gt=0)
ASSUME CallerAssumption == CallerTimeouts \subseteq Nat \cup {NoTimeout} /\ NoTimeout \notin Int
ASSUME SizeAssumption == HeaderCap \in Nat /\ RecvSize \in Nat \ {0}

VARIABLES
    https,      \* route.is_https
    original,   \* the caller's timeout
    pc,         \* the blocking call under way, or how connect() ended and what followed
    owns,       \* the socket objects that own an open descriptor
    timeout,    \* of each socket object
    now,        \* time since connect() was called
    buffered    \* bytes of the response

vars == <<https, original, pc, owns, timeout, now, buffered>>

Objects == {"self", "tls"}

\* The deadline is ConnectTimeout after the call.
LeftUnfloored(t) == ConnectTimeout - t

Left(t) == IF t < ConnectTimeout THEN ConnectTimeout - t ELSE 0

\* The local variable `sock`.
Sock == IF https /\ pc \in {"sending", "receiving"} THEN "tls" ELSE "self"

SetTimeout(o, t) == timeout' = [timeout EXCEPT ![o] = t]

\* A blocking call on o ends after some time within its timeout.
Blocks(o, d) == /\ d \in 0 .. timeout[o]
                /\ now' = now + d

Init == /\ https \in BOOLEAN
        /\ original \in CallerTimeouts
        /\ pc = "called"
        /\ owns = {"self"}
        /\ timeout = [o \in Objects |-> IF o = "self" THEN original ELSE NoTimeout]
        /\ now = 0
        /\ buffered = 0

\* The address does not have two parts, as those of IPv6 have not, or it has a name to
\* resolve that does not: connect() raises before the try, and touches nothing.
Rejected == /\ pc = "called"
            /\ pc' = "rejected"
            /\ UNCHANGED <<https, original, owns, timeout, now, buffered>>

\* The deadline starts, and connect() to the proxy is made.
Begin == /\ pc = "called"
         /\ pc' = "connecting"
         /\ SetTimeout("self", Left(now))
         /\ UNCHANGED <<https, original, owns, now, buffered>>

\* The except and finally clauses, for an exception with the descriptor owned
\* by `own`: the socket `sock` is closed if it has one, and nothing is restored.
CloseSelf(own) == owns' = own \ {"self"}

Close(own) == owns' = own \ {Sock}

Fail(own) == /\ pc' = "failed"
             /\ Close(own)
             /\ UNCHANGED <<https, original, timeout, buffered>>

\* connect() to the proxy succeeds; the TLS handshake gets the time left.
BeforeWrapKeeping(t) == UNCHANGED timeout

BeforeWrap(t) == IF https THEN SetTimeout("self", Left(t)) ELSE UNCHANGED timeout

Connected(d) ==
    /\ pc = "connecting" /\ Blocks("self", d)
    /\ pc' = IF https THEN "wrapping" ELSE "sending"
    /\ BeforeWrap(now')
    /\ UNCHANGED <<https, original, owns, buffered>>

\* wrap_socket() moves the descriptor and the timeout to a new object.  It
\* refuses a non-blocking socket.
Wrapped(d) ==
    /\ pc = "wrapping" /\ Blocks("self", d)
    /\ timeout["self"] > 0
    /\ pc' = "sending"
    /\ owns' = {"tls"}
    /\ SetTimeout("tls", timeout["self"])
    /\ UNCHANGED <<https, original, buffered>>

\* It fails before the descriptor has moved, or closes the object it moved to.
WrapFails(d) ==
    /\ pc = "wrapping" /\ Blocks("self", d)
    /\ \E own \in {owns, {}} : Fail(own)

\* CONNECT is sent under whatever timeout `sock` has; recv() gets the time left.
Sent(d) ==
    /\ pc = "sending" /\ Blocks(Sock, d)
    /\ pc' = "receiving"
    /\ SetTimeout(Sock, Left(now'))
    /\ UNCHANGED <<https, original, owns, buffered>>

\* More of the headers arrives, without their end: refused above the cap.
TooMuchAtOnce(n) == n > HeaderCap

TooMuch(n) == buffered + n > HeaderCap

ReceivedUncounted(d, n) ==
    /\ pc = "receiving" /\ Blocks(Sock, d)
    /\ buffered' = n
    /\ IF n > HeaderCap
       THEN pc' = "failed" /\ Close(owns) /\ UNCHANGED timeout
       ELSE SetTimeout(Sock, Left(now')) /\ UNCHANGED <<pc, owns>>
    /\ UNCHANGED <<https, original>>

Received(d, n) ==
    /\ pc = "receiving" /\ Blocks(Sock, d)
    /\ buffered' = buffered + n
    /\ IF TooMuch(n)
       THEN pc' = "failed" /\ Close(owns) /\ UNCHANGED timeout
       ELSE SetTimeout(Sock, Left(now')) /\ UNCHANGED <<pc, owns>>
    /\ UNCHANGED <<https, original>>

\* The end of the headers arrives with a 200: the caller's timeout is restored
\* on the socket that owns the descriptor.
EstablishedUnrestored(d, n) ==
    /\ pc = "receiving" /\ Blocks(Sock, d)
    /\ buffered' = buffered + n
    /\ pc' = "established"
    /\ UNCHANGED <<https, original, owns, timeout>>

Established(d, n) ==
    /\ pc = "receiving" /\ Blocks(Sock, d)
    /\ buffered' = buffered + n
    /\ pc' = "established"
    /\ SetTimeout(Sock, original)
    /\ UNCHANGED <<https, original, owns>>

\* The call fails or times out, the proxy closes or answers anything else, or
\* an exception of another kind comes through.
Fails(d) == /\ pc \in {"connecting", "sending", "receiving"} /\ Blocks(Sock, d)
            /\ Fail(owns)

BlockingCall ==
    \E d \in 0 .. ConnectTimeout :
        \/ Connected(d) \/ Wrapped(d) \/ WrapFails(d) \/ Sent(d) \/ Fails(d)
        \/ \E n \in 1 .. RecvSize : Received(d, n) \/ Established(d, n)

\* The object that the caller's close() reaches: self.close is that of `sock` by then.
CloseReaches == IF https /\ pc = "established" THEN "tls" ELSE "self"

\* The caller is done with the tunnel, or with the socket that could not be connected.
CallerCloses == /\ pc \in {"established", "rejected"}
                /\ pc' = "closed"
                /\ owns' = owns \ {CloseReaches}
                /\ UNCHANGED <<https, original, timeout, now, buffered>>

Connect == Rejected \/ Begin \/ BlockingCall

\* connect() has returned or raised: the one way the system stops.
Over == pc \in {"established", "rejected", "failed", "closed"} /\ UNCHANGED vars

Next == Connect \/ CallerCloses \/ Over

Spec == Init /\ [][Next]_vars

\* connect() goes on; a blocking call ends, at the latest with its timeout.
FairSpec == Spec /\ WF_vars(Connect)

--------------------------------------------------------------------------------
(* Properties.                                                                  *)

\* Types of the variables.
TypeOK ==
    /\ https \in BOOLEAN
    /\ original \in CallerTimeouts
    /\ pc \in {"called", "connecting", "wrapping", "sending", "receiving",
              "established", "rejected", "failed", "closed"}
    /\ owns \subseteq Objects
    /\ timeout \in [Objects -> Nat \cup {NoTimeout}]
    /\ now \in Nat
    /\ buffered \in Nat

\* A negotiation that fails leaves no open descriptor behind, whichever call failed and
\* whichever object had the descriptor by then (socket_routing.py:103-104, "the
\* descriptor-owning socket is closed before the error propagates"), nor does a caller who
\* closes the object it was handed; until then exactly one object has it.
NoDescriptorLeaks ==
    /\ pc \in {"failed", "closed"} => owns = {}
    /\ pc \notin {"failed", "closed"} => Cardinality(owns) = 1

\* An established tunnel has the caller's timeout, on the object that owns the
\* descriptor: no phase's deadline stays behind as a read timeout.  So does a socket whose
\* address was rejected.
CallerTimeoutRestored == pc \in {"established", "rejected"} => \A o \in owns : timeout[o] = original

\* A proxy that never ends its headers is refused before more than one recv() beyond the
\* cap is buffered (socket_routing.py:26).
BufferBounded == /\ pc = "receiving" => buffered <= HeaderCap
                 /\ buffered <= HeaderCap + RecvSize

\* However the time is spent, name resolution apart, the negotiation takes at most twice
\* connect_timeout: only the sending of CONNECT can run under a timeout out of date.
OverrunBounded == now <= 2 * ConnectTimeout

\* The negotiation ends, whatever the proxy does.
ConnectEnds == <>(pc \in {"established", "rejected", "failed"})

\* The negotiation ends by its deadline (socket_routing.py:114, "Each blocking phase runs
\* under the time left until this deadline, bounding the whole negotiation").
WithinDeadline == now <= ConnectTimeout
================================================================================
