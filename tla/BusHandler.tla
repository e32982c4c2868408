----------------------------- MODULE BusHandler -----------------------------
(***************************************************************************)
(* One eBUS node: the bus thread that reads a byte and passes it through   *)
(* BusHandler::onBusEvent to the Request and to the Handler, and the other *)
(* threads that call into both objects without a lock.                     *)
(*                                                                         *)
(* Reading a byte takes two steps: Receive (the physical layer, the bus    *)
(* request callbacks and Request::run) and Handle (Handler::run).  The     *)
(* calls of the other threads may come in between.                         *)
(***************************************************************************)
EXTENDS Handler, FiniteSets

CONSTANTS
  Platform,   \* "posix" or "esp"
  Bytes,      \* the bytes that may be read from the wire
  Messages,   \* types of the messages that the scheduler hands over
  LockMax,    \* configured lock counter
  Locks,      \* lock counters that the user may set later
  Lossy,      \* may a written address be followed by a SYN?
  StartBits,  \* may the ESP driver report a spurious start bit?
  Aborts      \* may other threads reset the objects?

ASSUME BusHandlerAssumption ==
  /\ Platform \in {"posix", "esp"}
  /\ Bytes \subseteq Byte
  /\ Messages \subseteq Types \ {"undefined"}
  /\ LockMax \in 0..LockLimit
  /\ Locks \subseteq Nat
  /\ {Lossy, StartBits, Aborts} \subseteq BOOLEAN
  /\ StartBits => Platform = "esp"

VARIABLES
  req,    \* the Request
  h,      \* the Handler
  armed,  \* the address has been written after the last SYN
  pc,     \* bus thread: "read" a byte or "run" the handler
  byte,   \* the byte being processed, 0 while none is
  sends,  \* history: starts of the active master part since the bus was won
  asked   \* history: slave parts requested by the active message

vars == <<req, h, armed, pc, byte, sends, asked>>

Init ==
  /\ req = New(LockMax)
  /\ h = NewHandler
  /\ armed = FALSE
  /\ pc = "read"
  /\ byte = 0
  /\ sends = 0 /\ asked = 0

-----------------------------------------------------------------------------
\* The bus thread.

\* Does the event of byte b carry bus_request?  POSIX writes the address
\* before it delivers the SYN, the ESP timer writes it after the SYN and
\* flags the next event.
BusRequestFlag(b) ==
  IF Platform = "posix" THEN b = Syn /\ req.bus_request ELSE armed

\* A byte arrives: the driver, then onBusEvent up to Request::run.
Receive(b, start_bit) ==
  /\ pc = "read"
  /\ start_bit => b = Syn /\ req.bus_request
  /\ armed /\ ~Lossy => b # Syn
  /\ LET flagged == BusRequestFlag(b)
         r1 == IF flagged THEN BusRequestCompleted(req) ELSE req
         h1 == IF flagged THEN OnBusRequested(Fresh(h)) ELSE Fresh(h)
     IN  /\ req' = Run(IF start_bit THEN StartBit(r1) ELSE r1, b)
         /\ h' = IF start_bit THEN OnStartBit(h1) ELSE h1
  /\ armed' = (b = Syn /\ req.bus_request /\ ~start_bit)
  /\ byte' = b
  /\ pc' = "run"
  /\ UNCHANGED <<sends, asked>>

\* Handler::run on the byte, with whatever its data turns out to be.
Handle ==
  /\ pc = "run"
  /\ pc' = "read"
  /\ \E parse \in Parses, echo \in BOOLEAN, reply \in {0, ReplyLen} :
       /\ h.state = PRM => parse \in ParsesOf(PushMaster(h, byte))
       /\ h.state # PRM => parse \in {"ok", "bad"}
       /\ byte = Syn => ~echo
       /\ h' = HandlerRun(h, byte, req.result, parse, echo, reply)
  /\ req' = IF h'.asks THEN RequestBus(req, Source, FALSE) ELSE req
  /\ sends' = IF h'.state = "active_send_master" /\ h.state # h'.state
              THEN sends + 1
              ELSE IF h'.state \in ActiveStates THEN sends ELSE 0
  /\ asked' = IF h'.state = "active_receive_slave" /\ h.state # h'.state
              THEN asked + 1
              ELSE IF h'.state \in ActiveStates THEN asked ELSE 0
  /\ byte' = 0
  /\ UNCHANGED armed

-----------------------------------------------------------------------------
\* Other threads.

\* Scheduler::tick hands over a message of type t.
Send(t) ==
  /\ ~h.active_message
  /\ h' = SendActiveMessage(h, t)
  /\ UNCHANGED <<req, armed, pc, byte, sends, asked>>

\* Scheduler::tick times out, or Controller changes the address: the handler
\* is reset, the Request is not, or only by a later call.
Abort ==
  /\ Aborts
  /\ h' = HandlerReset(h)
  /\ sends' = 0 /\ asked' = 0
  /\ UNCHANGED <<req, armed, pc, byte>>

\* ClientManager ends a session, or Controller changes the address.
ResetRequest ==
  /\ Aborts
  /\ req' = Reset(req)
  /\ UNCHANGED <<h, armed, pc, byte, sends, asked>>

\* Controller::setLockCounter.
ChangeLock(n) ==
  /\ req' = SetLockCounter(req, n)
  /\ UNCHANGED <<h, armed, pc, byte, sends, asked>>

Next ==
  \/ \E b \in Bytes, s \in BOOLEAN : (s => StartBits) /\ Receive(b, s)
  \/ Handle
  \/ \E t \in Messages : Send(t)
  \/ Abort
  \/ ResetRequest
  \/ \E n \in Locks : ChangeLock(n)

\* The bus thread keeps running and bytes keep coming.
Fairness ==
  /\ WF_vars(\E b \in Bytes : Receive(b, FALSE))
  /\ WF_vars(Handle)

Spec     == Init /\ [][Next]_vars
FairSpec == Spec /\ Fairness

-----------------------------------------------------------------------------
TypeOK ==
  /\ req \in RequestType
  /\ h \in HandlerType
  /\ armed \in BOOLEAN
  /\ pc \in {"read", "run"}
  /\ byte \in Byte
  /\ sends \in Nat /\ asked \in Nat

\* The bus thread takes a message away from the handler (active_message_)
\* exactly when it reports its end, and reports it once.
MessageAnswered ==
  [][ pc' # pc
      => Cardinality({i \in DOMAIN h'.out : Terminal(h'.out[i])})
           = IF h.active_message /\ ~h'.active_message THEN 1 ELSE 0 ]_vars

\* An active state has its message and its encoded bytes, and no other state
\* keeps any: the branches of activeSendMaster for an index out of range and
\* checkActiveBuffers find nothing to do.
ActiveBuffers ==
  /\ h.state \in ActiveStates =>
       h.active_message /\ h.a_type # "undefined" /\ h.am_size = MessageLen
  /\ h.state \notin ActiveStates =>
       h.am_size = 0 /\ h.as_size = 0 /\ ~h.am_repeated /\ ~h.as_repeated
  /\ h.state = "active_send_master" => h.am_index < h.am_size

\* A repetition is granted once: the master part goes out at most twice, and
\* the slave part is awaited at most twice.
RepeatOnce == sends <= 2 /\ asked <= 2

\* No run of the handler asks for a transition that transition_masks lacks.
NoIllegalTransition ==
  \A i \in DOMAIN h.out : h.out[i].name # "unlisted_transition"

\* The handler waits in request_bus only while the Request takes part in the
\* arbitration for it, so that the next byte that is not a SYN ends the wait; or
\* after another thread has reset the Request (stopActiveSession, setAddress),
\* which leaves no request behind that could still write the address.
WaitIsContention ==
  pc = "read" /\ h.state = "request_bus" =>
    /\ h.active_message
    /\ req.state = "observe" => Aborts /\ ~req.bus_request
    /\ req.state = "retry" => req.bus_request

\* The written address never appeared: the Request waits for a byte that is no
\* SYN, and nothing but such a byte or a reset ends this (request.cpp, first
\* and second).  Without lost writes the node never gets here.
Stranded == pc = "read" /\ ~armed /\ req.state \in {"first", "second"}

\* Every arbitration of the handler is decided, although other threads may
\* reset the Request and the Handler at any point of it; only a lost address
\* leaves the handler waiting.
WaitEnds == h.state = "request_bus" ~> h.state # "request_bus" \/ Stranded

\* As long as SYNs are read, the handler comes back to waiting for a
\* telegram; or it waits for the length byte of a slave answer, for which a SYN
\* is no valid value and which passiveReceiveSlave then goes on waiting for.
Settles ==
  []<>(pc = "run" /\ byte = Syn)
    => []<>(h.state \in {PRM, "passive_receive_slave"} \/ Stranded)

-----------------------------------------------------------------------------
\* The handler as the scheduler sees it.

PortEvent(e) ==
  CASE e.what \in {"won", "lost"} -> e.what
    [] e.what = "telegram" -> IF e.mode = "active" THEN "telegram" ELSE "passive_telegram"
    [] e.name = "error_active_slave" -> "slave_error"
    [] OTHER -> IF Terminal(e) THEN "error" ELSE "passive_error"

PortPhase(n) ==
  IF ~n.active_message THEN "idle"
  ELSE IF n.state \in ActiveStates THEN "sending" ELSE "queued"

PortRefusals(n) ==
  (IF n.as_repeated THEN 1 ELSE 0)
    + (IF n.state = "active_send_slave_negative_acknowledge" THEN 1 ELSE 0)

LastEvent(n) == IF n.out = <<>> THEN "none" ELSE PortEvent(n.out[Len(n.out)])

Port == INSTANCE HandlerPort WITH
  phase <- PortPhase(h), refusals <- PortRefusals(h), event <- LastEvent(h)

\* The node implements HandlerPort: a message that was accepted is won or
\* lost, a won one ends with one telegram or one error after at most two
\* refused slave parts, and only then may the next one be accepted.
ImplementsPort == Port!PortSpec

-----------------------------------------------------------------------------
\* Statements of the documentation that the code does not keep.  The run
\* no_ghost_request checks the first; TLC refutes the two others as well.

\* bus_request_ "indicates whether a bus request is present": it is set only
\* while the handler holds the message that it was set for.
NoGhostRequest == pc = "read" /\ req.bus_request => h.active_message

\* "When a full telegram is validated, the Handler fires a callback": a
\* telegram that is published has a valid master part and, where it has one,
\* a valid slave part.
ValidTelegrams ==
  \A i \in DOMAIN h.out : h.out[i].what = "telegram" => h.out[i].valid

\* "A spurious start bit invalidates both active and passive FSM states": a
\* NAK that makes the handler repeat its bytes finds bytes to repeat
\* (active_master_[0], passive_slave_[0]).
RepeatHasBytes ==
  pc = "run" /\ byte = Nak =>
    /\ h.state = "active_receive_master_acknowledge" => h.am_size > 0
    /\ h.state = "reactive_receive_slave_acknowledge" => h.ps_size > 0
=============================================================================
