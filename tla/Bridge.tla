------------------------------- MODULE Bridge -------------------------------
(***************************************************************************)
(* The network bridge (src/ebus/app/client_manager.cpp): clients borrow    *)
(* the bus in sessions.  Two threads drive a session, the bus thread       *)
(* (onBusEventInfo, for every byte of the bus) and the I/O thread          *)
(* (clientIoLoop, sockets and timeouts); a user thread starts and stops    *)
(* the manager and removes clients.  mutex_ guards the session but is      *)
(* released between the parts of every operation, so each part is a step   *)
(* of its own and the other threads may come in between.                   *)
(*                                                                         *)
(*   req, flag   the Request, and bus_request_flag_ of the POSIX driver    *)
(*   session     session_state_                                            *)
(*   sender      current_active_sender_                                    *)
(*   late        the timeout has passed since last_state_change_ (FALSE    *)
(*               while no client owns a session, when nobody asks)         *)
(*   running     running_                                                  *)
(*   cl, slots   the clients, and the ones held by the client arrays       *)
(*   th          per thread: pc, c (its active_sender or client),          *)
(*               byte (popped), ret (where its call returns)               *)
(*   info, seen  bus thread: the byte and the result it is told, and its   *)
(*               snapshot of the clients without the sender                *)
(*   closing     I/O thread: to_stop                                       *)
(* and the environment: coming (connections still to be made), todo        *)
(* (chunks each client still sends), bytes (bus bytes still to come),      *)
(* stops; and history: mid (clients whose session put a telegram on the    *)
(* bus that no SYN has ended yet; a byte written for a session that is     *)
(* over begins none).                                                      *)
(***************************************************************************)
EXTENDS Request, Client, FiniteSets

CONSTANTS
  Clients, KindOf,  \* the connections that are made, and their kinds
  NoClient,         \* a null pointer
  MaxClients,       \* NetworkLimits::max_clients, per kind
  ChunksOf,         \* what a client may send at a time
  MaxChunks,        \* bound: chunks per client
  Quitters,         \* clients whose connection may break or be removed
  BusBytes,         \* bytes the wire may carry
  MaxBytes,         \* bound: bus bytes
  LockMax,          \* lock counter of the Request
  MaxStops          \* bound: how often the manager is stopped

ASSUME BridgeAssumption ==
  /\ NoClient \notin Clients
  /\ KindOf \in [Clients -> Kinds]
  /\ Quitters \subseteq Clients
  /\ MaxClients \in Nat \ {0}
  /\ BusBytes \subseteq Byte
  /\ \A c \in Clients : ChunksOf[c] \subseteq Seq(Byte)
  /\ {MaxChunks, MaxBytes, MaxStops} \subseteq Nat
  /\ LockMax \in 0..LockLimit

VARIABLES req, flag, session, sender, late, running, cl, slots, th,
          info, seen, closing, coming, todo, bytes, stops, mid

bus_vars == <<req, flag, bytes, info, seen>>
env      == <<coming, todo, stops>>
vars == <<req, flag, session, sender, late, running, cl, slots, th,
          info, seen, closing, coming, todo, bytes, stops, mid>>

Threads == {"bus", "io", "user"}

At(t, pc) == th[t].pc = pc

\* Thread t goes on at pc, or returns from a call.
Goto(t, pc) == th' = [th EXCEPT ![t].pc = pc]

Idle(pc) == [pc |-> pc, c |-> NoClient, byte |-> 0, ret |-> "idle"]

Done(t, pc) == th' = [th EXCEPT ![t] = Idle(pc)]

Connected(c) == c # NoClient /\ cl[c].up

\* push waits for room and holds io_mutex_ of this client.
Locked(c) == At("io", "push") /\ th["io"].c = c

NoInfo == [byte |-> 0, result |-> "observe_syn"]

Init ==
  /\ req = New(LockMax) /\ flag = FALSE
  /\ session = "idle" /\ sender = NoClient /\ late = FALSE
  /\ running = FALSE
  /\ cl = [c \in Clients |-> Close(NewClient(KindOf[c]))]
  /\ slots = {} /\ coming = Clients
  /\ th = [t \in Threads |-> Idle(IF t = "io" THEN "off" ELSE "idle")]
  /\ info = NoInfo /\ seen = {} /\ closing = {}
  /\ todo = [c \in Clients |-> MaxChunks]
  /\ bytes = MaxBytes /\ stops = 0
  /\ mid = {}

-----------------------------------------------------------------------------
\* What either thread does to the session.

\* transitSessionState.
Transit(state) == session' = state /\ late' = FALSE

\* stopActiveSession, under mutex_: whatever session there is now ends.
StopSession(t) ==
  /\ At(t, "stop")
  /\ IF sender = NoClient
     THEN /\ Done(t, th[t].ret)
          /\ UNCHANGED <<session, sender, late>>
     ELSE /\ th' = [th EXCEPT ![t].pc = "close", ![t].c = sender]
          /\ sender' = NoClient
          /\ session' = "idle" /\ late' = FALSE
  /\ UNCHANGED <<bus_vars, running, cl, slots, closing, env,
                 mid>>

\* Mutant: the client of the stopped session stays connected.
CloseSenderQuietly(t) ==
  /\ At(t, "close")
  /\ cl' = cl
  /\ req' = Reset(req)
  /\ Done(t, th[t].ret)
  /\ UNCHANGED <<flag, bytes, info, seen, session, sender, late, running,
                 slots, closing, env, mid>>

\* stopActiveSession, after the unlock: the old sender is closed and the
\* Request is reset, whoever uses it by now.
CloseSender(t) ==
  /\ At(t, "close")
  /\ cl' = [cl EXCEPT ![th[t].c] = Close(@)]
  /\ req' = Reset(req)
  /\ Done(t, th[t].ret)
  /\ UNCHANGED <<flag, bytes, info, seen, session, sender, late, running,
                 slots, closing, env, mid>>

\* trySendNextByte, first part: take a byte from the client.
SendPop(t) ==
  /\ At(t, "send")
  /\ ~Locked(th[t].c)
  /\ IF Connected(th[t].c) /\ HasPending(cl[th[t].c])
     THEN /\ th' = [th EXCEPT ![t].pc = "write",
                              ![t].byte = Head(cl[th[t].c].inb)]
          /\ cl' = [cl EXCEPT ![th[t].c] = Pop(@)]
     ELSE Done(t, th[t].ret) /\ cl' = cl
  /\ UNCHANGED <<bus_vars, session, sender, late, running, slots, closing,
                 env, mid>>

\* trySendNextByte, under mutex_: write it, whoever owns the session by now.  A
\* SYN ends the session, and on the wire every telegram; so also that of a
\* client that has got the session since the byte was taken, and that stays
\* connected (such a step is a hazard of its own; mid leaves it aside).
SendWrite(t) ==
  /\ At(t, "write")
  /\ Done(t, th[t].ret)
  /\ IF th[t].byte = Syn
     THEN Transit("idle") /\ sender' = NoClient
          /\ mid' = mid \ {th[t].c, sender}
     ELSE Transit("response") /\ sender' = sender
          /\ mid' = IF sender = th[t].c THEN mid \cup {sender} ELSE mid
  /\ UNCHANGED <<bus_vars, running, cl, slots, closing, env>>

\* handleBusAvailableForSession, under mutex_: thread t goes on with the
\* sender of a session in request, or to pc.
AvailSnapshot(t, pc) ==
  th' = [th EXCEPT ![t] =
           IF session = "request" /\ Connected(sender)
           THEN [pc |-> "take", c |-> sender, byte |-> 0, ret |-> pc]
           ELSE Idle(pc)]

\* The bus is available: take the first byte; without one the session ends.
AvailPop(t) ==
  /\ At(t, "take")
  /\ ~Locked(th[t].c)
  /\ IF ~BusAvailable(req) THEN Done(t, th[t].ret) /\ cl' = cl
     ELSE IF HasPending(cl[th[t].c])
     THEN /\ th' = [th EXCEPT ![t].pc = "request",
                              ![t].byte = Head(cl[th[t].c].inb)]
          /\ cl' = [cl EXCEPT ![th[t].c] = Pop(@)]
     ELSE Goto(t, "stop") /\ cl' = cl
  /\ UNCHANGED <<bus_vars, session, sender, late, running, slots, closing,
                 env, mid>>

\* Under mutex_ again: the request, unless the session has changed.
AvailRequest(t) ==
  /\ At(t, "request")
  /\ Done(t, th[t].ret)
  /\ IF session = "request" /\ sender = th[t].c
     THEN /\ req' = RequestBus(req, th[t].byte, TRUE)
          /\ Transit("response")
          /\ mid' = mid \cup {th[t].c}
     ELSE UNCHANGED <<req, session, late, mid>>
  /\ UNCHANGED <<flag, bytes, info, seen, sender, running, cl, slots,
                 closing, env>>

-----------------------------------------------------------------------------
\* The bus thread.

\* onBusRequested, the callback of busRequestCompleted.
OnBusRequested ==
  IF session = "request" /\ sender # NoClient
  THEN Transit("response") ELSE UNCHANGED <<session, late>>

\* A byte is read.  For an external request the POSIX driver writes the
\* address after the SYN and does not report the SYN; the flag comes with
\* the next byte.  onBusEvent runs the Request.
Receive(b) ==
  /\ At("bus", "idle")
  /\ bytes > 0 /\ bytes' = bytes - 1
  /\ IF b = Syn /\ req.bus_request
     THEN /\ flag' = TRUE
          /\ UNCHANGED <<req, session, late, info, th>>
     ELSE LET r == Run(IF flag THEN BusRequestCompleted(req) ELSE req, b)
          IN  /\ flag' = FALSE
              /\ req' = r /\ info' = [byte |-> b, result |-> r.result]
              /\ IF flag THEN OnBusRequested ELSE UNCHANGED <<session, late>>
              /\ Goto("bus", "info")
  /\ UNCHANGED <<sender, running, cl, slots, seen, closing, env, mid>>

\* onBusEventInfo, under mutex_: the snapshot; every byte extends a session.
Snapshot ==
  /\ At("bus", "info")
  /\ IF running
     THEN /\ th' = [th EXCEPT !["bus"].c = sender, !["bus"].pc =
                      IF Connected(sender) THEN "echo" ELSE "forward"]
          /\ seen' = {c \in slots : cl[c].up} \ {sender}
          /\ late' = FALSE
          /\ info' = info
     ELSE Done("bus", "idle") /\ info' = NoInfo /\ UNCHANGED <<seen, late>>
  /\ UNCHANGED <<req, flag, bytes, session, sender, running, cl,
                 slots, closing, env, mid>>

\* onBusByte of the sender decides.
SenderByte ==
  LET c == th["bus"].c
      action == OnBusByte(cl[c], info.byte, info.result)
  IN  /\ At("bus", "echo")
      /\ ~Locked(c)
      /\ th' = [th EXCEPT !["bus"].ret = "after", !["bus"].pc =
                  CASE action = "stop_session" -> "stop"
                    [] action = "bypass_wait"  -> "bypass"
                    [] action = "keep_active"  -> "after"]
      /\ UNCHANGED <<bus_vars, session, sender, late, running, cl, slots,
                     closing, env, mid>>

\* bypass_wait, under mutex_: transmit, without a look at the session.
Bypass ==
  /\ At("bus", "bypass")
  /\ Transit("transmit")
  /\ Goto("bus", "send")
  /\ UNCHANGED <<bus_vars, sender, running, cl, slots, closing, env,
                 mid>>

\* A session in request tries to get the bus.
AfterSender ==
  /\ At("bus", "after")
  /\ AvailSnapshot("bus", "forward")
  /\ UNCHANGED <<bus_vars, session, sender, late, running, cl, slots, closing,
                 env, mid>>

\* The byte goes to the outbound buffers of the clients of the snapshot, each
\* under its io_mutex_.
Forward ==
  /\ At("bus", "forward")
  /\ \A c \in seen : ~Locked(c)
  /\ Done("bus", "idle")
  /\ seen' = {} /\ info' = NoInfo
  /\ UNCHANGED <<req, flag, bytes, session, sender, late, running, cl, slots,
                 closing, env, mid>>

-----------------------------------------------------------------------------
\* The I/O thread: select ends with a timeout or with activity.

Selecting == At("io", "select") /\ running

\* Mutant: only a transmission times out.
CheckTimeoutTransmit ==
  /\ Selecting
  /\ th' = [th EXCEPT !["io"].ret = "gone", !["io"].pc =
              IF session = "transmit" /\ late THEN "stop" ELSE "gone"]
  /\ UNCHANGED <<bus_vars, session, sender, late, running, cl, slots, closing,
                 env, mid>>

\* checkSessionTimeout.
CheckTimeout ==
  /\ Selecting
  /\ th' = [th EXCEPT !["io"].ret = "gone", !["io"].pc =
              IF sender # NoClient /\ late THEN "stop" ELSE "gone"]
  /\ UNCHANGED <<bus_vars, session, sender, late, running, cl, slots, closing,
                 env, mid>>

\* handleActiveSenderDisconnected; CloseSender is its part after the unlock.
SenderGone ==
  /\ At("io", "gone")
  /\ IF sender # NoClient /\ ~cl[sender].up
     THEN /\ th' = [th EXCEPT !["io"].pc = "close", !["io"].c = sender,
                              !["io"].ret = "sweep"]
          /\ sender' = NoClient
          /\ session' = "idle" /\ late' = FALSE
     ELSE Done("io", "sweep") /\ UNCHANGED <<session, sender, late>>
  /\ UNCHANGED <<bus_vars, running, cl, slots, closing, env, mid>>

\* removeDisconnectedClients, then the fallback for a session in request.
Sweep ==
  /\ At("io", "sweep")
  /\ slots' = {c \in slots : cl[c].up}
  /\ AvailSnapshot("io", "select")
  /\ UNCHANGED <<bus_vars, session, sender, late, running, cl, closing, env,
                 mid>>

\* The sockets that select reports are served in any order.
Serving == Selecting \/ At("io", "serve")

\* addClient: disconnected clients of the kind make room; without a free
\* slot the connection is closed.
AddClient(c) ==
  LET kept == {d \in slots : KindOf[d] # KindOf[c] \/ cl[d].up}
      free == Cardinality({d \in kept : KindOf[d] = KindOf[c]}) < MaxClients
  IN  /\ slots' = IF free THEN kept \cup {c} ELSE kept
      /\ cl' = IF free THEN [cl EXCEPT ![c] = NewClient(KindOf[c])] ELSE cl

\* acceptNewConnections.
Accept(c) ==
  /\ Serving
  /\ c \in coming /\ coming' = coming \ {c}
  /\ AddClient(c)
  /\ Done("io", "serve")
  /\ UNCHANGED <<bus_vars, session, sender, late, running, closing, todo,
                 stops, mid>>

\* handleSocketInput: bytes have arrived.
Read(c, data) ==
  /\ Serving
  /\ Connected(c) /\ c \in slots
  /\ todo[c] > 0 /\ todo' = [todo EXCEPT ![c] = @ - 1]
  /\ LET in == HandleIncomingStream(cl[c], data)
     IN  /\ cl' = [cl EXCEPT ![c] = in.c]
         /\ req' = IF in.reset THEN Reset(req) ELSE req
         /\ th' = [th EXCEPT !["io"].c = c, !["io"].pc =
                     IF in.stuck THEN "push" ELSE "input"]
  /\ UNCHANGED <<flag, bytes, info, seen, session, sender, late, running,
                 slots, closing, coming, stops, mid>>

\* tryStartSessionForClient.
CanStart(c) ==
  /\ Connected(c)
  /\ HasPending(cl[c])
  /\ sender = NoClient
  /\ session = "idle"

\* handleSocketInput goes on: the next byte of a transmission, or a session.
Input ==
  LET c == th["io"].c
  IN  /\ At("io", "input")
      /\ IF sender = c /\ session = "transmit"
         THEN /\ th' = [th EXCEPT !["io"].pc = "send", !["io"].ret = "serve"]
              /\ UNCHANGED <<session, sender, late, cl>>
         ELSE /\ Done("io", "serve")
              /\ IF CanStart(c)
                 THEN /\ sender' = c
                      /\ Transit("request")
                      /\ cl' = [cl EXCEPT ![c] = OnSessionStart(@)]
                 ELSE UNCHANGED <<session, sender, late, cl>>
      /\ UNCHANGED <<bus_vars, running, slots, closing, env, mid>>

\* recv or select report the end of the connection: the slot is freed, the
\* client is closed when all sockets are served.
Hangup(c) ==
  /\ Serving
  /\ Connected(c) /\ c \in slots
  /\ slots' = slots \ {c}
  /\ closing' = closing \cup {c}
  /\ Done("io", "serve")
  /\ UNCHANGED <<bus_vars, session, sender, late, running, cl, env, mid>>

\* handleSocketOutput and flushLocked, when the write fails: the socket is
\* closed at once.
BrokenOutput(c) ==
  /\ Serving
  /\ Connected(c) /\ c \in slots
  /\ cl' = [cl EXCEPT ![c] = Close(@)]
  /\ slots' = slots \ {c}
  /\ closing' = closing \cup {c}
  /\ Done("io", "serve")
  /\ UNCHANGED <<bus_vars, session, sender, late, running, env, mid>>

\* The end of handleClientIO, and removeDisconnectedClients.
Cleanup ==
  /\ At("io", "serve") \/ (Selecting /\ \E c \in slots : ~cl[c].up)
  /\ cl' = [c \in Clients |-> IF c \in closing THEN Close(cl[c]) ELSE cl[c]]
  /\ slots' = {c \in slots : cl'[c].up}
  /\ closing' = {}
  /\ Done("io", "select")
  /\ UNCHANGED <<bus_vars, session, sender, late, running, env, mid>>

IoExit ==
  /\ At("io", "select") /\ ~running
  /\ Done("io", "off")
  /\ UNCHANGED <<bus_vars, session, sender, late, running, cl, slots, closing,
                 env, mid>>

-----------------------------------------------------------------------------
\* The user's threads.

Start ==
  /\ At("user", "idle") /\ At("io", "off") /\ ~running
  /\ running' = TRUE
  /\ Done("io", "select")
  /\ UNCHANGED <<bus_vars, session, sender, late, cl, slots, closing, env,
                 mid>>

\* stop: the flag, then the join, then stopActiveSession.  The clients stay.
Stop ==
  /\ At("user", "idle")
  /\ running /\ stops < MaxStops
  /\ running' = FALSE
  /\ stops' = stops + 1
  /\ Goto("user", "join")
  /\ UNCHANGED <<bus_vars, session, sender, late, cl, slots, closing, coming,
                 todo, mid>>

Joined ==
  /\ At("user", "join") /\ At("io", "off")
  /\ th' = [th EXCEPT !["user"].pc = "stop", !["user"].ret = "idle"]
  /\ UNCHANGED <<bus_vars, session, sender, late, running, cl, slots, closing,
                 env, mid>>

\* removeClient.
RemoveClient(c) ==
  /\ At("user", "idle")
  /\ c \in slots
  /\ slots' = slots \ {c}
  /\ cl' = [cl EXCEPT ![c] = Close(@)]
  /\ UNCHANGED <<bus_vars, session, sender, late, running, th, closing, env,
                 mid>>

\* The session timeout passes.
TimePasses ==
  /\ sender # NoClient /\ ~late
  /\ late' = TRUE
  /\ UNCHANGED <<bus_vars, session, sender, running, cl, slots, th, closing,
                 env, mid>>

Session(t) ==
  \/ StopSession(t) \/ CloseSender(t)
  \/ SendPop(t) \/ SendWrite(t)
  \/ AvailPop(t) \/ AvailRequest(t)

BusStep == Snapshot \/ SenderByte \/ Bypass \/ AfterSender \/ Forward

Served ==
  \E c \in Clients :
    \/ Accept(c)
    \/ \E data \in ChunksOf[c] : Read(c, data)
    \/ c \in Quitters /\ (Hangup(c) \/ BrokenOutput(c))

Next ==
  \/ \E t \in Threads : Session(t)
  \/ \E b \in BusBytes : Receive(b)
  \/ BusStep
  \/ CheckTimeout \/ SenderGone \/ Sweep
  \/ Served \/ Input \/ Cleanup \/ IoExit
  \/ Start \/ Stop \/ Joined
  \/ \E c \in Quitters : RemoveClient(c)
  \/ TimePasses

\* The threads run, select times out on a silent bus, and time passes.  What
\* the clients, the bus and the user do is up to them.
Fairness ==
  /\ \A t \in Threads : WF_vars(Session(t))
  /\ WF_vars(BusStep)
  /\ WF_vars(CheckTimeout) /\ WF_vars(SenderGone) /\ WF_vars(Sweep)
  /\ WF_vars(Input) /\ WF_vars(Cleanup) /\ WF_vars(IoExit)
  /\ WF_vars(Joined) /\ WF_vars(TimePasses)

Spec     == Init /\ [][Next]_vars
FairSpec == Spec /\ Fairness

-----------------------------------------------------------------------------
ThreadType ==
  [pc : {"idle", "off", "stop", "close", "send", "write", "take",
         "request", "info", "echo", "bypass", "after", "forward", "select",
         "gone", "sweep", "serve", "input", "push", "join"},
   c : Clients \cup {NoClient}, byte : Byte,
   ret : {"idle", "after", "forward", "gone", "sweep", "select", "serve"}]

\* Types; the buffers of the clients stay within their capacities.
TypeOK ==
  /\ req \in RequestType /\ flag \in BOOLEAN
  /\ session \in {"idle", "request", "response", "transmit"}
  /\ sender \in Clients \cup {NoClient}
  /\ {late, running} \subseteq BOOLEAN
  /\ cl \in [Clients -> ClientType]
  /\ \A c \in Clients : Len(cl[c].inb) <= InCap
  /\ slots \cup seen \cup closing \cup coming \cup mid \subseteq Clients
  /\ th \in [Threads -> ThreadType]
  /\ info \in [byte : Byte, result : Results]

\* Thread t is about to close client c.
Closing(t, c) == At(t, "close") /\ th[t].c = c

\* A client whose session put a telegram on the bus that no SYN has ended
\* either owns the session or is, or is about to be, disconnected:
\* stopActiveSession, handleActiveSenderDisconnected and the timeouts never
\* leave a client connected that takes its cut telegram for a sent one.  (A
\* telegram that the SYN of another client ends counts as ended.)
CutTelegramDisconnects ==
  \A c \in mid : cl[c].up =>
    \/ sender = c
    \/ \E t \in Threads : Closing(t, c)

\* A client that is removed or has hung up does not stay the active sender,
\* and on a bus that falls silent a client that does nothing loses the session,
\* whichever step of the other thread came in between; unless the I/O thread,
\* which looks at the timeouts, waits in push: a full inbound_buffer_ keeps it
\* there for good, since pop needs the io_mutex_ that it holds
\* (client.cpp:143-147).  A session that has no sender is not meant here:
\* SessionInProgress is about that.
SilentBusReleases ==
  \A c \in Clients : sender = c ~> sender # c \/ At("io", "push")

\* What client_manager.hpp:70 says of isSessionActive, which looks at
\* session_state_ alone: it is TRUE while a session is in progress.  When no
\* thread is within a call, a session that has not ended has a client.
SessionInProgress ==
  At("bus", "idle") /\ At("io", "select") /\ At("user", "idle") =>
    (session # "idle" => sender # NoClient)

\* What client.cpp:144 says of the inbound bytes: all of them are forwarded,
\* byte by byte.  A byte taken from a client that stays connected is used.
BytesForwarded ==
  [][\A t \in Threads :
       At(t, "request") /\ ~At(t, "request")' =>
         \/ session = "request" /\ sender = th[t].c
         \/ ~cl[th[t].c].up
         \/ \E u \in Threads : Closing(u, th[t].c)]_vars
=============================================================================
