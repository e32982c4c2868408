------------------------------ MODULE Handler ------------------------------
(***************************************************************************)
(* The protocol state machine (src/ebus/core/handler.cpp).  As in Request, *)
(* the object is a record and every method is an operator that returns the *)
(* object after the call.  BusHandler drives it.                           *)
(*                                                                         *)
(* Bytes are bytes; the buffers that collect them are abstracted to what   *)
(* the control flow looks at:                                              *)
(*                                                                         *)
(*   pm_size, pm_need    passive_master_: bytes held, up to the five of    *)
(*                       the header, and from then on the bytes missing    *)
(*                       (5 + dbx + 1 - size)                              *)
(*   qq_ok, zz           its first byte is a master address; the kind of   *)
(*                       target that its second byte names                 *)
(*   fit                 "unsure" when a byte got into it unchecked or     *)
(*                       escaped, so that Telegram::createMaster may       *)
(*                       reject its structure; "broken" when it has too    *)
(*                       many bytes and is sure to be rejected             *)
(*   type, m_ok, s_ok    passive_telegram_: type, master and slave part    *)
(*                       valid                                             *)
(*   ps_size, ps_need    passive_slave_, with one byte of header           *)
(*   a_type              active_telegram_'s type                           *)
(*   am_size, am_index   active_master_ and the byte that is being sent    *)
(*   as_size, as_need    active_slave_                                     *)
(*   write               pending_write_ of the last run                    *)
(*   asks                the last run called request_->requestBus          *)
(*   out                 the callbacks of the last call, in order          *)
(*                                                                         *)
(* What depends on the data itself is a parameter of the operators: the    *)
(* verdict of a telegram parser (parse), whether the byte read equals the  *)
(* byte sent (echo), and the length of the application's answer (reply,    *)
(* 0 when it gives none).                                                  *)
(***************************************************************************)
EXTENDS Request, Sequences

CONSTANTS
  Source,      \* source_address_
  MessageLen,  \* encoded bytes of an active message
  ReplyLen     \* encoded bytes of a reactive answer

ASSUME HandlerAssumption ==
  /\ Source \in {b \in Byte : IsMaster(b)}
  /\ MessageLen \in Nat \ {0, 1}
  /\ ReplyLen \in Nat \ {0}

PRM == "passive_receive_master"

ActiveStates ==
  {"active_send_master", "active_receive_master_acknowledge",
   "active_receive_slave", "active_send_slave_positive_acknowledge",
   "active_send_slave_negative_acknowledge"}

ReactiveStates ==
  {"reactive_send_master_positive_acknowledge",
   "reactive_send_master_negative_acknowledge", "reactive_send_slave",
   "reactive_receive_slave_acknowledge"}

HandlerStates ==
  {PRM, "passive_receive_master_acknowledge", "passive_receive_slave",
   "passive_receive_slave_acknowledge", "request_bus", "release_bus"}
    \cup ActiveStates \cup ReactiveStates

\* What the control flow tells apart in a target address.
Targets == {"none", "broadcast", "source", "target", "master", "slave", "invalid"}

TargetKind(byte) ==
  IF ~IsTarget(byte) THEN "invalid"
  ELSE IF byte = Broad THEN "broadcast"
  ELSE IF byte = Source THEN "source"
  ELSE IF byte = SlaveOf(Source) THEN "target"
  ELSE IF IsMaster(byte) THEN "master" ELSE "slave"

\* Telegram::typeOf of an address of this kind.
TypeOfKind(kind) ==
  CASE kind = "broadcast" -> "broadcast"
    [] kind \in {"source", "master"} -> "master_master"
    [] OTHER -> "master_slave"

Types  == {"undefined", "broadcast", "master_master", "master_slave"}
Parses == {"ok", "bad", "unparsed"}
Writes == {"none", "ack", "nak", "syn", "data"}

ErrorNames ==
  {"unlisted_transition", "illegal_fsm_transition", "check_passive_buffers",
   "check_active_buffers", "error_passive_master", "error_passive_master_ack",
   "error_passive_slave", "error_passive_slave_ack", "error_reactive_master",
   "error_reactive_master_ack", "error_reactive_slave", "error_reactive_slave_ack",
   "error_active_master_echo", "error_active_master_ack", "error_active_slave",
   "error_active_slave_ack"}

EventType ==
  [what : {"telegram", "error", "won", "lost"}, name : {""} \cup Types \cup ErrorNames,
   mode : {"none", "passive", "reactive", "active"}, valid : BOOLEAN]

HandlerType ==
  [state : HandlerStates,
   pm_size : 0..5, pm_need : 0..(MaxDataBytes + 1), qq_ok : BOOLEAN,
   zz : Targets, fit : {"fits", "unsure", "broken"}, pm_repeated : BOOLEAN,
   type : Types, m_ok : BOOLEAN, s_ok : BOOLEAN,
   ps_size : {0, 1, ReplyLen}, ps_need : 0..(MaxDataBytes + 1),
   ps_index : 0..ReplyLen, ps_repeated : BOOLEAN,
   active_message : BOOLEAN, a_type : Types,
   am_size : {0, MessageLen}, am_index : 0..MessageLen, am_repeated : BOOLEAN,
   as_size : 0..1, as_need : 0..(MaxDataBytes + 1), as_repeated : BOOLEAN,
   write : Writes, asks : BOOLEAN, out : Seq(EventType)]

\* The events with which the handler gives a message back to the scheduler.
Terminal(e) ==
  \/ e.what = "lost"
  \/ e.what = "telegram" /\ e.mode = "active"
  \/ e.name \in {"error_active_master_echo", "error_active_master_ack",
                 "error_active_slave_ack"}

NewHandler ==
  [state |-> PRM,
   pm_size |-> 0, pm_need |-> 0, qq_ok |-> TRUE, zz |-> "none", fit |-> "fits",
   pm_repeated |-> FALSE, type |-> "undefined", m_ok |-> FALSE, s_ok |-> FALSE,
   ps_size |-> 0, ps_need |-> 0, ps_index |-> 0, ps_repeated |-> FALSE,
   active_message |-> FALSE, a_type |-> "undefined",
   am_size |-> 0, am_index |-> 0, am_repeated |-> FALSE,
   as_size |-> 0, as_need |-> 0, as_repeated |-> FALSE,
   write |-> "none", asks |-> FALSE, out |-> <<>>]

-----------------------------------------------------------------------------
\* The callbacks: won_callback_, lost_callback_ and protocol_callback_.

Emit(h, event) == [h EXCEPT !.out = Append(@, event)]

OnTelegram(h, mode, type, valid) ==
  Emit(h, [what |-> "telegram", name |-> type, mode |-> mode, valid |-> valid])

OnError(h, name) ==
  Emit(h, [what |-> "error", name |-> name, mode |-> "none", valid |-> FALSE])

OnBusRequest(h, what) ==
  Emit(h, [what |-> what, name |-> "", mode |-> "active", valid |-> TRUE])

-----------------------------------------------------------------------------
\* transition_masks and transitionTo.  Every state may go to
\* passive_receive_master and to request_bus.  The error that transitionTo
\* reports is illegal_fsm_transition; it has a name of its own here to tell
\* it from the reports of reactiveSendMasterPositiveAcknowledge and
\* activeSendMaster.
Follows ==
  [s \in HandlerStates |->
     {PRM, "request_bus"} \cup
     CASE s = PRM ->
            {"passive_receive_master_acknowledge",
             "reactive_send_master_positive_acknowledge",
             "reactive_send_master_negative_acknowledge", "release_bus"}
       [] s = "passive_receive_master_acknowledge" -> {"passive_receive_slave"}
       [] s = "passive_receive_slave" -> {"passive_receive_slave_acknowledge"}
       [] s = "passive_receive_slave_acknowledge" -> {"passive_receive_slave"}
       [] s = "reactive_send_master_positive_acknowledge" -> {"reactive_send_slave"}
       [] s = "reactive_send_slave" -> {"reactive_receive_slave_acknowledge"}
       [] s = "reactive_receive_slave_acknowledge" -> {"reactive_send_slave"}
       [] s = "request_bus" -> {"active_send_master", "release_bus"}
       [] s = "active_send_master" ->
            {"active_receive_master_acknowledge", "release_bus"}
       [] s = "active_receive_master_acknowledge" ->
            {"active_send_master", "active_receive_slave", "release_bus"}
       [] s = "active_receive_slave" ->
            {"active_send_slave_positive_acknowledge",
             "active_send_slave_negative_acknowledge"}
       [] s = "active_send_slave_positive_acknowledge" -> {"release_bus"}
       [] s = "active_send_slave_negative_acknowledge" ->
            {"active_receive_slave", "release_bus"}
       [] OTHER -> {}]

TransitionTo(h, next) ==
  IF next = h.state \/ next \in Follows[h.state]
  THEN [h EXCEPT !.state = next]
  ELSE [OnError(h, "unlisted_transition") EXCEPT !.state = PRM]

-----------------------------------------------------------------------------
\* Resets.

CallPassiveReset(h) ==
  [h EXCEPT !.pm_size = 0, !.pm_need = 0, !.qq_ok = TRUE, !.zz = "none", !.fit = "fits",
            !.pm_repeated = FALSE, !.type = "undefined", !.m_ok = FALSE,
            !.s_ok = FALSE, !.ps_size = 0, !.ps_need = 0, !.ps_index = 0,
            !.ps_repeated = FALSE]

\* Mutant: active_master_ is not cleared.
CallActiveResetKeepsMaster(h) ==
  [h EXCEPT !.active_message = FALSE, !.a_type = "undefined",
            !.am_index = 0, !.am_repeated = FALSE, !.as_size = 0, !.as_need = 0,
            !.as_repeated = FALSE]

CallActiveReset(h) ==
  [h EXCEPT !.active_message = FALSE, !.a_type = "undefined", !.am_size = 0,
            !.am_index = 0, !.am_repeated = FALSE, !.as_size = 0, !.as_need = 0,
            !.as_repeated = FALSE]

\* The next attempt of a master telegram starts from an empty buffer.
ClearMaster(h) ==
  [h EXCEPT !.pm_size = 0, !.pm_need = 0, !.qq_ok = TRUE, !.zz = "none", !.fit = "fits",
            !.type = "undefined", !.m_ok = FALSE, !.s_ok = FALSE]

HandlerReset(h) ==
  CallPassiveReset(CallActiveReset(TransitionTo(h, PRM)))

CheckPassiveBuffers(h) ==
  IF h.pm_size > 0 \/ h.ps_size > 0
  THEN CallPassiveReset(OnError(h, "check_passive_buffers"))
  ELSE h

CheckActiveBuffers(h) ==
  IF h.am_size > 0 \/ h.as_size > 0
  THEN CallActiveReset(OnError(h, "check_active_buffers"))
  ELSE h

-----------------------------------------------------------------------------
\* Calls from outside the state handlers.

\* sendActiveMessage with a message whose telegram has type t, or with one
\* that createMaster rejects ("undefined"; what a rejected message leaves in
\* active_telegram_ is replaced before it is read).
SendActiveMessage(h, t) ==
  IF h.active_message \/ t = "undefined" THEN h
  ELSE [h EXCEPT !.active_message = TRUE, !.a_type = t]

OnBusRequested(h) ==
  IF h.active_message /\ h.state # "request_bus"
  THEN TransitionTo(h, "request_bus") ELSE h

OnStartBit(h) == CallPassiveReset(CallActiveReset(h))

-----------------------------------------------------------------------------
\* Passive reception.

CallWrite(h, w) == [h EXCEPT !.write = w]

\* The plausibility filter of the header.
Plausible(h, byte) ==
  CASE h.pm_size = 0 -> IsMaster(byte)
    [] h.pm_size = 1 -> IsTarget(byte)
    [] h.pm_size \in {2, 3} -> byte # Ext
    [] h.pm_size = 4 -> byte <= MaxDataBytes
    [] OTHER -> TRUE

\* Mutant: the count of missing bytes wraps below zero.
LessUnguarded(n) == n - 1

Less(n) == IF n > 0 THEN n - 1 ELSE 0

\* passive_master_.push_back and the bookkeeping of passive_master_dbx_.
PushMaster(h, byte) ==
  [h EXCEPT
     !.pm_size = IF @ < 5 THEN @ + 1 ELSE 5,
     !.pm_need = CASE h.pm_size < 4 -> 0
                   [] h.pm_size = 4 -> byte + 1
                   [] OTHER -> IF byte = Ext THEN @ ELSE Less(@),
     !.zz  = IF h.pm_size = 1 THEN TargetKind(byte) ELSE @,
     !.fit = IF h.pm_size = 5 /\ h.pm_need = 0 THEN "broken"
             ELSE IF byte = Ext /\ @ = "fits" THEN "unsure" ELSE @]

\* passive_telegram_.createMaster: a rejected structure keeps the old type.
CreateMaster(h, parse) ==
  [h EXCEPT !.type = IF parse = "unparsed" THEN @ ELSE TypeOfKind(h.zz),
            !.m_ok = (parse = "ok")]

ParsesOf(h) ==
  IF ~h.qq_ok \/ h.zz = "invalid" THEN {"unparsed"}
  ELSE CASE h.fit = "fits"   -> {"ok", "bad"}
         [] h.fit = "unsure" -> Parses
         [] h.fit = "broken" -> {"bad", "unparsed"}

\* A valid master part is complete.
MasterReceived(h, reply) ==
  IF h.type = "broadcast"
  THEN CallPassiveReset(OnTelegram(h, "passive", "broadcast", TRUE))
  ELSE IF h.zz = "source"
  THEN TransitionTo(CallWrite(h, "ack"), "reactive_send_master_positive_acknowledge")
  ELSE IF h.zz = "target"
  THEN IF reply > 0
       THEN TransitionTo(
              CallWrite([h EXCEPT !.ps_size = reply, !.s_ok = TRUE], "ack"),
              "reactive_send_master_positive_acknowledge")
       ELSE TransitionTo(
              CallWrite(CallPassiveReset(OnError(h, "error_reactive_slave")), "syn"),
              "release_bus")
  ELSE TransitionTo(h, "passive_receive_master_acknowledge")

\* An invalid master part is complete.
MasterRejected(h) ==
  IF h.zz \in {"source", "target"}
  THEN TransitionTo(
         CallWrite(ClearMaster(OnError(h, "error_reactive_master")), "nak"),
         "reactive_send_master_negative_acknowledge")
  ELSE IF h.type \in {"master_master", "master_slave"}
  THEN TransitionTo(h, "passive_receive_master_acknowledge")
  ELSE CallPassiveReset(OnError(h, "error_passive_master"))

PassiveReceiveMaster(h, byte, parse, reply) ==
  IF byte = Syn
  THEN LET c == CheckActiveBuffers(CheckPassiveBuffers(h))
       IN  [c EXCEPT !.asks = c.active_message]
  ELSE IF ~Plausible(h, byte) THEN CallPassiveReset(h)
  ELSE LET p == PushMaster(h, byte)
       IN  IF p.pm_size < 5 \/ p.pm_need > 0 THEN p
           ELSE LET t == CreateMaster(p, parse)
                IN  IF t.m_ok THEN MasterReceived(t, reply) ELSE MasterRejected(t)

\* Mutant: a missing acknowledge is waited for across a SYN.
PassiveReceiveMasterAcknowledgePatient(h, byte) ==
  IF byte = Syn THEN h
  ELSE IF byte = Ack
  THEN IF h.type = "master_master"
       THEN TransitionTo(
              CallPassiveReset(OnTelegram(h, "passive", "master_master", h.m_ok)),
              PRM)
       ELSE TransitionTo(h, "passive_receive_slave")
  ELSE IF ~h.pm_repeated
  THEN TransitionTo([ClearMaster(h) EXCEPT !.pm_repeated = TRUE], PRM)
  ELSE TransitionTo(CallPassiveReset(OnError(h, "error_passive_master_ack")), PRM)

PassiveReceiveMasterAcknowledge(h, byte) ==
  IF byte = Ack
  THEN IF h.type = "master_master"
       THEN TransitionTo(
              CallPassiveReset(OnTelegram(h, "passive", "master_master", h.m_ok)),
              PRM)
       ELSE TransitionTo(h, "passive_receive_slave")
  ELSE IF byte # Syn /\ ~h.pm_repeated
  THEN TransitionTo([ClearMaster(h) EXCEPT !.pm_repeated = TRUE], PRM)
  ELSE TransitionTo(CallPassiveReset(OnError(h, "error_passive_master_ack")), PRM)

PassiveReceiveSlave(h, byte, parse) ==
  IF h.ps_size = 0 /\ byte > MaxDataBytes THEN CallPassiveReset(h)
  ELSE LET p == [h EXCEPT !.ps_size = 1,
                          !.ps_need = IF h.ps_size = 0 THEN byte + 1
                                      ELSE IF byte = Ext THEN @ ELSE Less(@)]
       IN  IF p.ps_need > 0 THEN p
           ELSE TransitionTo(
                  IF parse = "ok" THEN [p EXCEPT !.s_ok = TRUE]
                  ELSE [OnError(p, "error_passive_slave") EXCEPT !.s_ok = FALSE],
                  "passive_receive_slave_acknowledge")

PassiveReceiveSlaveAcknowledge(h, byte) ==
  IF byte = Ack
  THEN TransitionTo(
         CallPassiveReset(OnTelegram(h, "passive", "master_slave", h.m_ok /\ h.s_ok)),
         PRM)
  ELSE IF byte = Nak /\ ~h.ps_repeated
  THEN TransitionTo([h EXCEPT !.ps_repeated = TRUE, !.ps_size = 0, !.ps_need = 0],
                    "passive_receive_slave")
  ELSE TransitionTo(CallPassiveReset(OnError(h, "error_passive_slave_ack")), PRM)

-----------------------------------------------------------------------------
\* Reactive answers.  Here ps_size is the length of the encoded answer.

ReactiveSendMasterPositiveAcknowledge(h) ==
  IF h.type = "master_master"
  THEN TransitionTo(
         CallPassiveReset(OnTelegram(h, "reactive", "master_master", h.m_ok)), PRM)
  ELSE IF h.ps_index >= h.ps_size
  THEN TransitionTo(CallPassiveReset(OnError(h, "illegal_fsm_transition")), PRM)
  ELSE TransitionTo(CallWrite(h, "data"), "reactive_send_slave")

ReactiveSendMasterNegativeAcknowledge(h) ==
  LET n == TransitionTo(h, PRM)
  IN  IF ~n.pm_repeated THEN [n EXCEPT !.pm_repeated = TRUE]
      ELSE CallPassiveReset(OnError(n, "error_reactive_master_ack"))

ReactiveSendSlave(h) ==
  LET n == [h EXCEPT !.ps_index = @ + 1]
  IN  IF n.ps_index >= n.ps_size
      THEN TransitionTo(n, "reactive_receive_slave_acknowledge")
      ELSE CallWrite(n, "data")

\* Mutant: the repetition starts at the acknowledge of the master part.
ReactiveReceiveSlaveAcknowledgeTooFar(h, byte) ==
  IF byte = Ack
  THEN TransitionTo(
         CallPassiveReset(OnTelegram(h, "reactive", "master_slave", h.m_ok /\ h.s_ok)),
         PRM)
  ELSE IF byte = Nak /\ ~h.ps_repeated
  THEN TransitionTo(
         CallWrite([h EXCEPT !.ps_repeated = TRUE, !.ps_index = 0], "ack"),
         "reactive_send_master_positive_acknowledge")
  ELSE TransitionTo(CallPassiveReset(OnError(h, "error_reactive_slave_ack")), PRM)

ReactiveReceiveSlaveAcknowledge(h, byte) ==
  IF byte = Ack
  THEN TransitionTo(
         CallPassiveReset(OnTelegram(h, "reactive", "master_slave", h.m_ok /\ h.s_ok)),
         PRM)
  ELSE IF byte = Nak /\ ~h.ps_repeated
  THEN TransitionTo(
         CallWrite([h EXCEPT !.ps_repeated = TRUE, !.ps_index = 0], "data"),
         "reactive_send_slave")
  ELSE TransitionTo(CallPassiveReset(OnError(h, "error_reactive_slave_ack")), PRM)

-----------------------------------------------------------------------------
\* Active messages.

\* Mutant: the loss is not reported.
AbandonSilently(h) ==
  [h EXCEPT !.active_message = FALSE, !.a_type = "undefined", !.am_size = 0]

\* active_message_, active_telegram_ and active_master_ are dropped; the
\* index and the repeat flags keep their values.
Abandon(h) ==
  [OnBusRequest(h, "lost") EXCEPT !.active_message = FALSE,
                                  !.a_type = "undefined", !.am_size = 0]

BusWon(h) ==
  IF h.a_type # "undefined"
  THEN TransitionTo(
         CallWrite([OnBusRequest(h, "won") EXCEPT !.am_size = MessageLen,
                                                  !.am_index = 1], "data"),
         "active_send_master")
  ELSE TransitionTo(CallWrite(Abandon(h), "syn"), "release_bus")

\* The byte of the winner starts the passive master telegram, unchecked.
BusLost(h, byte) ==
  LET p == PushMaster(Abandon(h), byte)
  IN  TransitionTo(
        [p EXCEPT !.qq_ok   = IF h.pm_size = 0 THEN IsMaster(byte) ELSE @,
                  !.pm_need = CASE h.pm_size < 4 -> 0
                                [] h.pm_size = 4 -> 1
                                [] OTHER -> Less(h.pm_need),
                  !.fit     = IF h.pm_size > 0 /\ @ = "fits" THEN "unsure"
                              ELSE @],
        PRM)

\* Mutant: a retry that ends in an error is waited for like one that is due.
RequestTheBusAwaitsRetry(h, byte, result) ==
  IF result \in WonResults THEN BusWon(h)
  ELSE IF result \in LostResults THEN BusLost(h, byte)
  ELSE IF result \in IdleResults \ {"retry_error"} THEN TransitionTo(Abandon(h), PRM)
  ELSE h

\* Mutant: a Request that has left the arbitration is not noticed.
RequestTheBusIgnoresObserve(h, byte, result) ==
  IF result \in WonResults THEN BusWon(h)
  ELSE IF result \in LostResults THEN BusLost(h, byte)
  ELSE IF result = "retry_error" THEN TransitionTo(Abandon(h), PRM)
  ELSE h

RequestTheBus(h, byte, result) ==
  IF result \in WonResults THEN BusWon(h)
  ELSE IF result \in LostResults THEN BusLost(h, byte)
  ELSE IF result \in IdleResults THEN TransitionTo(Abandon(h), PRM)
  ELSE h

\* The telegram is finished: reset, write SYN, release the bus.
Finish(h) == TransitionTo(CallWrite(CallActiveReset(h), "syn"), "release_bus")

ActiveSendMaster(h, echo) ==
  IF h.am_index >= h.am_size
  THEN TransitionTo(CallActiveReset(OnError(h, "illegal_fsm_transition")), PRM)
  ELSE IF ~echo
  THEN TransitionTo(CallActiveReset(OnError(h, "error_active_master_echo")), PRM)
  ELSE LET n == [h EXCEPT !.am_index = @ + 1]
       IN  IF n.am_index < n.am_size THEN CallWrite(n, "data")
           ELSE IF n.a_type = "broadcast"
           THEN Finish(OnTelegram(n, "active", "broadcast", TRUE))
           ELSE TransitionTo(n, "active_receive_master_acknowledge")

\* Mutant: the repetition is not remembered.
ActiveReceiveMasterAcknowledgeForgets(h, byte) ==
  IF byte = Ack
  THEN IF h.a_type = "master_master"
       THEN Finish(OnTelegram(h, "active", "master_master", TRUE))
       ELSE TransitionTo(h, "active_receive_slave")
  ELSE IF byte = Nak /\ ~h.am_repeated
  THEN TransitionTo(CallWrite([h EXCEPT !.am_index = 0], "data"), "active_send_master")
  ELSE Finish(OnError(h, "error_active_master_ack"))

ActiveReceiveMasterAcknowledge(h, byte) ==
  IF byte = Ack
  THEN IF h.a_type = "master_master"
       THEN Finish(OnTelegram(h, "active", "master_master", TRUE))
       ELSE TransitionTo(h, "active_receive_slave")
  ELSE IF byte = Nak /\ ~h.am_repeated
  THEN TransitionTo(
         CallWrite([h EXCEPT !.am_repeated = TRUE, !.am_index = 0], "data"),
         "active_send_master")
  ELSE Finish(OnError(h, "error_active_master_ack"))

\* The slave part is refused: report, empty the buffer, answer NAK.
RefuseSlave(h) ==
  TransitionTo(
    CallWrite([OnError(h, "error_active_slave") EXCEPT !.as_size = 0, !.as_need = 0],
              "nak"),
    "active_send_slave_negative_acknowledge")

ActiveReceiveSlave(h, byte, parse) ==
  IF h.as_size = 0 /\ byte > MaxDataBytes THEN RefuseSlave(h)
  ELSE LET p == [h EXCEPT !.as_size = 1,
                          !.as_need = IF h.as_size = 0 THEN byte + 1
                                      ELSE IF byte = Ext THEN @ ELSE Less(@)]
       IN  IF p.as_need > 0 THEN p
           ELSE IF parse = "ok"
           THEN TransitionTo(CallWrite(p, "ack"),
                             "active_send_slave_positive_acknowledge")
           ELSE RefuseSlave(p)

ActiveSendSlavePositiveAcknowledge(h) ==
  Finish(OnTelegram(h, "active", "master_slave", TRUE))

\* Mutant: the repetition of the slave part is not remembered.
ActiveSendSlaveNegativeAcknowledgeForgets(h) ==
  TransitionTo(h, "active_receive_slave")

ActiveSendSlaveNegativeAcknowledge(h) ==
  IF ~h.as_repeated
  THEN TransitionTo([h EXCEPT !.as_repeated = TRUE], "active_receive_slave")
  ELSE Finish(OnError(h, "error_active_slave_ack"))

ReleaseBus(h) == TransitionTo(h, PRM)

-----------------------------------------------------------------------------
\* The record of the callbacks and of the pending write starts anew.
Fresh(h) == [h EXCEPT !.write = "none", !.asks = FALSE, !.out = <<>>]

\* run: the handler of the state is called.
HandlerRun(h0, byte, result, parse, echo, reply) ==
  LET h == Fresh(h0)
  IN
  CASE h.state = PRM -> PassiveReceiveMaster(h, byte, parse, reply)
    [] h.state = "passive_receive_master_acknowledge" ->
         PassiveReceiveMasterAcknowledge(h, byte)
    [] h.state = "passive_receive_slave" -> PassiveReceiveSlave(h, byte, parse)
    [] h.state = "passive_receive_slave_acknowledge" ->
         PassiveReceiveSlaveAcknowledge(h, byte)
    [] h.state = "reactive_send_master_positive_acknowledge" ->
         ReactiveSendMasterPositiveAcknowledge(h)
    [] h.state = "reactive_send_master_negative_acknowledge" ->
         ReactiveSendMasterNegativeAcknowledge(h)
    [] h.state = "reactive_send_slave" -> ReactiveSendSlave(h)
    [] h.state = "reactive_receive_slave_acknowledge" ->
         ReactiveReceiveSlaveAcknowledge(h, byte)
    [] h.state = "request_bus" -> RequestTheBus(h, byte, result)
    [] h.state = "active_send_master" -> ActiveSendMaster(h, echo)
    [] h.state = "active_receive_master_acknowledge" ->
         ActiveReceiveMasterAcknowledge(h, byte)
    [] h.state = "active_receive_slave" -> ActiveReceiveSlave(h, byte, parse)
    [] h.state = "active_send_slave_positive_acknowledge" ->
         ActiveSendSlavePositiveAcknowledge(h)
    [] h.state = "active_send_slave_negative_acknowledge" ->
         ActiveSendSlaveNegativeAcknowledge(h)
    [] h.state = "release_bus" -> ReleaseBus(h)
=============================================================================
