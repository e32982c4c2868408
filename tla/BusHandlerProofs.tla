-------------------------- MODULE BusHandlerProofs --------------------------
(***************************************************************************)
(* The node is safe for every address, message length, set of bytes and    *)
(* lock counters, on both platforms, with and without spurious start bits  *)
(* and resets from other threads; where a property needs one of the last   *)
(* two to be absent, its theorem says so.  The first part is about the     *)
(* Handler alone: what each of its methods does, for every handler object  *)
(* H, byte and verdict of a parser.                                        *)
(***************************************************************************)
EXTENDS BusHandler, RequestProofs, SequenceTheorems, FiniteSetTheorems

-----------------------------------------------------------------------------
\* What a method may rely on and has to keep.

\* The states in which the slave part of an active message is exchanged.
SlaveStates ==
  ActiveStates \ {"active_send_master", "active_receive_master_acknowledge"}

\* The states in which the handler listens or answers.
ListeningStates == HandlerStates \ (ActiveStates \cup {"request_bus"})

\* A message is held exactly as long as its telegram; the active buffers are
\* filled in the active states only; a slave part is repeated only after the
\* master part; and a reactive answer is sent from within its length.
HandlerInv(H) ==
  /\ H.active_message <=> H.a_type # "undefined"
  /\ H.state \in ActiveStates => H.active_message /\ H.am_size = MessageLen
  /\ H.state \notin ActiveStates =>
       H.am_size = 0 /\ H.as_size = 0 /\ ~H.am_repeated
  /\ H.state \notin SlaveStates => ~H.as_repeated
  /\ H.state = "active_send_master" => H.am_index < MessageLen
  /\ H.state = "reactive_send_slave" => H.ps_index < ReplyLen

\* The active message and its buffers are left alone.
SameActive(H, d) ==
  /\ d.active_message = H.active_message /\ d.a_type = H.a_type
  /\ d.am_size = H.am_size /\ d.am_index = H.am_index
  /\ d.am_repeated = H.am_repeated
  /\ d.as_size = H.as_size /\ d.as_need = H.as_need
  /\ d.as_repeated = H.as_repeated

\* The active message is dropped, with its buffers.
NoActive(d) ==
  /\ ~d.active_message /\ d.a_type = "undefined"
  /\ d.am_size = 0 /\ d.as_size = 0 /\ ~d.am_repeated /\ ~d.as_repeated

\* A callback about the telegrams of other nodes.
OverheardEvent(e) ==
  /\ e \in EventType
  /\ e.what \in {"telegram", "error"}
  /\ e.what = "telegram" => e.mode # "active"
  /\ e.name # "unlisted_transition" /\ e.name # "error_active_slave"
  /\ ~Terminal(e)

\* The errors that the passive and reactive state handlers report.
OverheardErrors ==
  {"check_passive_buffers", "error_reactive_slave", "error_reactive_master",
   "error_passive_master", "error_passive_master_ack", "error_passive_slave",
   "error_passive_slave_ack", "illegal_fsm_transition",
   "error_reactive_master_ack", "error_reactive_slave_ack"}

\* A callback that ends a message that was being sent.
FinalEvent(e) ==
  /\ e \in EventType
  /\ e.what \in {"telegram", "error"}
  /\ e.what = "telegram" => e.mode = "active"
  /\ e.name # "unlisted_transition" /\ e.name # "error_active_slave"
  /\ Terminal(e)

-----------------------------------------------------------------------------
\* Constants of the types.

\* The values that the handler starts its counters and fields with are in
\* their types.
LEMMA TypeFacts ==
  /\ 0 \in 0..5 /\ 5 \in 0..5
  /\ 0 \in 0..(MaxDataBytes + 1) /\ 1 \in 0..(MaxDataBytes + 1)
  /\ 0 \in {0, 1, ReplyLen} /\ 0 \in 0..ReplyLen
  /\ 0 \in {0, MessageLen} /\ MessageLen \in {0, MessageLen}
  /\ 0 \in 0..MessageLen /\ 1 \in 0..MessageLen /\ 1 < MessageLen /\ 0 < MessageLen
  /\ 0 \in 0..1 /\ 1 \in 0..1
  /\ "undefined" \in Types /\ "none" \in Targets
  /\ {"none", "ack", "nak", "syn", "data"} \subseteq Writes
  BY HandlerAssumption DEF MaxDataBytes, Types, Targets, Writes

\* How the classes of states lie to each other.
LEMMA StateFacts ==
  /\ ListeningStates \cap ActiveStates = {} /\ SlaveStates \subseteq ActiveStates
  /\ PRM \in ListeningStates /\ "release_bus" \in ListeningStates
  /\ "request_bus" \notin ActiveStates /\ "request_bus" \notin ListeningStates
  /\ ListeningStates \subseteq HandlerStates /\ ActiveStates \subseteq HandlerStates
  /\ {"passive_receive_master_acknowledge", "passive_receive_slave",
      "passive_receive_slave_acknowledge"} \cup ReactiveStates \subseteq ListeningStates
  BY DEF ListeningStates, ActiveStates, SlaveStates, HandlerStates, ReactiveStates, PRM

-----------------------------------------------------------------------------
\* Resets, callbacks and transitions.

\* callPassiveReset leaves the active message alone.
LEMMA PassiveResetEffect ==
  ASSUME NEW H \in HandlerType, NEW d, d = CallPassiveReset(H)
  PROVE  /\ d \in HandlerType /\ SameActive(H, d)
         /\ d.state = H.state /\ d.out = H.out /\ d.ps_index = 0
  BY TypeFacts, ZenonT(60) DEF CallPassiveReset, HandlerType, SameActive

\* callActiveReset drops the active message and its buffers.
LEMMA ActiveResetEffect ==
  ASSUME NEW H \in HandlerType, NEW d, d = CallActiveReset(H)
  PROVE  /\ d \in HandlerType /\ NoActive(d)
         /\ d.state = H.state /\ d.out = H.out /\ d.ps_index = H.ps_index
  BY TypeFacts, ZenonT(60) DEF CallActiveReset, HandlerType, NoActive

\* A rejected master part leaves the active message alone.
LEMMA ClearMasterEffect ==
  ASSUME NEW H \in HandlerType, NEW d, d = ClearMaster(H)
  PROVE  /\ d \in HandlerType /\ SameActive(H, d)
         /\ d.state = H.state /\ d.out = H.out
  BY TypeFacts, ZenonT(60) DEF ClearMaster, HandlerType, SameActive

\* callWrite changes nothing but the byte to write.
LEMMA WriteEffect ==
  ASSUME NEW H \in HandlerType, NEW w \in Writes, NEW d, d = CallWrite(H, w)
  PROVE  /\ d \in HandlerType /\ SameActive(H, d) /\ d.asks = H.asks
         /\ d.state = H.state /\ d.out = H.out /\ d.ps_index = H.ps_index
  BY DEF CallWrite, HandlerType, SameActive

\* A callback on an empty list of events is the only event of the step.
LEMMA EmitEffect ==
  ASSUME NEW H \in HandlerType, H.out = <<>>, NEW e \in EventType, NEW d, d = Emit(H, e)
  PROVE  /\ d \in HandlerType /\ SameActive(H, d) /\ d.asks = H.asks
         /\ d.state = H.state /\ d.out = <<e>> /\ d.ps_index = H.ps_index
         /\ d.type = H.type /\ d.zz = H.zz
  <1>1. Append(H.out, e) = <<e>> /\ <<e>> \in Seq(EventType)
    OBVIOUS
  <1> QED  BY <1>1 DEF Emit, HandlerType, SameActive

\* A transition of the table is taken as asked for.
LEMMA MoveEffect ==
  ASSUME NEW H \in HandlerType, NEW next \in HandlerStates, next \in Follows[H.state],
         NEW d, d = TransitionTo(H, next)
  PROVE  /\ d \in HandlerType /\ SameActive(H, d) /\ d.asks = H.asks
         /\ d.state = next /\ d.out = H.out /\ d.ps_index = H.ps_index
  BY DEF TransitionTo, HandlerType, SameActive

\* The transitions that the state handlers ask for are in the table.
LEMMA FollowFacts ==
  /\ \A s \in HandlerStates : {PRM, "request_bus"} \subseteq Follows[s]
  /\ {"passive_receive_master_acknowledge", "reactive_send_master_positive_acknowledge",
      "reactive_send_master_negative_acknowledge", "release_bus"} \subseteq Follows[PRM]
  /\ "passive_receive_slave" \in Follows["passive_receive_master_acknowledge"]
  /\ "passive_receive_slave_acknowledge" \in Follows["passive_receive_slave"]
  /\ "passive_receive_slave" \in Follows["passive_receive_slave_acknowledge"]
  /\ "reactive_send_slave" \in Follows["reactive_send_master_positive_acknowledge"]
  /\ "reactive_receive_slave_acknowledge" \in Follows["reactive_send_slave"]
  /\ "reactive_send_slave" \in Follows["reactive_receive_slave_acknowledge"]
  /\ {"active_send_master", "release_bus"} \subseteq Follows["request_bus"]
  /\ {"active_receive_master_acknowledge", "release_bus"} \subseteq Follows["active_send_master"]
  /\ {"active_send_master", "active_receive_slave", "release_bus"}
       \subseteq Follows["active_receive_master_acknowledge"]
  /\ {"active_send_slave_positive_acknowledge", "active_send_slave_negative_acknowledge"}
       \subseteq Follows["active_receive_slave"]
  /\ "release_bus" \in Follows["active_send_slave_positive_acknowledge"]
  /\ {"active_receive_slave", "release_bus"}
       \subseteq Follows["active_send_slave_negative_acknowledge"]
  BY DEF Follows, HandlerStates, ActiveStates, ReactiveStates, PRM

\* The error callbacks of the passive and reactive states.
LEMMA OverheardError ==
  ASSUME NEW name \in OverheardErrors,
         NEW H \in HandlerType, H.out = <<>>, NEW d, d = OnError(H, name)
  PROVE  /\ d \in HandlerType /\ SameActive(H, d) /\ d.state = H.state
         /\ d.type = H.type /\ d.zz = H.zz
         /\ \E e : OverheardEvent(e) /\ d.out = <<e>>
  <1> DEFINE e == [what |-> "error", name |-> name, mode |-> "none", valid |-> FALSE]
  <1>a. name \in {""} \cup Types \cup ErrorNames
    BY DEF ErrorNames, OverheardErrors
  <1>b. e \in EventType
    BY <1>a DEF EventType
  <1>c. e.what = "error" /\ e.mode = "none" /\ e.name = name
    OBVIOUS
  <1> HIDE DEF e
  <1>1. e \in EventType /\ OverheardEvent(e)
    BY <1>b, <1>c DEF OverheardEvent, Terminal, OverheardErrors
  <1> USE DEF e
  <1>2. d = Emit(H, e)
    BY DEF OnError
  <1> HIDE DEF e
  <1> QED  BY <1>1, <1>2, EmitEffect

\* The telegram callbacks of the passive and reactive states.
LEMMA OverheardTelegram ==
  ASSUME NEW mode \in {"passive", "reactive"},
         NEW type \in {"broadcast", "master_master", "master_slave"},
         NEW valid \in BOOLEAN,
         NEW H \in HandlerType, H.out = <<>>, NEW d, d = OnTelegram(H, mode, type, valid)
  PROVE  /\ d \in HandlerType /\ SameActive(H, d) /\ d.state = H.state
         /\ \E e : OverheardEvent(e) /\ d.out = <<e>>
  <1> DEFINE e == [what |-> "telegram", name |-> type, mode |-> mode, valid |-> valid]
  <1>a. type \in {""} \cup Types \cup ErrorNames
    BY DEF Types
  <1>b. e \in EventType
    BY <1>a DEF EventType
  <1>c. e.what = "telegram" /\ e.mode = mode /\ e.name = type
    OBVIOUS
  <1> HIDE DEF e
  <1>1. e \in EventType /\ OverheardEvent(e)
    BY <1>b, <1>c DEF OverheardEvent, Terminal
  <1> USE DEF e
  <1>2. d = Emit(H, e)
    BY DEF OnTelegram
  <1> HIDE DEF e
  <1> QED  BY <1>1, <1>2, EmitEffect

\* A telegram is given up or done with.
LEMMA ResetTo ==
  ASSUME NEW H \in HandlerType, NEW next \in HandlerStates, next \in Follows[H.state],
         NEW d, d = TransitionTo(CallPassiveReset(H), next)
  PROVE  /\ d \in HandlerType /\ SameActive(H, d)
         /\ d.state = next /\ d.out = H.out
  <1> DEFINE g == CallPassiveReset(H)
  <1>1. g \in HandlerType /\ SameActive(H, g) /\ g.state = H.state /\ g.out = H.out
    BY PassiveResetEffect
  <1>2. d = TransitionTo(g, next)
    OBVIOUS
  <1> HIDE DEF g
  <1>3. d \in HandlerType /\ SameActive(g, d) /\ d.state = next /\ d.out = g.out
    BY <1>1, <1>2, MoveEffect
  <1> QED  BY <1>1, <1>3 DEF SameActive

-----------------------------------------------------------------------------
\* Listening: what the passive and reactive state handlers have in common.

\* At most one callback, and only about the telegram of another node.
Overheard(d) == d.out = <<>> \/ \E e : OverheardEvent(e) /\ d.out = <<e>>

Listens(H, d) ==
  /\ d \in HandlerType /\ SameActive(H, d) /\ d.state \in ListeningStates
  /\ d.state = "reactive_send_slave" => d.ps_index < ReplyLen
  /\ Overheard(d)

\* A handler before its state handler is called.
Ready(H) == H \in HandlerType /\ HandlerInv(H) /\ H.out = <<>>

\* An error in the telegram of another node is reported and the telegram
\* given up.
LEMMA ErrorEnds ==
  ASSUME NEW H, Ready(H), NEW name \in OverheardErrors,
         NEW d, d = TransitionTo(CallPassiveReset(OnError(H, name)), PRM)
  PROVE  Listens(H, d) /\ d.state = PRM
  <1> DEFINE g == OnError(H, name)
  <1>1. /\ g \in HandlerType /\ SameActive(H, g) /\ g.state = H.state
        /\ \E e : OverheardEvent(e) /\ g.out = <<e>>
    BY OverheardError DEF Ready
  <1>2. d = TransitionTo(CallPassiveReset(g), PRM)
    OBVIOUS
  <1> HIDE DEF g
  <1>3. d \in HandlerType /\ SameActive(g, d) /\ d.state = PRM /\ d.out = g.out
    BY <1>1, <1>2, ResetTo, StateFacts, FollowFacts DEF HandlerType
  <1> QED  BY <1>1, <1>3, StateFacts DEF Listens, Overheard, SameActive, PRM

\* The telegram of another node, or to this node, is published.
LEMMA TelegramEnds ==
  ASSUME NEW H, Ready(H), NEW mode \in {"passive", "reactive"},
         NEW type \in {"broadcast", "master_master", "master_slave"},
         NEW valid \in BOOLEAN,
         NEW d, d = TransitionTo(CallPassiveReset(OnTelegram(H, mode, type, valid)), PRM)
  PROVE  Listens(H, d) /\ d.state = PRM
  <1> DEFINE g == OnTelegram(H, mode, type, valid)
  <1>1. /\ g \in HandlerType /\ SameActive(H, g) /\ g.state = H.state
        /\ \E e : OverheardEvent(e) /\ g.out = <<e>>
    BY OverheardTelegram DEF Ready
  <1>2. d = TransitionTo(CallPassiveReset(g), PRM)
    OBVIOUS
  <1> HIDE DEF g
  <1>3. d \in HandlerType /\ SameActive(g, d) /\ d.state = PRM /\ d.out = g.out
    BY <1>1, <1>2, ResetTo, StateFacts, FollowFacts DEF HandlerType
  <1> QED  BY <1>1, <1>3, StateFacts DEF Listens, Overheard, SameActive, PRM

\* A step that makes no callback.
LEMMA MoveListens ==
  ASSUME NEW H, NEW g \in HandlerType, SameActive(H, g), Overheard(g),
         NEW next \in ListeningStates, next \in Follows[g.state],
         next = "reactive_send_slave" => g.ps_index < ReplyLen,
         NEW d, d = TransitionTo(g, next)
  PROVE  Listens(H, d)
  <1>1. d \in HandlerType /\ SameActive(g, d) /\ d.state = next /\ d.out = g.out
          /\ d.ps_index = g.ps_index
    BY MoveEffect, StateFacts
  <1> QED  BY <1>1 DEF Listens, Overheard, SameActive

\* passiveReceiveMasterAcknowledge.
LEMMA PassiveReceiveMasterAcknowledgeListens ==
  ASSUME NEW H, Ready(H), H.state = "passive_receive_master_acknowledge",
         NEW b \in Byte, NEW d, d = PassiveReceiveMasterAcknowledge(H, b)
  PROVE  Listens(H, d)
  <1>1. H.m_ok \in BOOLEAN /\ H \in HandlerType /\ SameActive(H, H) /\ Overheard(H)
    BY DEF HandlerType, Ready, SameActive, Overheard
  <1>2. CASE b = Ack /\ H.type = "master_master"
    BY <1>1, <1>2, TelegramEnds DEF PassiveReceiveMasterAcknowledge
  <1>3. CASE b = Ack /\ H.type # "master_master"
    <2>1. d = TransitionTo(H, "passive_receive_slave")
      BY <1>3 DEF PassiveReceiveMasterAcknowledge
    <2> QED  BY <1>1, <2>1, MoveListens, StateFacts, FollowFacts
  <1>4. CASE b # Ack /\ b # Syn /\ ~H.pm_repeated
    <2> DEFINE c == ClearMaster(H)
               g == [c EXCEPT !.pm_repeated = TRUE]
    <2>1. c \in HandlerType /\ SameActive(H, c) /\ c.state = H.state /\ c.out = H.out
      BY <1>1, ClearMasterEffect
    <2>2. d = TransitionTo(g, PRM)
      BY <1>4 DEF PassiveReceiveMasterAcknowledge
    <2> HIDE DEF c
    <2>3. g \in HandlerType /\ SameActive(H, g) /\ g.state = H.state /\ g.out = H.out
      BY <2>1 DEF HandlerType, SameActive
    <2> HIDE DEF g
    <2> QED  BY <1>1, <2>2, <2>3, MoveListens, StateFacts, FollowFacts DEF Overheard, PRM
  <1>5. CASE b # Ack /\ (b = Syn \/ H.pm_repeated)
    <2>1. d = TransitionTo(CallPassiveReset(OnError(H, "error_passive_master_ack")), PRM)
      BY <1>5 DEF PassiveReceiveMasterAcknowledge
    <2> QED  BY <2>1, ErrorEnds DEF OverheardErrors
  <1> QED  BY <1>2, <1>3, <1>4, <1>5

\* The bytes still missing after one more byte of a part whose length is
\* known.
LEMMA LessType ==
  ASSUME NEW n \in 0..(MaxDataBytes + 1)
  PROVE  Less(n) \in 0..(MaxDataBytes + 1)
  BY DEF Less, MaxDataBytes

\* The count of missing slave bytes stays in its range.
LEMMA NeedType ==
  ASSUME NEW n \in 0..(MaxDataBytes + 1), NEW b \in Byte, NEW empty \in BOOLEAN,
         empty => b <= MaxDataBytes
  PROVE  (IF empty THEN b + 1 ELSE IF b = Ext THEN n ELSE Less(n))
            \in 0..(MaxDataBytes + 1)
  BY LessType DEF MaxDataBytes, Byte

\* passiveReceiveSlave.
LEMMA PassiveReceiveSlaveListens ==
  ASSUME NEW H, Ready(H), H.state = "passive_receive_slave",
         NEW b \in Byte, NEW parse \in Parses, NEW d, d = PassiveReceiveSlave(H, b, parse)
  PROVE  Listens(H, d)
  <1>1. H \in HandlerType /\ SameActive(H, H) /\ Overheard(H)
    BY DEF Ready, SameActive, Overheard
  <1>2. CASE H.ps_size = 0 /\ b > MaxDataBytes
    <2>1. d = CallPassiveReset(H)
      BY <1>2 DEF PassiveReceiveSlave
    <2> QED  BY <1>1, <2>1, PassiveResetEffect, StateFacts DEF Listens, Overheard
  <1>3. CASE ~(H.ps_size = 0 /\ b > MaxDataBytes)
    <2> DEFINE n == IF H.ps_size = 0 THEN b + 1
                    ELSE IF b = Ext THEN H.ps_need ELSE Less(H.ps_need)
               g == [H EXCEPT !.ps_size = 1, !.ps_need = n]
               x == IF parse = "ok" THEN [g EXCEPT !.s_ok = TRUE]
                    ELSE [OnError(g, "error_passive_slave") EXCEPT !.s_ok = FALSE]
    <2>1. n \in 0..(MaxDataBytes + 1)
      <3>1. H.ps_need \in 0..(MaxDataBytes + 1) /\ (H.ps_size = 0) \in BOOLEAN
        BY <1>1 DEF HandlerType
      <3>2. H.ps_size = 0 => b <= MaxDataBytes
        BY <1>3 DEF Byte, MaxDataBytes
      <3> QED  BY <3>1, <3>2, NeedType
    <2>2. d = IF g.ps_need > 0 THEN g
              ELSE TransitionTo(x, "passive_receive_slave_acknowledge")
      BY <1>3 DEF PassiveReceiveSlave
    <2> HIDE DEF n
    <2>3. g \in HandlerType /\ SameActive(H, g) /\ g.state = H.state /\ g.out = H.out
      BY <1>1, <2>1 DEF HandlerType, SameActive
    <2> HIDE DEF g
    <2>4. x \in HandlerType /\ SameActive(H, x) /\ x.state = H.state /\ Overheard(x)
      <3>1. CASE parse = "ok"
        BY <1>1, <2>3, <3>1, ZenonT(60) DEF HandlerType, SameActive, Overheard, Ready
      <3>2. CASE parse # "ok"
        <4> DEFINE y == OnError(g, "error_passive_slave")
        <4>1. /\ y \in HandlerType /\ SameActive(g, y) /\ y.state = g.state
              /\ Overheard(y)
          BY <2>3, OverheardError DEF OverheardErrors, Ready, Overheard
        <4>2. x = [y EXCEPT !.s_ok = FALSE]
          BY <3>2
        <4> HIDE DEF y, x
        <4> QED  BY <2>3, <4>1, <4>2, ZenonT(60) DEF HandlerType, SameActive, Overheard
      <3> QED  BY <3>1, <3>2
    <2> HIDE DEF x
    <2>5. CASE d = g
      BY <1>1, <2>3, <2>5, StateFacts DEF Listens, Overheard
    <2>6. CASE d = TransitionTo(x, "passive_receive_slave_acknowledge")
      BY <2>4, <2>6, MoveListens, StateFacts, FollowFacts
    <2> QED  BY <2>2, <2>5, <2>6
  <1> QED  BY <1>2, <1>3

\* passiveReceiveSlaveAcknowledge.
LEMMA PassiveReceiveSlaveAcknowledgeListens ==
  ASSUME NEW H, Ready(H), H.state = "passive_receive_slave_acknowledge",
         NEW b \in Byte, NEW d, d = PassiveReceiveSlaveAcknowledge(H, b)
  PROVE  Listens(H, d)
  <1> DEFINE ok == H.m_ok /\ H.s_ok
  <1>1. ok \in BOOLEAN /\ H \in HandlerType /\ SameActive(H, H) /\ Overheard(H)
    BY DEF HandlerType, Ready, SameActive, Overheard
  <1>2. CASE b = Ack
    <2>1. d = TransitionTo(CallPassiveReset(OnTelegram(H, "passive", "master_slave", ok)), PRM)
      BY <1>2 DEF PassiveReceiveSlaveAcknowledge
    <2> HIDE DEF ok
    <2> QED  BY <1>1, <2>1, TelegramEnds
  <1>3. CASE b # Ack /\ b = Nak /\ ~H.ps_repeated
    <2> DEFINE g == [H EXCEPT !.ps_repeated = TRUE, !.ps_size = 0, !.ps_need = 0]
    <2>1. g \in HandlerType /\ SameActive(H, g) /\ g.state = H.state /\ g.out = H.out
      BY <1>1, TypeFacts DEF HandlerType, SameActive
    <2>2. d = TransitionTo(g, "passive_receive_slave")
      BY <1>3 DEF PassiveReceiveSlaveAcknowledge
    <2> HIDE DEF g
    <2> QED  BY <1>1, <2>1, <2>2, MoveListens, StateFacts, FollowFacts DEF Overheard
  <1>4. CASE b # Ack /\ ~(b = Nak /\ ~H.ps_repeated)
    <2>1. d = TransitionTo(CallPassiveReset(OnError(H, "error_passive_slave_ack")), PRM)
      BY <1>4 DEF PassiveReceiveSlaveAcknowledge
    <2> QED  BY <2>1, ErrorEnds DEF OverheardErrors
  <1> QED  BY <1>2, <1>3, <1>4

\* reactiveSendMasterPositiveAcknowledge.
LEMMA ReactiveSendMasterPositiveAcknowledgeListens ==
  ASSUME NEW H, Ready(H), H.state = "reactive_send_master_positive_acknowledge",
         NEW d, d = ReactiveSendMasterPositiveAcknowledge(H)
  PROVE  Listens(H, d)
  <1>1. H.m_ok \in BOOLEAN /\ H \in HandlerType /\ SameActive(H, H) /\ Overheard(H)
    BY DEF HandlerType, Ready, SameActive, Overheard
  <1>2. CASE H.type = "master_master"
    BY <1>1, <1>2, TelegramEnds DEF ReactiveSendMasterPositiveAcknowledge
  <1>3. CASE H.type # "master_master" /\ H.ps_index >= H.ps_size
    <2>1. d = TransitionTo(CallPassiveReset(OnError(H, "illegal_fsm_transition")), PRM)
      BY <1>3 DEF ReactiveSendMasterPositiveAcknowledge
    <2> QED  BY <2>1, ErrorEnds DEF OverheardErrors
  <1>4. CASE H.type # "master_master" /\ ~(H.ps_index >= H.ps_size)
    <2> DEFINE g == CallWrite(H, "data")
    <2>1. /\ g \in HandlerType /\ SameActive(H, g) /\ g.state = H.state /\ g.out = H.out
          /\ g.ps_index = H.ps_index
      <3>1. "data" \in Writes
        BY DEF Writes
      <3> QED  BY <1>1, <3>1, WriteEffect
    <2>2. H.ps_index < ReplyLen
      <3>1. H.ps_index \in Nat /\ H.ps_size \in {0, 1, ReplyLen}
        BY <1>1, HandlerAssumption DEF HandlerType
      <3> QED  BY <1>4, <3>1, HandlerAssumption
    <2>3. d = TransitionTo(g, "reactive_send_slave")
      BY <1>4 DEF ReactiveSendMasterPositiveAcknowledge
    <2> HIDE DEF g
    <2> QED  BY <1>1, <2>1, <2>2, <2>3, MoveListens, StateFacts, FollowFacts
             DEF Overheard, ReactiveStates
  <1> QED  BY <1>2, <1>3, <1>4

\* reactiveSendMasterNegativeAcknowledge.
LEMMA ReactiveSendMasterNegativeAcknowledgeListens ==
  ASSUME NEW H, Ready(H), H.state = "reactive_send_master_negative_acknowledge",
         NEW d, d = ReactiveSendMasterNegativeAcknowledge(H)
  PROVE  Listens(H, d)
  <1> DEFINE n == TransitionTo(H, PRM)
             g == OnError(n, "error_reactive_master_ack")
  <1>1. n \in HandlerType /\ SameActive(H, n) /\ n.state = PRM /\ n.out = <<>>
    <2>1. H \in HandlerType /\ PRM \in HandlerStates /\ PRM \in Follows[H.state]
      BY StateFacts, FollowFacts DEF Ready, HandlerType
    <2> QED  BY <2>1, MoveEffect DEF Ready
  <1>2. \/ d = [n EXCEPT !.pm_repeated = TRUE]
        \/ d = CallPassiveReset(g)
    BY DEF ReactiveSendMasterNegativeAcknowledge
  <1> HIDE DEF n
  <1>3. CASE d = [n EXCEPT !.pm_repeated = TRUE]
    <2>1. d \in HandlerType /\ SameActive(H, d) /\ d.state = PRM /\ d.out = <<>>
      BY <1>1, <1>3, ZenonT(60) DEF HandlerType, SameActive
    <2> QED  BY <2>1, StateFacts DEF Listens, Overheard, PRM
  <1>4. CASE d = CallPassiveReset(g)
    <2>1. g \in HandlerType /\ SameActive(n, g) /\ g.state = PRM /\ Overheard(g)
      BY <1>1, OverheardError DEF OverheardErrors, Overheard
    <2> HIDE DEF g
    <2>2. d \in HandlerType /\ SameActive(g, d) /\ d.state = PRM /\ d.out = g.out
      BY <1>4, <2>1, PassiveResetEffect
    <2> QED  BY <1>1, <2>1, <2>2, StateFacts DEF Listens, Overheard, SameActive, PRM
  <1> QED  BY <1>2, <1>3, <1>4

\* reactiveSendSlave.
LEMMA ReactiveSendSlaveListens ==
  ASSUME NEW H, Ready(H), H.state = "reactive_send_slave",
         NEW d, d = ReactiveSendSlave(H)
  PROVE  Listens(H, d)
  <1> DEFINE n == [H EXCEPT !.ps_index = H.ps_index + 1]
             g == CallWrite(n, "data")
  <1>1. /\ H.ps_index \in Nat /\ H.ps_size \in {0, 1, ReplyLen}
        /\ H.ps_index + 1 \in 0..ReplyLen
    BY HandlerAssumption DEF Ready, HandlerType, HandlerInv
  <1>2. /\ n \in HandlerType /\ SameActive(H, n) /\ n.state = H.state /\ n.out = <<>>
        /\ n.ps_index = H.ps_index + 1 /\ n.ps_size = H.ps_size
    BY <1>1 DEF Ready, HandlerType, SameActive
  <1>3. \/ d = TransitionTo(n, "reactive_receive_slave_acknowledge")
        \/ ~(n.ps_index >= n.ps_size) /\ d = g
    BY DEF ReactiveSendSlave
  <1> HIDE DEF n
  <1>4. CASE d = TransitionTo(n, "reactive_receive_slave_acknowledge")
    BY <1>2, <1>4, MoveListens, StateFacts, FollowFacts DEF Overheard, ReactiveStates
  <1>5. CASE ~(n.ps_index >= n.ps_size) /\ d = g
    <2>1. n.ps_index < ReplyLen
      BY <1>1, <1>2, <1>5, HandlerAssumption
    <2>2. /\ d \in HandlerType /\ SameActive(n, d) /\ d.state = n.state /\ d.out = n.out
          /\ d.ps_index = n.ps_index
      <3>1. "data" \in Writes
        BY DEF Writes
      <3> QED  BY <1>2, <1>5, <3>1, WriteEffect
    <2> QED  BY <1>2, <2>1, <2>2, StateFacts DEF Listens, Overheard, SameActive, ReactiveStates
  <1> QED  BY <1>3, <1>4, <1>5

\* reactiveReceiveSlaveAcknowledge.
LEMMA ReactiveReceiveSlaveAcknowledgeListens ==
  ASSUME NEW H, Ready(H), H.state = "reactive_receive_slave_acknowledge",
         NEW b \in Byte, NEW d, d = ReactiveReceiveSlaveAcknowledge(H, b)
  PROVE  Listens(H, d)
  <1> DEFINE ok == H.m_ok /\ H.s_ok
  <1>1. ok \in BOOLEAN /\ H \in HandlerType /\ H.out = <<>>
    BY DEF HandlerType, Ready
  <1>2. CASE b = Ack
    <2>1. d = TransitionTo(CallPassiveReset(OnTelegram(H, "reactive", "master_slave", ok)), PRM)
      BY <1>2 DEF ReactiveReceiveSlaveAcknowledge
    <2> HIDE DEF ok
    <2> QED  BY <1>1, <2>1, TelegramEnds
  <1>3. CASE b # Ack /\ b = Nak /\ ~H.ps_repeated
    <2> DEFINE n == [H EXCEPT !.ps_repeated = TRUE, !.ps_index = 0]
               g == CallWrite(n, "data")
    <2>1. /\ n \in HandlerType /\ SameActive(H, n) /\ n.state = H.state /\ n.out = H.out
          /\ n.ps_index = 0
      BY <1>1, TypeFacts DEF HandlerType, SameActive
    <2>2. d = TransitionTo(g, "reactive_send_slave")
      BY <1>3 DEF ReactiveReceiveSlaveAcknowledge
    <2> HIDE DEF n
    <2>3. /\ g \in HandlerType /\ SameActive(n, g) /\ g.state = n.state /\ g.out = n.out
          /\ g.ps_index = 0
      <3>1. "data" \in Writes
        BY DEF Writes
      <3> QED  BY <2>1, <3>1, WriteEffect
    <2> HIDE DEF g
    <2>4. 0 < ReplyLen /\ SameActive(H, g) /\ Overheard(g)
      BY <1>1, <2>1, <2>3, HandlerAssumption DEF SameActive, Overheard
    <2> QED  BY <2>1, <2>2, <2>3, <2>4, MoveListens, StateFacts, FollowFacts
             DEF ReactiveStates
  <1>4. CASE b # Ack /\ ~(b = Nak /\ ~H.ps_repeated)
    <2>1. d = TransitionTo(CallPassiveReset(OnError(H, "error_reactive_slave_ack")), PRM)
      BY <1>4 DEF ReactiveReceiveSlaveAcknowledge
    <2> QED  BY <2>1, ErrorEnds DEF OverheardErrors
  <1> QED  BY <1>2, <1>3, <1>4

\* releaseBus.
LEMMA ReleaseBusListens ==
  ASSUME NEW H, Ready(H), H.state = "release_bus", NEW d, d = ReleaseBus(H)
  PROVE  Listens(H, d)
  <1>1. H \in HandlerType /\ SameActive(H, H) /\ Overheard(H)
    BY DEF Ready, SameActive, Overheard
  <1> QED  BY <1>1, MoveListens, StateFacts, FollowFacts DEF ReleaseBus, PRM

-----------------------------------------------------------------------------
\* passiveReceiveMaster.

\* Every byte is some kind of target.
LEMMA TargetKindType == \A b \in Byte : TargetKind(b) \in Targets
  BY DEF TargetKind, Targets

\* A byte pushed to the passive master leaves the active message alone.
LEMMA PushMasterEffect ==
  ASSUME NEW H \in HandlerType, NEW b \in Byte, H.pm_size = 4 => b <= MaxDataBytes,
         NEW d, d = PushMaster(H, b)
  PROVE  /\ d \in HandlerType /\ SameActive(H, d)
         /\ d.state = H.state /\ d.out = H.out
  <1> DEFINE s == IF H.pm_size < 5 THEN H.pm_size + 1 ELSE 5
             n == CASE H.pm_size < 4 -> 0
                    [] H.pm_size = 4 -> b + 1
                    [] OTHER -> IF b = Ext THEN H.pm_need ELSE Less(H.pm_need)
             z == IF H.pm_size = 1 THEN TargetKind(b) ELSE H.zz
             f == IF H.pm_size = 5 /\ H.pm_need = 0 THEN "broken"
                  ELSE IF b = Ext /\ H.fit = "fits" THEN "unsure" ELSE H.fit
  <1>1. H.pm_size \in 0..5 /\ H.pm_need \in 0..(MaxDataBytes + 1)
    BY DEF HandlerType
  <1>2. s \in 0..5
    BY <1>1
  <1>3. n \in 0..(MaxDataBytes + 1)
    <2>1. CASE H.pm_size < 4
      BY <1>1, <2>1, TypeFacts
    <2>2. CASE H.pm_size = 4
      BY <1>1, <2>2 DEF Byte, MaxDataBytes
    <2>3. CASE H.pm_size = 5
      BY <1>1, <2>3, LessType
    <2> QED  BY <1>1, <2>1, <2>2, <2>3
  <1>4. z \in Targets
    BY TargetKindType DEF HandlerType
  <1>5. f \in {"fits", "unsure", "broken"}
    BY DEF HandlerType
  <1>6. d = [H EXCEPT !.pm_size = s, !.pm_need = n, !.zz = z, !.fit = f]
    BY DEF PushMaster
  <1> HIDE DEF s, n, z, f
  <1>7. d \in HandlerType
    <2> DEFINE x == [H EXCEPT !.pm_size = s, !.pm_need = n]
    <2>1. x \in HandlerType
      BY <1>2, <1>3 DEF HandlerType
    <2>2. d = [x EXCEPT !.zz = z, !.fit = f]
      BY <1>6 DEF HandlerType
    <2> HIDE DEF x
    <2> QED  BY <1>4, <1>5, <2>1, <2>2, ZenonT(60) DEF HandlerType
  <1>8. SameActive(H, d) /\ d.state = H.state /\ d.out = H.out
    BY <1>6 DEF HandlerType, SameActive
  <1> QED  BY <1>7, <1>8

\* Parsing the passive master leaves the active message alone.
LEMMA CreateMasterEffect ==
  ASSUME NEW H \in HandlerType, NEW parse \in Parses, NEW d, d = CreateMaster(H, parse)
  PROVE  /\ d \in HandlerType /\ SameActive(H, d)
         /\ d.state = H.state /\ d.out = H.out
  <1> DEFINE t == IF parse = "unparsed" THEN H.type ELSE TypeOfKind(H.zz)
             m == (parse = "ok")
  <1>1. t \in Types /\ m \in BOOLEAN
    BY DEF HandlerType, TypeOfKind, Types
  <1>2. d = [H EXCEPT !.type = t, !.m_ok = m]
    BY DEF CreateMaster
  <1> HIDE DEF t, m
  <1>3. d \in HandlerType
    BY <1>1, <1>2, ZenonT(60) DEF HandlerType
  <1>4. SameActive(H, d) /\ d.state = H.state /\ d.out = H.out
    BY <1>2 DEF HandlerType, SameActive
  <1> QED  BY <1>3, <1>4

\* The buffer changed and nothing else that matters here.
LEMMA ReadyKept ==
  ASSUME NEW H, Ready(H), H.state = PRM,
         NEW g \in HandlerType, SameActive(H, g), g.state = H.state, g.out = H.out
  PROVE  Ready(g)
  <1>1. PRM \notin ActiveStates /\ PRM \notin SlaveStates /\ PRM # "reactive_send_slave"
         /\ PRM # "active_send_master"
    BY DEF PRM, ActiveStates, SlaveStates
  <1> QED  BY <1>1 DEF Ready, HandlerInv, SameActive

\* A step that leaves the active message alone may come before.
LEMMA ListensTrans ==
  ASSUME NEW H, NEW g, NEW d, SameActive(H, g), Listens(g, d)
  PROVE  Listens(H, d)
  BY DEF Listens, SameActive

\* As ErrorEnds and TelegramEnds, in passive_receive_master itself.
LEMMA ErrorStays ==
  ASSUME NEW H, Ready(H), H.state = PRM, NEW name \in OverheardErrors,
         NEW d, d = CallPassiveReset(OnError(H, name))
  PROVE  Listens(H, d) /\ d.state = PRM
  <1> DEFINE g == OnError(H, name)
  <1>1. /\ g \in HandlerType /\ SameActive(H, g) /\ g.state = H.state
        /\ \E e : OverheardEvent(e) /\ g.out = <<e>>
    BY OverheardError DEF Ready
  <1> HIDE DEF g
  <1>2. d \in HandlerType /\ SameActive(g, d) /\ d.state = PRM /\ d.out = g.out
    BY <1>1, PassiveResetEffect DEF g
  <1> QED  BY <1>1, <1>2, StateFacts DEF Listens, Overheard, SameActive, PRM

\* A broadcast is published in passive_receive_master itself.
LEMMA BroadcastStays ==
  ASSUME NEW H, Ready(H), H.state = PRM, NEW valid \in BOOLEAN,
         NEW d, d = CallPassiveReset(OnTelegram(H, "passive", "broadcast", valid))
  PROVE  Listens(H, d)
  <1> DEFINE g == OnTelegram(H, "passive", "broadcast", valid)
  <1>1. /\ g \in HandlerType /\ SameActive(H, g) /\ g.state = H.state
        /\ \E e : OverheardEvent(e) /\ g.out = <<e>>
    BY OverheardTelegram DEF Ready
  <1> HIDE DEF g
  <1>2. d \in HandlerType /\ SameActive(g, d) /\ d.state = PRM /\ d.out = g.out
    BY <1>1, PassiveResetEffect DEF g
  <1> QED  BY <1>1, <1>2, StateFacts DEF Listens, Overheard, SameActive, PRM

\* The complete master part of a valid telegram.
LEMMA MasterReceivedListens ==
  ASSUME NEW H, Ready(H), H.state = PRM, NEW reply \in {0, ReplyLen},
         NEW d, d = MasterReceived(H, reply)
  PROVE  Listens(H, d)
  <1>1. H \in HandlerType /\ SameActive(H, H) /\ Overheard(H) /\ {"ack", "syn"} \subseteq Writes
    BY DEF Ready, SameActive, Overheard, Writes
  <1>2. CASE H.type = "broadcast"
    <2> DEFINE x == TRUE
    <2>1. d = CallPassiveReset(OnTelegram(H, "passive", "broadcast", x)) /\ x \in BOOLEAN
      BY <1>2 DEF MasterReceived
    <2> HIDE DEF x
    <2> QED  BY <2>1, BroadcastStays
  <1>3. CASE H.type # "broadcast" /\ H.zz = "source"
    <2> DEFINE g == CallWrite(H, "ack")
    <2>1. g \in HandlerType /\ SameActive(H, g) /\ g.state = H.state /\ g.out = H.out
      BY <1>1, WriteEffect
    <2>2. d = TransitionTo(g, "reactive_send_master_positive_acknowledge")
      BY <1>3 DEF MasterReceived
    <2> HIDE DEF g
    <2> QED  BY <1>1, <2>1, <2>2, MoveListens, StateFacts, FollowFacts
             DEF Overheard, ReactiveStates
  <1>4. CASE H.type # "broadcast" /\ H.zz = "target" /\ reply > 0
    <2> DEFINE n == [H EXCEPT !.ps_size = reply, !.s_ok = TRUE]
               g == CallWrite(n, "ack")
    <2>1. n \in HandlerType /\ SameActive(H, n) /\ n.state = H.state /\ n.out = H.out
      BY <1>1 DEF HandlerType, SameActive
    <2>2. d = TransitionTo(g, "reactive_send_master_positive_acknowledge")
      BY <1>4 DEF MasterReceived
    <2> HIDE DEF n
    <2>3. g \in HandlerType /\ SameActive(n, g) /\ g.state = n.state /\ g.out = n.out
      BY <1>1, <2>1, WriteEffect
    <2> HIDE DEF g
    <2>4. SameActive(H, g) /\ Overheard(g)
      BY <1>1, <2>1, <2>3 DEF SameActive, Overheard
    <2> QED  BY <2>1, <2>2, <2>3, <2>4, MoveListens, StateFacts, FollowFacts
             DEF ReactiveStates
  <1>5. CASE H.type # "broadcast" /\ H.zz = "target" /\ ~(reply > 0)
    <2> DEFINE r == CallPassiveReset(OnError(H, "error_reactive_slave"))
               g == CallWrite(r, "syn")
    <2>1. Listens(H, r) /\ r.state = PRM
      BY ErrorStays DEF OverheardErrors
    <2>2. d = TransitionTo(g, "release_bus")
      BY <1>5 DEF MasterReceived
    <2> HIDE DEF r
    <2>3. g \in HandlerType /\ SameActive(r, g) /\ g.state = r.state /\ g.out = r.out
      BY <1>1, <2>1, WriteEffect DEF Listens
    <2> HIDE DEF g
    <2>4. SameActive(H, g) /\ Overheard(g)
      BY <2>1, <2>3 DEF SameActive, Overheard, Listens
    <2> QED  BY <2>1, <2>2, <2>3, <2>4, MoveListens, StateFacts, FollowFacts
  <1>6. CASE H.type # "broadcast" /\ H.zz \notin {"source", "target"}
    <2>1. d = TransitionTo(H, "passive_receive_master_acknowledge")
      BY <1>6 DEF MasterReceived
    <2> QED  BY <1>1, <2>1, MoveListens, StateFacts, FollowFacts
  <1> QED  BY <1>2, <1>3, <1>4, <1>5, <1>6

\* The complete master part of a telegram that does not parse.
LEMMA MasterRejectedListens ==
  ASSUME NEW H, Ready(H), H.state = PRM, NEW d, d = MasterRejected(H)
  PROVE  Listens(H, d)
  <1>1. H \in HandlerType /\ SameActive(H, H) /\ Overheard(H) /\ "nak" \in Writes
    BY DEF Ready, SameActive, Overheard, Writes
  <1>2. CASE H.zz \in {"source", "target"}
    <2> DEFINE e == OnError(H, "error_reactive_master")
               c == ClearMaster(e)
               g == CallWrite(c, "nak")
    <2>1. e \in HandlerType /\ SameActive(H, e) /\ e.state = H.state /\ Overheard(e)
      BY <1>1, OverheardError DEF OverheardErrors, Overheard, Ready
    <2>2. d = TransitionTo(g, "reactive_send_master_negative_acknowledge")
      BY <1>2 DEF MasterRejected
    <2> HIDE DEF e
    <2>3. c \in HandlerType /\ SameActive(e, c) /\ c.state = e.state /\ c.out = e.out
      BY <2>1, ClearMasterEffect
    <2> HIDE DEF c
    <2>4. g \in HandlerType /\ SameActive(c, g) /\ g.state = c.state /\ g.out = c.out
      BY <1>1, <2>3, WriteEffect
    <2> HIDE DEF g
    <2>5. SameActive(H, g) /\ Overheard(g)
      BY <2>1, <2>3, <2>4 DEF SameActive, Overheard
    <2> QED  BY <2>1, <2>2, <2>3, <2>4, <2>5, MoveListens, StateFacts, FollowFacts
             DEF ReactiveStates
  <1>3. CASE H.zz \notin {"source", "target"} /\ H.type \in {"master_master", "master_slave"}
    <2>1. d = TransitionTo(H, "passive_receive_master_acknowledge")
      BY <1>3 DEF MasterRejected
    <2> QED  BY <1>1, <2>1, MoveListens, StateFacts, FollowFacts
  <1>4. CASE H.zz \notin {"source", "target"} /\ H.type \notin {"master_master", "master_slave"}
    <2>1. d = CallPassiveReset(OnError(H, "error_passive_master"))
      BY <1>4 DEF MasterRejected
    <2> QED  BY <2>1, ErrorStays DEF OverheardErrors
  <1> QED  BY <1>2, <1>3, <1>4

\* passiveReceiveMaster: it listens, or the SYN makes it ask for the bus.
LEMMA PassiveReceiveMasterListens ==
  ASSUME NEW H, Ready(H), H.state = PRM, NEW b \in Byte, NEW parse \in Parses,
         NEW reply \in {0, ReplyLen}, NEW d, d = PassiveReceiveMaster(H, b, parse, reply)
  PROVE  Listens(H, d)
  <1>1. H \in HandlerType /\ SameActive(H, H) /\ Overheard(H) /\ PRM # "reactive_send_slave"
    BY DEF Ready, SameActive, Overheard, PRM
  <1>2. CASE b = Syn
    <2> DEFINE p == CheckPassiveBuffers(H)
               c == CheckActiveBuffers(p)
    <2>1. Listens(H, p) /\ p.state = PRM
      <3>1. CASE p = H
        BY <1>1, <3>1, StateFacts DEF Listens
      <3>2. CASE p = CallPassiveReset(OnError(H, "check_passive_buffers"))
        BY <3>2, ErrorStays DEF OverheardErrors
      <3> QED  BY <3>1, <3>2 DEF CheckPassiveBuffers
    <2> HIDE DEF p
    <2>2. c = p
      <3>1. H.am_size = 0 /\ H.as_size = 0
        BY StateFacts DEF Ready, HandlerInv
      <3>2. ~(p.am_size > 0 \/ p.as_size > 0)
        BY <2>1, <3>1 DEF Listens, SameActive
      <3> QED  BY <3>2 DEF CheckActiveBuffers
    <2>3. d = [p EXCEPT !.asks = p.active_message]
      BY <1>2, <2>2 DEF PassiveReceiveMaster, p
    <2>4. d \in HandlerType /\ SameActive(H, d) /\ d.state = PRM /\ d.out = p.out
      BY <2>1, <2>3 DEF Listens, HandlerType, SameActive
    <2> QED  BY <1>1, <2>1, <2>4, StateFacts DEF Listens, Overheard
  <1>3. CASE b # Syn /\ ~Plausible(H, b)
    <2>1. d = CallPassiveReset(H)
      BY <1>3 DEF PassiveReceiveMaster
    <2> QED  BY <1>1, <2>1, PassiveResetEffect, StateFacts DEF Listens, Overheard
  <1>4. CASE b # Syn /\ Plausible(H, b)
    <2> DEFINE p == PushMaster(H, b)
               t == CreateMaster(p, parse)
    <2>1. H.pm_size = 4 => b <= MaxDataBytes
      BY <1>1, <1>4 DEF Plausible, HandlerType
    <2>2. p \in HandlerType /\ SameActive(H, p) /\ p.state = H.state /\ p.out = H.out
      BY <1>1, <2>1, PushMasterEffect
    <2>3. \/ d = p
          \/ d = MasterReceived(t, reply)
          \/ d = MasterRejected(t)
      BY <1>4 DEF PassiveReceiveMaster
    <2> HIDE DEF p
    <2>4. t \in HandlerType /\ SameActive(p, t) /\ t.state = p.state /\ t.out = p.out
      BY <2>2, CreateMasterEffect
    <2> HIDE DEF t
    <2>5. SameActive(H, t) /\ Ready(t) /\ t.state = PRM
      <3>1. SameActive(H, t) /\ t.state = H.state /\ t.out = H.out
        BY <2>2, <2>4 DEF SameActive
      <3> QED  BY <2>4, <3>1, ReadyKept
    <2>6. CASE d = p
      BY <1>1, <2>2, <2>6, StateFacts DEF Listens, Overheard
    <2>7. CASE d = MasterReceived(t, reply)
      BY <2>5, <2>7, MasterReceivedListens, ListensTrans
    <2>8. CASE d = MasterRejected(t)
      BY <2>5, <2>8, MasterRejectedListens, ListensTrans
    <2> QED  BY <2>3, <2>6, <2>7, <2>8
  <1> QED  BY <1>2, <1>3, <1>4

-----------------------------------------------------------------------------
\* request_bus.

\* The callbacks won and lost.
BusEvent(e, what) == e \in EventType /\ e.what = what /\ e.name = ""

\* The message was dropped with the callback lost.
Loses(H, d) ==
  /\ d \in HandlerType
  /\ ~d.active_message /\ d.a_type = "undefined" /\ d.am_size = 0
  /\ d.as_size = H.as_size
  /\ d.am_repeated = H.am_repeated /\ d.as_repeated = H.as_repeated
  /\ d.state \in {PRM, "release_bus"}
  /\ \E e : BusEvent(e, "lost") /\ d.out = <<e>>

\* The message is being sent, after the callback won.
Wins(H, d) ==
  /\ d \in HandlerType
  /\ d.active_message = H.active_message /\ d.a_type = H.a_type
  /\ d.a_type # "undefined" /\ ~d.asks
  /\ d.am_size = MessageLen /\ d.am_index = 1
  /\ d.am_repeated = H.am_repeated /\ d.as_repeated = H.as_repeated
  /\ d.state = "active_send_master"
  /\ \E e : BusEvent(e, "won") /\ d.out = <<e>>

\* The bus request callback is the only event of the step.
LEMMA BusRequestEvent ==
  ASSUME NEW what \in {"won", "lost"}, NEW H \in HandlerType, H.out = <<>>,
         NEW d, d = OnBusRequest(H, what)
  PROVE  /\ d \in HandlerType /\ SameActive(H, d) /\ d.asks = H.asks /\ d.state = H.state
         /\ \E e : BusEvent(e, what) /\ d.out = <<e>>
  <1> DEFINE x == TRUE
             e == [what |-> what, name |-> "", mode |-> "active", valid |-> x]
  <1>1. e \in EventType /\ BusEvent(e, what)
    BY DEF EventType, BusEvent
  <1>2. d = Emit(H, e)
    BY DEF OnBusRequest
  <1> HIDE DEF e
  <1> QED  BY <1>1, <1>2, EmitEffect

\* A lost arbitration reports the loss and drops the message.
LEMMA AbandonEffect ==
  ASSUME NEW H \in HandlerType, H.out = <<>>, NEW d, d = Abandon(H)
  PROVE  /\ d \in HandlerType /\ d.state = H.state
         /\ ~d.active_message /\ d.a_type = "undefined" /\ d.am_size = 0
         /\ d.as_size = H.as_size
         /\ d.am_repeated = H.am_repeated /\ d.as_repeated = H.as_repeated
         /\ \E e : BusEvent(e, "lost") /\ d.out = <<e>>
  <1> DEFINE g == OnBusRequest(H, "lost")
  <1>1. /\ g \in HandlerType /\ SameActive(H, g) /\ g.state = H.state
        /\ \E e : BusEvent(e, "lost") /\ g.out = <<e>>
    BY BusRequestEvent
  <1>2. d = [g EXCEPT !.active_message = FALSE, !.a_type = "undefined", !.am_size = 0]
    BY DEF Abandon
  <1> HIDE DEF g
  <1>3. /\ d \in HandlerType /\ d.state = g.state /\ d.out = g.out
        /\ ~d.active_message /\ d.a_type = "undefined" /\ d.am_size = 0
        /\ d.as_size = g.as_size
        /\ d.am_repeated = g.am_repeated /\ d.as_repeated = g.as_repeated
    BY <1>1, <1>2, TypeFacts, ZenonT(60) DEF HandlerType
  <1> QED  BY <1>1, <1>3 DEF SameActive

\* A won arbitration starts the message, if there is one.
LEMMA BusWonEffect ==
  ASSUME NEW H, Ready(H), ~H.asks, H.state = "request_bus", NEW d, d = BusWon(H)
  PROVE  IF H.a_type # "undefined" THEN Wins(H, d) ELSE Loses(H, d)
  <1>1. H \in HandlerType /\ H.out = <<>> /\ {"data", "syn"} \subseteq Writes
    BY DEF Ready, Writes
  <1>2. CASE H.a_type # "undefined"
    <2> DEFINE o == OnBusRequest(H, "won")
               n == [o EXCEPT !.am_size = MessageLen, !.am_index = 1]
               g == CallWrite(n, "data")
    <2>1. /\ o \in HandlerType /\ SameActive(H, o) /\ o.asks = H.asks /\ o.state = H.state
          /\ \E e : BusEvent(e, "won") /\ o.out = <<e>>
      BY <1>1, BusRequestEvent
    <2>2. d = TransitionTo(g, "active_send_master")
      BY <1>2 DEF BusWon
    <2> HIDE DEF o
    <2>3. /\ n \in HandlerType /\ n.state = H.state /\ n.out = o.out
          /\ ~n.asks
          /\ n.active_message = H.active_message /\ n.a_type = H.a_type
          /\ n.am_size = MessageLen /\ n.am_index = 1
          /\ n.am_repeated = H.am_repeated /\ n.as_repeated = H.as_repeated
      BY <2>1, TypeFacts DEF HandlerType, SameActive
    <2> HIDE DEF n
    <2>4. /\ g \in HandlerType /\ SameActive(n, g) /\ g.asks = n.asks
          /\ g.state = n.state /\ g.out = n.out
      BY <1>1, <2>3, WriteEffect
    <2> HIDE DEF g
    <2>5. "active_send_master" \in HandlerStates
      BY DEF HandlerStates, ActiveStates
    <2>6. /\ d \in HandlerType /\ SameActive(g, d) /\ d.asks = g.asks
          /\ d.state = "active_send_master" /\ d.out = g.out
      BY <2>2, <2>3, <2>4, <2>5, MoveEffect, FollowFacts
    <2> QED  BY <1>2, <2>1, <2>3, <2>4, <2>6 DEF Wins, SameActive
  <1>3. CASE H.a_type = "undefined"
    <2> DEFINE n == Abandon(H)
               g == CallWrite(n, "syn")
    <2>1. /\ n \in HandlerType /\ n.state = H.state
          /\ ~n.active_message /\ n.a_type = "undefined" /\ n.am_size = 0
          /\ n.as_size = H.as_size
          /\ n.am_repeated = H.am_repeated /\ n.as_repeated = H.as_repeated
          /\ \E e : BusEvent(e, "lost") /\ n.out = <<e>>
      BY <1>1, AbandonEffect
    <2>2. d = TransitionTo(g, "release_bus")
      BY <1>3 DEF BusWon
    <2> HIDE DEF n
    <2>3. g \in HandlerType /\ SameActive(n, g) /\ g.state = n.state /\ g.out = n.out
      BY <1>1, <2>1, WriteEffect
    <2> HIDE DEF g
    <2>4. /\ d \in HandlerType /\ SameActive(g, d)
          /\ d.state = "release_bus" /\ d.out = g.out
      <3>1. "release_bus" \in HandlerStates /\ "release_bus" \in Follows[g.state]
        BY <2>1, <2>3, StateFacts, FollowFacts
      <3> QED  BY <2>2, <2>3, <3>1, MoveEffect
    <2> QED  BY <1>3, <2>1, <2>3, <2>4 DEF Loses, SameActive
  <1> QED  BY <1>2, <1>3

\* The lost byte goes into passive_master_ whatever it is.
LEMMA BusLostEffect ==
  ASSUME NEW H, Ready(H), H.state = "request_bus", NEW b \in Byte, NEW d, d = BusLost(H, b)
  PROVE  Loses(H, d)
  <1> DEFINE a == Abandon(H)
             q == IF H.pm_size = 0 THEN IsMaster(b) ELSE a.qq_ok
             n == CASE H.pm_size < 4 -> 0
                    [] H.pm_size = 4 -> 1
                    [] OTHER -> Less(H.pm_need)
  <1>1. /\ a \in HandlerType /\ a.state = H.state
        /\ ~a.active_message /\ a.a_type = "undefined" /\ a.am_size = 0
        /\ a.as_size = H.as_size
        /\ a.am_repeated = H.am_repeated /\ a.as_repeated = H.as_repeated
        /\ \E e : BusEvent(e, "lost") /\ a.out = <<e>>
    BY AbandonEffect DEF Ready
  <1>2. q \in BOOLEAN
    BY <1>1 DEF IsMaster, HandlerType
  <1>3. n \in 0..(MaxDataBytes + 1)
    <2>1. H.pm_size \in 0..5 /\ H.pm_need \in 0..(MaxDataBytes + 1)
      BY DEF Ready, HandlerType
    <2>2. CASE H.pm_size < 4
      BY <2>1, <2>2, TypeFacts
    <2>3. CASE H.pm_size = 4
      BY <2>1, <2>3, TypeFacts
    <2>4. CASE H.pm_size = 5
      BY <2>1, <2>4, LessType
    <2> QED  BY <2>1, <2>2, <2>3, <2>4
  <1> DEFINE p == PushMaster(a, b)
             s == IF a.pm_size < 5 THEN a.pm_size + 1 ELSE 5
             m == CASE a.pm_size < 4 -> 0
                    [] a.pm_size = 4 -> b + 1
                    [] OTHER -> IF b = Ext THEN a.pm_need ELSE Less(a.pm_need)
             z == IF a.pm_size = 1 THEN TargetKind(b) ELSE a.zz
             f == IF a.pm_size = 5 /\ a.pm_need = 0 THEN "broken"
                  ELSE IF b = Ext /\ a.fit = "fits" THEN "unsure" ELSE a.fit
             l == IF H.pm_size > 0 /\ f = "fits" THEN "unsure" ELSE f
  <1>4. s \in 0..5 /\ z \in Targets /\ f \in {"fits", "unsure", "broken"}
    <2>1. a.pm_size \in 0..5 /\ a.zz \in Targets /\ a.fit \in {"fits", "unsure", "broken"}
      BY <1>1 DEF HandlerType
    <2> QED  BY <2>1, TargetKindType
  <1>5. p = [a EXCEPT !.pm_size = s, !.pm_need = m, !.zz = z, !.fit = f]
    BY DEF PushMaster
  <1>6. d = TransitionTo([p EXCEPT !.qq_ok = IF H.pm_size = 0 THEN IsMaster(b) ELSE p.qq_ok,
                                   !.pm_need = n,
                                   !.fit = IF H.pm_size > 0 /\ p.fit = "fits"
                                           THEN "unsure" ELSE p.fit], PRM)
    BY DEF BusLost
  <1> HIDE DEF a, s, m, z, f, n, p
  <1>7. p.qq_ok = a.qq_ok /\ p.fit = f
    BY <1>1, <1>5 DEF HandlerType
  <1>8. d = TransitionTo([p EXCEPT !.qq_ok = q, !.pm_need = n, !.fit = l], PRM)
    BY <1>6, <1>7
  <1> HIDE DEF q
  <1>9. l \in {"fits", "unsure", "broken"}
    BY <1>4
  <1> HIDE DEF l
  <1> DEFINE x == [a EXCEPT !.pm_size = s, !.pm_need = n]
             y == [x EXCEPT !.zz = z]
             g == [y EXCEPT !.fit = l, !.qq_ok = q]
  <1>10. [p EXCEPT !.qq_ok = q, !.pm_need = n, !.fit = l] = g
    BY <1>1, <1>5 DEF HandlerType
  <1>11. x \in HandlerType /\ x.state = a.state /\ x.out = a.out /\ SameActive(a, x)
    <2>1. x \in HandlerType
      <3>1. a \in HandlerType /\ s \in 0..5 /\ n \in 0..(MaxDataBytes + 1)
        BY <1>1, <1>3, <1>4
      <3> QED  BY ONLY <3>1 DEF HandlerType
    <2>2. x.state = a.state /\ x.out = a.out /\ SameActive(a, x)
      BY <1>1 DEF HandlerType, SameActive
    <2> QED  BY <2>1, <2>2
  <1> HIDE DEF x
  <1>12. y \in HandlerType /\ y.state = x.state /\ y.out = x.out /\ SameActive(x, y)
    BY <1>4, <1>11 DEF HandlerType, SameActive
  <1> HIDE DEF y
  <1>13. g \in HandlerType /\ g.state = y.state /\ g.out = y.out /\ SameActive(y, g)
    BY <1>2, <1>9, <1>12 DEF HandlerType, SameActive
  <1> HIDE DEF g
  <1>14. d \in HandlerType /\ SameActive(g, d) /\ d.state = PRM /\ d.out = g.out
    <2>1. PRM \in HandlerStates /\ PRM \in Follows[g.state]
      BY <1>13, StateFacts, FollowFacts DEF HandlerType
    <2>2. d = TransitionTo(g, PRM)
      BY <1>8, <1>10
    <2> QED  BY <1>13, <2>1, <2>2, MoveEffect
  <1> QED  BY <1>1, <1>11, <1>12, <1>13, <1>14 DEF Loses, SameActive

\* The four outcomes of a byte in request_bus.
LEMMA RequestTheBusEffect ==
  ASSUME NEW H, Ready(H), ~H.asks, H.state = "request_bus", NEW b \in Byte,
         NEW result \in Results, NEW d, d = RequestTheBus(H, b, result)
  PROVE  \/ result \in WonResults /\ Wins(H, d)
         \/ result \notin WaitResults /\ Loses(H, d)
         \/ result \in WaitResults /\ d = H
  <1>1. /\ WonResults \cap WaitResults = {} /\ LostResults \cap WaitResults = {}
        /\ IdleResults \cap WaitResults = {}
    BY DEF WonResults, WaitResults, LostResults, IdleResults
  <1>2. CASE result \in WonResults
    <2>1. d = BusWon(H)
      BY <1>2 DEF RequestTheBus
    <2> QED  BY <1>1, <1>2, <2>1, BusWonEffect
  <1>3. CASE result \in LostResults /\ result \notin WonResults
    <2>1. d = BusLost(H, b)
      BY <1>3 DEF RequestTheBus
    <2> QED  BY <1>1, <1>3, <2>1, BusLostEffect
  <1>4. CASE result \in IdleResults /\ result \notin LostResults \cup WonResults
    <2> DEFINE a == Abandon(H)
    <2>1. /\ a \in HandlerType /\ a.state = H.state
          /\ ~a.active_message /\ a.a_type = "undefined" /\ a.am_size = 0
          /\ a.as_size = H.as_size
          /\ a.am_repeated = H.am_repeated /\ a.as_repeated = H.as_repeated
          /\ \E e : BusEvent(e, "lost") /\ a.out = <<e>>
      BY AbandonEffect DEF Ready
    <2>2. d = TransitionTo(a, PRM)
      BY <1>4 DEF RequestTheBus
    <2> HIDE DEF a
    <2>3. PRM \in HandlerStates /\ PRM \in Follows[a.state]
      BY <2>1, StateFacts, FollowFacts DEF HandlerType
    <2>4. d \in HandlerType /\ SameActive(a, d) /\ d.state = PRM /\ d.out = a.out
      BY <2>1, <2>2, <2>3, MoveEffect
    <2> QED  BY <1>1, <1>4, <2>1, <2>4 DEF Loses, SameActive
  <1>5. CASE result \notin IdleResults \cup LostResults \cup WonResults
    BY <1>5 DEF RequestTheBus, Results
  <1> QED  BY <1>2, <1>3, <1>4, <1>5

-----------------------------------------------------------------------------
\* The active states.

\* The message is over and reported.
Ends(d) ==
  /\ d \in HandlerType /\ NoActive(d) /\ d.state \in {PRM, "release_bus"}
  /\ \E e : FinalEvent(e) /\ d.out = <<e>>

\* The message is still being sent.
Continues(H, d) ==
  /\ d \in HandlerType
  /\ d.active_message = H.active_message /\ d.a_type = H.a_type
  /\ d.am_size = H.am_size /\ ~d.asks

SameRepeats(H, d) == d.am_repeated = H.am_repeated /\ d.as_repeated = H.as_repeated

\* error_active_slave: the slave part was refused.
RefusalEvent(e) ==
  e \in EventType /\ e.what = "error" /\ e.name = "error_active_slave"

\* A published active telegram is a final event.
LEMMA FinalTelegram ==
  ASSUME NEW type \in {"broadcast", "master_master", "master_slave"},
         NEW valid \in BOOLEAN,
         NEW H \in HandlerType, H.out = <<>>, NEW d, d = OnTelegram(H, "active", type, valid)
  PROVE  /\ d \in HandlerType /\ d.state = H.state
         /\ \E e : FinalEvent(e) /\ d.out = <<e>>
  <1> DEFINE e == [what |-> "telegram", name |-> type, mode |-> "active", valid |-> valid]
  <1>1. type \in {""} \cup Types \cup ErrorNames
    BY DEF Types
  <1>2. e \in EventType
    BY <1>1 DEF EventType
  <1>3. e.what = "telegram" /\ e.mode = "active" /\ e.name = type
    OBVIOUS
  <1>4. d = Emit(H, e)
    BY DEF OnTelegram
  <1> HIDE DEF e
  <1>5. FinalEvent(e)
    BY <1>2, <1>3 DEF FinalEvent, Terminal
  <1> QED  BY <1>2, <1>4, <1>5, EmitEffect

\* An error of the active message is a final event.
LEMMA FinalError ==
  ASSUME NEW name \in {"error_active_master_echo", "error_active_master_ack",
                       "error_active_slave_ack"},
         NEW H \in HandlerType, H.out = <<>>, NEW d, d = OnError(H, name)
  PROVE  /\ d \in HandlerType /\ d.state = H.state
         /\ \E e : FinalEvent(e) /\ d.out = <<e>>
  <1> DEFINE e == [what |-> "error", name |-> name, mode |-> "none", valid |-> FALSE]
  <1>1. name \in {""} \cup Types \cup ErrorNames
    BY DEF ErrorNames
  <1>2. e \in EventType
    BY <1>1 DEF EventType
  <1>3. e.what = "error" /\ e.mode = "none" /\ e.name = name
    OBVIOUS
  <1>4. d = Emit(H, e)
    BY DEF OnError
  <1> HIDE DEF e
  <1>5. FinalEvent(e)
    BY <1>2, <1>3 DEF FinalEvent, Terminal
  <1> QED  BY <1>2, <1>4, <1>5, EmitEffect

\* After a final event the message is dropped and the bus released.
LEMMA FinishEnds ==
  ASSUME NEW g \in HandlerType, "release_bus" \in Follows[g.state],
         \E e : FinalEvent(e) /\ g.out = <<e>>, NEW d, d = Finish(g)
  PROVE  Ends(d)
  <1> DEFINE r == CallActiveReset(g)
             w == CallWrite(r, "syn")
  <1>1. r \in HandlerType /\ NoActive(r) /\ r.state = g.state /\ r.out = g.out
    BY ActiveResetEffect
  <1>2. d = TransitionTo(w, "release_bus") /\ "syn" \in Writes
    BY DEF Finish, Writes
  <1> HIDE DEF r
  <1>3. w \in HandlerType /\ SameActive(r, w) /\ w.state = r.state /\ w.out = r.out
    BY <1>1, <1>2, WriteEffect
  <1> HIDE DEF w
  <1>4. "release_bus" \in HandlerStates /\ "release_bus" \in Follows[w.state]
    BY <1>1, <1>3, StateFacts
  <1>5. d \in HandlerType /\ SameActive(w, d) /\ d.state = "release_bus" /\ d.out = w.out
    BY <1>2, <1>3, <1>4, MoveEffect
  <1>6. NoActive(d)
    BY <1>1, <1>3, <1>5 DEF NoActive, SameActive
  <1> QED  BY <1>1, <1>3, <1>5, <1>6 DEF Ends

\* activeSendMaster gives up on a wrong echo, goes on with the next byte, or
\* is done: a broadcast ends here, any other message waits for the
\* acknowledge.
LEMMA ActiveSendMasterEffect ==
  ASSUME NEW H, Ready(H), ~H.asks, H.state = "active_send_master", NEW echo \in BOOLEAN,
         NEW d, d = ActiveSendMaster(H, echo)
  PROVE  \/ Ends(d)
         \/ /\ Continues(H, d) /\ SameRepeats(H, d) /\ d.out = <<>>
            /\ d.state \in {"active_send_master", "active_receive_master_acknowledge"}
            /\ d.state = "active_send_master" => d.am_index < MessageLen
  <1>1. /\ H \in HandlerType /\ H.out = <<>> /\ H.am_size = MessageLen
        /\ H.am_index \in 0..MessageLen /\ H.am_index < MessageLen /\ MessageLen \in Nat
    BY HandlerAssumption DEF Ready, HandlerInv, HandlerType, ActiveStates
  <1>2. ~(H.am_index >= H.am_size)
    BY <1>1
  <1>3. CASE ~echo
    <2> DEFINE g == OnError(H, "error_active_master_echo")
               r == CallActiveReset(g)
    <2>1. g \in HandlerType /\ g.state = H.state /\ \E e : FinalEvent(e) /\ g.out = <<e>>
      BY <1>1, FinalError
    <2>2. d = TransitionTo(r, PRM)
      BY <1>2, <1>3 DEF ActiveSendMaster
    <2> HIDE DEF g
    <2>3. r \in HandlerType /\ NoActive(r) /\ r.state = g.state /\ r.out = g.out
      BY <2>1, ActiveResetEffect
    <2> HIDE DEF r
    <2>4. PRM \in HandlerStates /\ PRM \in Follows[r.state]
      BY <2>3, StateFacts, FollowFacts DEF HandlerType
    <2>5. d \in HandlerType /\ SameActive(r, d) /\ d.state = PRM /\ d.out = r.out
      BY <2>2, <2>3, <2>4, MoveEffect
    <2>6. NoActive(d)
      BY <2>3, <2>5 DEF NoActive, SameActive
    <2> QED  BY <2>1, <2>3, <2>5, <2>6 DEF Ends
  <1>4. CASE echo
    <2> DEFINE i == H.am_index + 1
               n == [H EXCEPT !.am_index = i]
               x == TRUE
               o == OnTelegram(n, "active", "broadcast", x)
               w == CallWrite(n, "data")
    <2>1. i \in 0..MessageLen
      BY <1>1
    <2>2. \/ n.am_index < n.am_size /\ d = w
          \/ d = Finish(o)
          \/ d = TransitionTo(n, "active_receive_master_acknowledge")
      BY <1>2, <1>4 DEF ActiveSendMaster
    <2> HIDE DEF i
    <2>3. /\ n \in HandlerType /\ Continues(H, n) /\ SameRepeats(H, n)
          /\ n.out = <<>> /\ n.state = H.state /\ n.am_size = MessageLen
      BY <1>1, <2>1, SMTT(40) DEF HandlerType, Continues, SameRepeats
    <2> HIDE DEF n
    <2>4. CASE n.am_index < n.am_size /\ d = w
      <3>1. "data" \in Writes
        BY DEF Writes
      <3>2. /\ d \in HandlerType /\ SameActive(n, d) /\ d.asks = n.asks
            /\ d.state = n.state /\ d.out = n.out
        BY <2>3, <2>4, <3>1, WriteEffect
      <3> QED  BY <2>3, <2>4, <3>2 DEF SameActive, Continues, SameRepeats
    <2>5. CASE d = Finish(o)
      <3>1. x \in BOOLEAN
        OBVIOUS
      <3> HIDE DEF x
      <3>2. o \in HandlerType /\ o.state = n.state /\ \E e : FinalEvent(e) /\ o.out = <<e>>
        BY <2>3, <3>1, FinalTelegram
      <3> HIDE DEF o
      <3>3. "release_bus" \in Follows[o.state]
        BY <2>3, <3>2, FollowFacts
      <3> QED  BY <2>5, <3>2, <3>3, FinishEnds
    <2>6. CASE d = TransitionTo(n, "active_receive_master_acknowledge")
      <3>1. /\ "active_receive_master_acknowledge" \in HandlerStates
            /\ "active_receive_master_acknowledge" \in Follows[n.state]
        BY <2>3, FollowFacts DEF HandlerStates, ActiveStates
      <3>2. /\ d \in HandlerType /\ SameActive(n, d) /\ d.asks = n.asks /\ d.out = n.out
            /\ d.state = "active_receive_master_acknowledge"
        BY <2>3, <2>6, <3>1, MoveEffect
      <3> QED  BY <2>3, <3>2 DEF SameActive, Continues, SameRepeats
    <2> QED  BY <2>2, <2>4, <2>5, <2>6
  <1> QED  BY <1>3, <1>4

\* The acknowledge of the master part ends the message, starts the slave
\* part, or has the master part repeated, once.
LEMMA ActiveReceiveMasterAcknowledgeEffect ==
  ASSUME NEW H, Ready(H), ~H.asks, H.state = "active_receive_master_acknowledge",
         NEW b \in Byte, NEW d, d = ActiveReceiveMasterAcknowledge(H, b)
  PROVE  \/ Ends(d)
         \/ /\ Continues(H, d) /\ SameRepeats(H, d) /\ d.out = <<>>
            /\ d.state = "active_receive_slave"
         \/ /\ Continues(H, d) /\ d.out = <<>>
            /\ ~H.am_repeated /\ d.am_repeated /\ d.as_repeated = H.as_repeated
            /\ d.state = "active_send_master" /\ d.am_index = 0
  <1>1. H \in HandlerType /\ H.out = <<>>
    BY DEF Ready
  <1>2. CASE b = Ack /\ H.a_type = "master_master"
    <2> DEFINE x == TRUE
               o == OnTelegram(H, "active", "master_master", x)
    <2>1. d = Finish(o) /\ x \in BOOLEAN
      BY <1>2 DEF ActiveReceiveMasterAcknowledge
    <2> HIDE DEF x
    <2>2. o \in HandlerType /\ o.state = H.state /\ \E e : FinalEvent(e) /\ o.out = <<e>>
      BY <1>1, <2>1, FinalTelegram
    <2> HIDE DEF o
    <2>3. "release_bus" \in Follows[o.state]
      BY <2>2, FollowFacts
    <2> QED  BY <2>1, <2>2, <2>3, FinishEnds
  <1>3. CASE b = Ack /\ H.a_type # "master_master"
    <2>1. d = TransitionTo(H, "active_receive_slave")
      BY <1>3 DEF ActiveReceiveMasterAcknowledge
    <2>2. "active_receive_slave" \in HandlerStates /\ "active_receive_slave" \in Follows[H.state]
      BY FollowFacts DEF HandlerStates, ActiveStates
    <2>3. /\ d \in HandlerType /\ SameActive(H, d) /\ d.asks = H.asks
          /\ d.out = H.out /\ d.state = "active_receive_slave"
      BY <1>1, <2>1, <2>2, MoveEffect
    <2> QED  BY <1>1, <2>3 DEF SameActive, Continues, SameRepeats
  <1>4. CASE b # Ack /\ b = Nak /\ ~H.am_repeated
    <2> DEFINE n == [H EXCEPT !.am_repeated = TRUE, !.am_index = 0]
               w == CallWrite(n, "data")
    <2>1. /\ n \in HandlerType /\ Continues(H, n) /\ n.out = <<>> /\ n.state = H.state
          /\ n.am_repeated /\ n.as_repeated = H.as_repeated /\ n.am_index = 0
      BY <1>1, TypeFacts DEF HandlerType, Continues
    <2>2. d = TransitionTo(w, "active_send_master") /\ "data" \in Writes
      BY <1>4 DEF ActiveReceiveMasterAcknowledge, Writes
    <2> HIDE DEF n
    <2>3. /\ w \in HandlerType /\ SameActive(n, w) /\ w.asks = n.asks
          /\ w.state = n.state /\ w.out = n.out
      BY <2>1, <2>2, WriteEffect
    <2> HIDE DEF w
    <2>4. "active_send_master" \in HandlerStates /\ "active_send_master" \in Follows[w.state]
      BY <2>1, <2>3, FollowFacts DEF HandlerStates, ActiveStates
    <2>5. /\ d \in HandlerType /\ SameActive(w, d) /\ d.asks = w.asks
          /\ d.out = w.out /\ d.state = "active_send_master"
      BY <2>2, <2>3, <2>4, MoveEffect
    <2> QED  BY <1>4, <2>1, <2>3, <2>5 DEF SameActive, Continues
  <1>5. CASE b # Ack /\ ~(b = Nak /\ ~H.am_repeated)
    <2> DEFINE o == OnError(H, "error_active_master_ack")
    <2>1. d = Finish(o)
      BY <1>5 DEF ActiveReceiveMasterAcknowledge
    <2>2. o \in HandlerType /\ o.state = H.state /\ \E e : FinalEvent(e) /\ o.out = <<e>>
      BY <1>1, FinalError
    <2> HIDE DEF o
    <2>3. "release_bus" \in Follows[o.state]
      BY <2>2, FollowFacts
    <2> QED  BY <2>1, <2>2, <2>3, FinishEnds
  <1> QED  BY <1>2, <1>3, <1>4, <1>5

\* A refused slave part is reported, and answered NAK.
LEMMA RefuseSlaveEffect ==
  ASSUME NEW H \in HandlerType, H.out = <<>>, ~H.asks, H.state = "active_receive_slave",
         NEW d, d = RefuseSlave(H)
  PROVE  /\ Continues(H, d) /\ SameRepeats(H, d)
         /\ d.state = "active_send_slave_negative_acknowledge"
         /\ \E e : RefusalEvent(e) /\ d.out = <<e>>
  <1> DEFINE e == [what |-> "error", name |-> "error_active_slave", mode |-> "none",
                   valid |-> FALSE]
             o == Emit(H, e)
             n == [o EXCEPT !.as_size = 0, !.as_need = 0]
             w == CallWrite(n, "nak")
  <1>1. e \in EventType /\ RefusalEvent(e)
    BY DEF EventType, RefusalEvent, ErrorNames
  <1>2. d = TransitionTo(w, "active_send_slave_negative_acknowledge") /\ "nak" \in Writes
    BY DEF RefuseSlave, OnError, Writes
  <1> HIDE DEF e
  <1>3. /\ o \in HandlerType /\ SameActive(H, o) /\ o.asks = H.asks
        /\ o.state = H.state /\ o.out = <<e>>
    BY <1>1, EmitEffect
  <1> HIDE DEF o
  <1>4. /\ n \in HandlerType /\ Continues(H, n) /\ SameRepeats(H, n)
        /\ n.state = H.state /\ n.out = <<e>>
    BY <1>3, TypeFacts DEF HandlerType, SameActive, Continues, SameRepeats
  <1> HIDE DEF n
  <1>5. /\ w \in HandlerType /\ SameActive(n, w) /\ w.asks = n.asks
        /\ w.state = n.state /\ w.out = n.out
    BY <1>2, <1>4, WriteEffect
  <1> HIDE DEF w
  <1>6. /\ "active_send_slave_negative_acknowledge" \in HandlerStates
        /\ "active_send_slave_negative_acknowledge" \in Follows[w.state]
    BY <1>4, <1>5, FollowFacts DEF HandlerStates, ActiveStates
  <1>7. /\ d \in HandlerType /\ SameActive(w, d) /\ d.asks = w.asks /\ d.out = w.out
        /\ d.state = "active_send_slave_negative_acknowledge"
    BY <1>2, <1>5, <1>6, MoveEffect
  <1> QED  BY <1>1, <1>4, <1>5, <1>7 DEF SameActive, Continues, SameRepeats

\* activeReceiveSlave waits for more bytes, accepts the slave part or
\* refuses it.
LEMMA ActiveReceiveSlaveEffect ==
  ASSUME NEW H, Ready(H), ~H.asks, H.state = "active_receive_slave",
         NEW b \in Byte, NEW parse \in Parses, NEW d, d = ActiveReceiveSlave(H, b, parse)
  PROVE  /\ Continues(H, d) /\ SameRepeats(H, d)
         /\ \/ /\ d.out = <<>>
               /\ d.state \in {"active_receive_slave", "active_send_slave_positive_acknowledge"}
            \/ /\ d.state = "active_send_slave_negative_acknowledge"
               /\ \E e : RefusalEvent(e) /\ d.out = <<e>>
  <1>1. H \in HandlerType /\ H.out = <<>>
    BY DEF Ready
  <1>2. CASE H.as_size = 0 /\ b > MaxDataBytes
    <2>1. d = RefuseSlave(H)
      BY <1>2 DEF ActiveReceiveSlave
    <2> QED  BY <1>1, <2>1, RefuseSlaveEffect
  <1>3. CASE ~(H.as_size = 0 /\ b > MaxDataBytes)
    <2> DEFINE n == IF H.as_size = 0 THEN b + 1
                    ELSE IF b = Ext THEN H.as_need ELSE Less(H.as_need)
               g == [H EXCEPT !.as_size = 1, !.as_need = n]
               w == CallWrite(g, "ack")
    <2>1. n \in 0..(MaxDataBytes + 1)
      <3>1. H.as_need \in 0..(MaxDataBytes + 1) /\ (H.as_size = 0) \in BOOLEAN
        BY <1>1 DEF HandlerType
      <3>2. H.as_size = 0 => b <= MaxDataBytes
        BY <1>3 DEF Byte, MaxDataBytes
      <3> QED  BY <3>1, <3>2, NeedType
    <2>2. /\ \/ d = g
             \/ d = TransitionTo(w, "active_send_slave_positive_acknowledge")
             \/ d = RefuseSlave(g)
          /\ "ack" \in Writes
      BY <1>3 DEF ActiveReceiveSlave, Writes
    <2> HIDE DEF n
    <2>3. /\ g \in HandlerType /\ Continues(H, g) /\ SameRepeats(H, g)
          /\ g.state = H.state /\ g.out = <<>>
      BY <1>1, <2>1, TypeFacts DEF HandlerType, Continues, SameRepeats
    <2> HIDE DEF g
    <2>4. CASE d = g
      BY <2>3, <2>4
    <2>5. CASE d = TransitionTo(w, "active_send_slave_positive_acknowledge")
      <3>1. /\ w \in HandlerType /\ SameActive(g, w) /\ w.asks = g.asks
            /\ w.state = g.state /\ w.out = g.out
        BY <2>2, <2>3, WriteEffect
      <3> HIDE DEF w
      <3>2. /\ "active_send_slave_positive_acknowledge" \in HandlerStates
            /\ "active_send_slave_positive_acknowledge" \in Follows[w.state]
        BY <2>3, <3>1, FollowFacts DEF HandlerStates, ActiveStates
      <3>3. /\ d \in HandlerType /\ SameActive(w, d) /\ d.asks = w.asks /\ d.out = w.out
            /\ d.state = "active_send_slave_positive_acknowledge"
        BY <2>5, <3>1, <3>2, MoveEffect
      <3> QED  BY <2>3, <3>1, <3>3 DEF SameActive, Continues, SameRepeats
    <2>6. CASE d = RefuseSlave(g)
      <3>0. ~g.asks
        BY <2>3 DEF Continues
      <3>1. /\ Continues(g, d) /\ SameRepeats(g, d)
            /\ d.state = "active_send_slave_negative_acknowledge"
            /\ \E e : RefusalEvent(e) /\ d.out = <<e>>
        BY <2>3, <2>6, <3>0, RefuseSlaveEffect
      <3> QED  BY <2>3, <3>1 DEF Continues, SameRepeats
    <2> QED  BY <2>2, <2>4, <2>5, <2>6
  <1> QED  BY <1>2, <1>3

\* activeSendSlavePositiveAcknowledge publishes the telegram.
LEMMA ActiveSendSlavePositiveAcknowledgeEffect ==
  ASSUME NEW H, Ready(H), H.state = "active_send_slave_positive_acknowledge",
         NEW d, d = ActiveSendSlavePositiveAcknowledge(H)
  PROVE  Ends(d)
  <1> DEFINE x == TRUE
             o == OnTelegram(H, "active", "master_slave", x)
  <1>1. d = Finish(o) /\ x \in BOOLEAN /\ H \in HandlerType /\ H.out = <<>>
    BY DEF ActiveSendSlavePositiveAcknowledge, Ready
  <1> HIDE DEF x
  <1>2. o \in HandlerType /\ o.state = H.state /\ \E e : FinalEvent(e) /\ o.out = <<e>>
    BY <1>1, FinalTelegram
  <1> HIDE DEF o
  <1>3. "release_bus" \in Follows[o.state]
    BY <1>2, FollowFacts
  <1> QED  BY <1>1, <1>2, <1>3, FinishEnds

\* A refused slave part is awaited once more.
LEMMA ActiveSendSlaveNegativeAcknowledgeEffect ==
  ASSUME NEW H, Ready(H), ~H.asks, H.state = "active_send_slave_negative_acknowledge",
         NEW d, d = ActiveSendSlaveNegativeAcknowledge(H)
  PROVE  \/ Ends(d)
         \/ /\ Continues(H, d) /\ d.out = <<>>
            /\ ~H.as_repeated /\ d.as_repeated /\ d.am_repeated = H.am_repeated
            /\ d.state = "active_receive_slave"
  <1>1. H \in HandlerType /\ H.out = <<>>
    BY DEF Ready
  <1>2. CASE ~H.as_repeated
    <2> DEFINE n == [H EXCEPT !.as_repeated = TRUE]
    <2>1. d = TransitionTo(n, "active_receive_slave")
      BY <1>2 DEF ActiveSendSlaveNegativeAcknowledge
    <2>2. /\ n \in HandlerType /\ Continues(H, n) /\ n.out = <<>> /\ n.state = H.state
          /\ n.as_repeated /\ n.am_repeated = H.am_repeated
      BY <1>1 DEF HandlerType, Continues
    <2> HIDE DEF n
    <2>3. "active_receive_slave" \in HandlerStates /\ "active_receive_slave" \in Follows[n.state]
      BY <2>2, FollowFacts DEF HandlerStates, ActiveStates
    <2>4. /\ d \in HandlerType /\ SameActive(n, d) /\ d.asks = n.asks
          /\ d.out = n.out /\ d.state = "active_receive_slave"
      BY <2>1, <2>2, <2>3, MoveEffect
    <2> QED  BY <1>2, <2>2, <2>4 DEF SameActive, Continues
  <1>3. CASE H.as_repeated
    <2> DEFINE o == OnError(H, "error_active_slave_ack")
    <2>1. d = Finish(o)
      BY <1>3 DEF ActiveSendSlaveNegativeAcknowledge
    <2>2. o \in HandlerType /\ o.state = H.state /\ \E e : FinalEvent(e) /\ o.out = <<e>>
      BY <1>1, FinalError
    <2> HIDE DEF o
    <2>3. "release_bus" \in Follows[o.state]
      BY <2>2, FollowFacts
    <2> QED  BY <2>1, <2>2, <2>3, FinishEnds
  <1> QED  BY <1>2, <1>3

-----------------------------------------------------------------------------
\* The summary of run.

\* One more byte of the message that is being sent.
SendsOn(H, d) ==
  /\ Continues(H, d)
  /\ \/ /\ SameRepeats(H, d) /\ d.out = <<>>
        /\ \/ /\ H.state = "active_send_master"
              /\ d.state \in {"active_send_master", "active_receive_master_acknowledge"}
              /\ d.state = "active_send_master" => d.am_index < MessageLen
           \/ /\ H.state = "active_receive_master_acknowledge"
              /\ d.state = "active_receive_slave"
           \/ /\ H.state = "active_receive_slave"
              /\ d.state \in {"active_receive_slave", "active_send_slave_positive_acknowledge"}
     \/ /\ H.state = "active_receive_slave"
        /\ d.state = "active_send_slave_negative_acknowledge"
        /\ SameRepeats(H, d)
        /\ \E e : RefusalEvent(e) /\ d.out = <<e>>
     \/ /\ H.state = "active_receive_master_acknowledge"
        /\ d.state = "active_send_master" /\ d.am_index = 0
        /\ ~H.am_repeated /\ d.am_repeated /\ d.as_repeated = H.as_repeated
        /\ d.out = <<>>
     \/ /\ H.state = "active_send_slave_negative_acknowledge"
        /\ d.state = "active_receive_slave"
        /\ ~H.as_repeated /\ d.as_repeated /\ d.am_repeated = H.am_repeated
        /\ d.out = <<>>

HandlerEffect(H, result, d) ==
  \/ H.state \in ListeningStates /\ Listens(H, d)
  \/ H.state = "request_bus" /\ result \in WonResults /\ Wins(H, d)
  \/ H.state = "request_bus" /\ result \notin WaitResults /\ Loses(H, d)
  \/ H.state = "request_bus" /\ result \in WaitResults /\ d = Fresh(H)
  \/ H.state \in ActiveStates /\ Ends(d)
  \/ H.state \in ActiveStates /\ SendsOn(H, d)

\* A step begins without events and without a byte to write.
LEMMA FreshEffect ==
  ASSUME NEW H \in HandlerType, NEW d, d = Fresh(H)
  PROVE  /\ d \in HandlerType /\ SameActive(H, d)
         /\ d.state = H.state /\ d.out = <<>> /\ ~d.asks /\ d.ps_index = H.ps_index
  <1>1. "none" \in Writes /\ <<>> \in Seq(EventType)
    BY DEF Writes
  <1> QED  BY <1>1 DEF Fresh, HandlerType, SameActive

\* What leaves the active message alone keeps the invariant of the handler.
LEMMA HandlerInvKept ==
  ASSUME NEW H, HandlerInv(H), NEW d, SameActive(H, d), d.state = H.state,
         d.ps_index = H.ps_index
  PROVE  HandlerInv(d)
  BY DEF HandlerInv, SameActive

\* run calls the handler of the state, and each of them has its effect.
LEMMA HandlerRunEffect ==
  ASSUME NEW H \in HandlerType, HandlerInv(H), NEW b \in Byte, NEW result \in Results,
         NEW parse \in Parses, NEW echo \in BOOLEAN, NEW reply \in {0, ReplyLen},
         NEW d, d = HandlerRun(H, b, result, parse, echo, reply)
  PROVE  HandlerEffect(H, result, d)
  <1> DEFINE f == Fresh(H)
  <1>1. /\ f \in HandlerType /\ SameActive(H, f) /\ f.state = H.state /\ f.out = <<>>
        /\ f.ps_index = H.ps_index /\ ~f.asks
    BY FreshEffect
  <1>2. H.state \in HandlerStates
    BY DEF HandlerType
  <1> DEFINE run(s, x) == H.state = s => d = x
  <1>3. /\ run(PRM, PassiveReceiveMaster(f, b, parse, reply))
        /\ run("passive_receive_master_acknowledge", PassiveReceiveMasterAcknowledge(f, b))
        /\ run("passive_receive_slave", PassiveReceiveSlave(f, b, parse))
        /\ run("passive_receive_slave_acknowledge", PassiveReceiveSlaveAcknowledge(f, b))
        /\ run("reactive_send_master_positive_acknowledge",
               ReactiveSendMasterPositiveAcknowledge(f))
        /\ run("reactive_send_master_negative_acknowledge",
               ReactiveSendMasterNegativeAcknowledge(f))
        /\ run("reactive_send_slave", ReactiveSendSlave(f))
        /\ run("reactive_receive_slave_acknowledge", ReactiveReceiveSlaveAcknowledge(f, b))
        /\ run("request_bus", RequestTheBus(f, b, result))
        /\ run("active_send_master", ActiveSendMaster(f, echo))
        /\ run("active_receive_master_acknowledge", ActiveReceiveMasterAcknowledge(f, b))
        /\ run("active_receive_slave", ActiveReceiveSlave(f, b, parse))
        /\ run("active_send_slave_positive_acknowledge", ActiveSendSlavePositiveAcknowledge(f))
        /\ run("active_send_slave_negative_acknowledge", ActiveSendSlaveNegativeAcknowledge(f))
        /\ run("release_bus", ReleaseBus(f))
    BY <1>1 DEF HandlerRun, PRM
  <1> HIDE DEF f
  <1>4. Ready(f)
    BY <1>1, HandlerInvKept DEF Ready
  <1>5. Listens(f, d) => Listens(H, d)
    BY <1>1, ListensTrans
  <1>6. Continues(f, d) => Continues(H, d)
    BY <1>1 DEF Continues, SameActive
  <1>7. /\ SameRepeats(f, d) <=> SameRepeats(H, d)
        /\ f.am_repeated = H.am_repeated /\ f.as_repeated = H.as_repeated
    BY <1>1 DEF SameRepeats, SameActive
  <1>8. CASE H.state = PRM
    BY <1>1, <1>3, <1>4, <1>5, <1>8, PassiveReceiveMasterListens, StateFacts DEF HandlerEffect
  <1>9. CASE H.state = "passive_receive_master_acknowledge"
    BY <1>1, <1>3, <1>4, <1>5, <1>9, PassiveReceiveMasterAcknowledgeListens, StateFacts
       DEF HandlerEffect
  <1>10. CASE H.state = "passive_receive_slave"
    BY <1>1, <1>3, <1>4, <1>5, <1>10, PassiveReceiveSlaveListens, StateFacts
       DEF HandlerEffect
  <1>11. CASE H.state = "passive_receive_slave_acknowledge"
    BY <1>1, <1>3, <1>4, <1>5, <1>11, PassiveReceiveSlaveAcknowledgeListens, StateFacts
       DEF HandlerEffect
  <1>12. CASE H.state = "reactive_send_master_positive_acknowledge"
    BY <1>1, <1>3, <1>4, <1>5, <1>12, ReactiveSendMasterPositiveAcknowledgeListens, StateFacts
       DEF HandlerEffect, ReactiveStates
  <1>13. CASE H.state = "reactive_send_master_negative_acknowledge"
    BY <1>1, <1>3, <1>4, <1>5, <1>13, ReactiveSendMasterNegativeAcknowledgeListens, StateFacts
       DEF HandlerEffect, ReactiveStates
  <1>14. CASE H.state = "reactive_send_slave"
    BY <1>1, <1>3, <1>4, <1>5, <1>14, ReactiveSendSlaveListens, StateFacts
       DEF HandlerEffect, ReactiveStates
  <1>15. CASE H.state = "reactive_receive_slave_acknowledge"
    BY <1>1, <1>3, <1>4, <1>5, <1>15, ReactiveReceiveSlaveAcknowledgeListens, StateFacts
       DEF HandlerEffect, ReactiveStates
  <1>16. CASE H.state = "release_bus"
    BY <1>1, <1>3, <1>4, <1>5, <1>16, ReleaseBusListens, StateFacts DEF HandlerEffect
  <1>17. CASE H.state = "request_bus"
    <2>1. \/ result \in WonResults /\ Wins(f, d)
          \/ result \notin WaitResults /\ Loses(f, d)
          \/ result \in WaitResults /\ d = f
      BY <1>1, <1>3, <1>4, <1>17, RequestTheBusEffect
    <2>2. (Wins(f, d) => Wins(H, d)) /\ (Loses(f, d) => Loses(H, d))
      BY <1>1 DEF Wins, Loses, SameActive
    <2> QED  BY <1>17, <2>1, <2>2 DEF HandlerEffect, f
  <1>18. CASE H.state = "active_send_master"
    <2>1. \/ Ends(d)
          \/ /\ Continues(f, d) /\ SameRepeats(f, d) /\ d.out = <<>>
             /\ d.state \in {"active_send_master", "active_receive_master_acknowledge"}
             /\ d.state = "active_send_master" => d.am_index < MessageLen
      BY <1>1, <1>3, <1>4, <1>18, ActiveSendMasterEffect
    <2> QED  BY <1>6, <1>7, <1>18, <2>1 DEF HandlerEffect, SendsOn, ActiveStates
  <1>19. CASE H.state = "active_receive_master_acknowledge"
    <2>1. \/ Ends(d)
          \/ /\ Continues(f, d) /\ SameRepeats(f, d) /\ d.out = <<>>
             /\ d.state = "active_receive_slave"
          \/ /\ Continues(f, d) /\ d.out = <<>>
             /\ ~f.am_repeated /\ d.am_repeated /\ d.as_repeated = f.as_repeated
             /\ d.state = "active_send_master" /\ d.am_index = 0
      BY <1>1, <1>3, <1>4, <1>19, ActiveReceiveMasterAcknowledgeEffect
    <2> QED  BY <1>6, <1>7, <1>19, <2>1 DEF HandlerEffect, SendsOn, ActiveStates
  <1>20. CASE H.state = "active_receive_slave"
    <2>1. /\ Continues(f, d) /\ SameRepeats(f, d)
          /\ \/ /\ d.out = <<>>
                /\ d.state \in {"active_receive_slave",
                                "active_send_slave_positive_acknowledge"}
             \/ /\ d.state = "active_send_slave_negative_acknowledge"
                /\ \E e : RefusalEvent(e) /\ d.out = <<e>>
      BY <1>1, <1>3, <1>4, <1>20, ActiveReceiveSlaveEffect
    <2> QED  BY <1>6, <1>7, <1>20, <2>1 DEF HandlerEffect, SendsOn, ActiveStates
  <1>21. CASE H.state = "active_send_slave_positive_acknowledge"
    BY <1>1, <1>3, <1>4, <1>21, ActiveSendSlavePositiveAcknowledgeEffect
       DEF HandlerEffect, ActiveStates
  <1>22. CASE H.state = "active_send_slave_negative_acknowledge"
    <2>1. \/ Ends(d)
          \/ /\ Continues(f, d) /\ d.out = <<>>
             /\ ~f.as_repeated /\ d.as_repeated /\ d.am_repeated = f.am_repeated
             /\ d.state = "active_receive_slave"
      BY <1>1, <1>3, <1>4, <1>22, ActiveSendSlaveNegativeAcknowledgeEffect
    <2> QED  BY <1>6, <1>7, <1>22, <2>1 DEF HandlerEffect, SendsOn, ActiveStates
  <1> QED  BY <1>2, <1>8, <1>9, <1>10, <1>11, <1>12, <1>13, <1>14, <1>15, <1>16, <1>17,
              <1>18, <1>19, <1>20, <1>21, <1>22
           DEF HandlerStates, ActiveStates, ReactiveStates

\* The effect keeps the type and the invariant.
LEMMA HandlerEffectInv ==
  ASSUME NEW H \in HandlerType, HandlerInv(H), NEW result \in Results,
         NEW d, HandlerEffect(H, result, d)
  PROVE  d \in HandlerType /\ HandlerInv(d)
  <1>1. CASE H.state \in ListeningStates /\ Listens(H, d)
    <2>1. /\ d.state \notin ActiveStates /\ d.state \notin SlaveStates
          /\ d.state # "active_send_master"
          /\ H.state \notin ActiveStates /\ H.state \notin SlaveStates
      BY <1>1, StateFacts DEF Listens, ActiveStates
    <2> QED  BY <1>1, <2>1 DEF Listens, HandlerInv, SameActive
  <1>2. CASE H.state = "request_bus" /\ Wins(H, d)
    BY <1>2, TypeFacts DEF Wins, HandlerInv, ActiveStates, SlaveStates
  <1>3. CASE H.state = "request_bus" /\ Loses(H, d)
    BY <1>3, TypeFacts DEF Loses, HandlerInv, ActiveStates, SlaveStates, PRM
  <1>4. CASE d = Fresh(H)
    BY <1>4, FreshEffect, HandlerInvKept
  <1>5. CASE Ends(d)
    BY <1>5 DEF Ends, NoActive, HandlerInv, ActiveStates, SlaveStates, PRM
  <1>6. CASE SendsOn(H, d)
    BY <1>6, TypeFacts DEF SendsOn, Continues, SameRepeats, HandlerInv, ActiveStates,
                           SlaveStates
  <1> QED  BY <1>1, <1>2, <1>3, <1>4, <1>5, <1>6 DEF HandlerEffect

-----------------------------------------------------------------------------
\* The calls from outside run.

\* sendActiveMessage.
LEMMA SendActiveMessageEffect ==
  ASSUME NEW H \in HandlerType, HandlerInv(H), ~H.active_message,
         NEW t \in Types \ {"undefined"}, NEW d, d = SendActiveMessage(H, t)
  PROVE  /\ d \in HandlerType /\ HandlerInv(d)
         /\ d.active_message /\ d.state = H.state /\ d.out = H.out
         /\ d.am_repeated = H.am_repeated /\ d.as_repeated = H.as_repeated
  <1>1. d = [H EXCEPT !.active_message = TRUE, !.a_type = t]
    BY DEF SendActiveMessage
  <1>2. /\ d \in HandlerType
        /\ d.active_message /\ d.a_type = t /\ d.state = H.state /\ d.out = H.out
        /\ d.am_size = H.am_size /\ d.as_size = H.as_size /\ d.am_index = H.am_index
        /\ d.am_repeated = H.am_repeated /\ d.as_repeated = H.as_repeated
        /\ d.ps_index = H.ps_index
    <2>1. t \in Types
      OBVIOUS
    <2>2. d \in HandlerType
      BY <1>1, <2>1, ZenonT(60) DEF HandlerType
    <2> QED  BY <1>1, <2>2 DEF HandlerType
  <1>3. HandlerInv(d)
    BY <1>2 DEF HandlerInv
  <1> QED  BY <1>2, <1>3

\* onBusRequested, when no active message is on the bus.
LEMMA OnBusRequestedEffect ==
  ASSUME NEW H \in HandlerType, HandlerInv(H), NEW d, d = OnBusRequested(H),
         H.state \notin ActiveStates
  PROVE  /\ d \in HandlerType /\ HandlerInv(d) /\ SameActive(H, d) /\ d.out = H.out
         /\ d.state = H.state \/ (d.state = "request_bus" /\ d.active_message)
  <1>1. CASE d = H
    BY <1>1 DEF SameActive
  <1>2. CASE H.active_message /\ d = TransitionTo(H, "request_bus")
    <2>1. "request_bus" \in HandlerStates /\ "request_bus" \in Follows[H.state]
      BY FollowFacts DEF HandlerStates, HandlerType
    <2>2. d \in HandlerType /\ SameActive(H, d) /\ d.state = "request_bus" /\ d.out = H.out
      BY <1>2, <2>1, MoveEffect
    <2>3. HandlerInv(d)
      BY <2>2 DEF HandlerInv, SameActive, ActiveStates, SlaveStates
    <2> QED  BY <1>2, <2>2, <2>3 DEF SameActive
  <1> QED  BY <1>1, <1>2 DEF OnBusRequested

\* onStartBit, when no active message is on the bus: the message is dropped.
LEMMA OnStartBitEffect ==
  ASSUME NEW H \in HandlerType, H.state \notin ActiveStates, NEW d, d = OnStartBit(H)
  PROVE  /\ d \in HandlerType /\ HandlerInv(d) /\ NoActive(d)
         /\ d.state = H.state /\ d.out = H.out
  <1> DEFINE a == CallActiveReset(H)
  <1>1. a \in HandlerType /\ NoActive(a) /\ a.state = H.state /\ a.out = H.out
    BY ActiveResetEffect
  <1>2. d = CallPassiveReset(a)
    BY DEF OnStartBit
  <1> HIDE DEF a
  <1>3. /\ d \in HandlerType /\ SameActive(a, d) /\ d.state = a.state /\ d.out = a.out
        /\ d.ps_index = 0
    BY <1>1, <1>2, PassiveResetEffect
  <1>4. NoActive(d)
    BY <1>1, <1>3 DEF NoActive, SameActive
  <1>5. HandlerInv(d)
    BY <1>1, <1>3, <1>4, HandlerAssumption DEF HandlerInv, NoActive, ActiveStates
  <1> QED  BY <1>1, <1>3, <1>4, <1>5

\* reset.
LEMMA HandlerResetEffect ==
  ASSUME NEW H \in HandlerType, NEW d, d = HandlerReset(H)
  PROVE  /\ d \in HandlerType /\ HandlerInv(d) /\ NoActive(d)
         /\ d.state = PRM /\ d.out = H.out
  <1> DEFINE n == TransitionTo(H, PRM)
             a == CallActiveReset(n)
  <1>1. PRM \in HandlerStates /\ PRM \in Follows[H.state]
    BY StateFacts, FollowFacts DEF HandlerType
  <1>2. n \in HandlerType /\ n.state = PRM /\ n.out = H.out
    BY <1>1, MoveEffect
  <1>3. d = CallPassiveReset(a)
    BY DEF HandlerReset
  <1> HIDE DEF n
  <1>4. a \in HandlerType /\ NoActive(a) /\ a.state = n.state /\ a.out = n.out
    BY <1>2, ActiveResetEffect
  <1> HIDE DEF a
  <1>5. d \in HandlerType /\ SameActive(a, d) /\ d.state = a.state /\ d.out = a.out
    BY <1>3, <1>4, PassiveResetEffect
  <1>6. NoActive(d)
    BY <1>4, <1>5 DEF NoActive, SameActive
  <1>7. HandlerInv(d)
    BY <1>2, <1>4, <1>5, <1>6 DEF HandlerInv, NoActive, ActiveStates, PRM
  <1> QED  BY <1>2, <1>4, <1>5, <1>6, <1>7

-----------------------------------------------------------------------------
\* The inductive invariant.

\* The Request: bus_request_ is clear in the first round and set until the
\* retry; only the ESP driver may still have to report the write in the
\* second round; a round that is not decided has one of the results to wait
\* for, and only a reset leaves such a result behind; a round that is won
\* leaves nothing to be written or reported.
RequestInv ==
  /\ req.state = "first" => ~req.bus_request
  /\ req.state = "retry" => req.bus_request
  /\ req.state = "second" /\ req.bus_request => armed /\ Platform = "esp"
  /\ req.state # "observe" => req.result \in WaitResults
  /\ req.result \in WaitResults /\ req.state = "observe" => Aborts /\ ~req.bus_request
  /\ req.request_address \in {0, Source}
  /\ req.result \in WonResults =>
       req.state = "observe" /\ ~req.bus_request /\ ~armed

\* While the handler sends, the Request is at rest: no callback of it can
\* take the handler away from its message, and no start bit is reported.
BusIsHeld ==
  h.state \in ActiveStates =>
    req.state = "observe" /\ ~req.bus_request /\ ~armed

\* The repeat flags and the history count the same.
Counts ==
  /\ sends = IF h.state \notin ActiveStates THEN 0 ELSE IF h.am_repeated THEN 2 ELSE 1
  /\ asked = IF h.state \notin SlaveStates THEN 0 ELSE IF h.as_repeated THEN 2 ELSE 1

\* What the handler waits for in request_bus.
Waiting ==
  h.state = "request_bus" =>
    /\ ~StartBits => h.active_message
    /\ pc = "read" => req.result \in WaitResults

\* A run makes at most one callback, and never the one of transitionTo.
OneCallback ==
  h.out # <<>> => Len(h.out) = 1 /\ h.out[1].name # "unlisted_transition"

IInv ==
  /\ TypeOK
  /\ HandlerInv(h)
  /\ RequestInv
  /\ BusIsHeld
  /\ Counts
  /\ Waiting
  /\ OneCallback

-----------------------------------------------------------------------------
\* What the assumptions say of the constants, and how the results divide.
LEMMA ConstantFacts ==
  /\ Source \in Byte /\ Source # Syn /\ 0 \in Byte /\ 0 # Syn /\ Syn \in Byte
  /\ Bytes \subseteq Byte /\ Locks \subseteq Nat
  /\ StartBits \in BOOLEAN /\ Aborts \in BOOLEAN
  /\ WonResults \cap WaitResults = {} /\ "observe_syn" \notin WonResults \cup WaitResults
  /\ "observe_data" \notin WonResults \cup WaitResults
  /\ {"first_syn", "first_retry", "retry_syn"} \subseteq WaitResults
  /\ {"first_lost", "first_error", "second_lost", "second_error", "retry_error"}
       \cap (WonResults \cup WaitResults) = {}
  /\ {"first_won", "second_won"} \cap WaitResults = {}
  <1>1. Source \in Byte /\ Source # Syn
    BY HandlerAssumption, SynIsNoMaster
  <1>2. 0 \in Byte /\ 0 # Syn /\ Syn \in Byte
    BY DEF Byte, Syn
  <1>3. Bytes \subseteq Byte /\ Locks \subseteq Nat /\ StartBits \in BOOLEAN /\ Aborts \in BOOLEAN
    BY BusHandlerAssumption
  <1> QED  BY <1>1, <1>2, <1>3 DEF WonResults, WaitResults

\* The invariant holds when the node starts.
LEMMA InitInv == Init => IInv
  <1> SUFFICES ASSUME Init PROVE IInv
    OBVIOUS
  <1>1. LockMax \in 0..LockLimit
    BY BusHandlerAssumption
  <1>2. /\ req \in RequestType /\ req.state = "observe" /\ ~req.bus_request
        /\ req.result = "observe_syn" /\ req.request_address = 0
    BY <1>1, NewEffect DEF Init, New
  <1>3. /\ "none" \in Writes /\ <<>> \in Seq(EventType) /\ PRM \in HandlerStates
        /\ PRM \notin ActiveStates /\ SlaveStates \subseteq ActiveStates
        /\ PRM # "request_bus" /\ PRM # "active_send_master" /\ PRM # "reactive_send_slave"
    BY StateFacts DEF Writes, PRM, ActiveStates
  <1>4. h \in HandlerType
    BY <1>3, TypeFacts DEF Init, NewHandler, HandlerType
  <1>5. /\ h.state = PRM /\ ~h.active_message /\ h.a_type = "undefined" /\ h.out = <<>>
        /\ h.am_size = 0 /\ h.as_size = 0 /\ ~h.am_repeated /\ ~h.as_repeated
    BY DEF Init, NewHandler
  <1>6. TypeOK
    BY <1>2, <1>4, ConstantFacts DEF Init, TypeOK
  <1>7. HandlerInv(h)
    BY <1>3, <1>5 DEF HandlerInv
  <1>8. RequestInv
    BY <1>2, ConstantFacts DEF Init, RequestInv
  <1>9. BusIsHeld /\ Counts /\ Waiting /\ OneCallback
    BY <1>3, <1>5 DEF Init, BusIsHeld, Counts, Waiting, OneCallback
  <1> QED  BY <1>6, <1>7, <1>8, <1>9 DEF IInv

-----------------------------------------------------------------------------
\* Receive.

\* The Request reads the byte.
LEMMA ReceiveRequest ==
  ASSUME TypeOK, RequestInv, NEW b \in Bytes, NEW s \in BOOLEAN, Receive(b, s)
  PROVE  req' \in RequestType /\ RequestInv'
  <1> DEFINE f == BusRequestFlag(b)
             r == IF f THEN BusRequestCompleted(req) ELSE req
             q == IF s THEN StartBit(r) ELSE r
  <1>1. /\ req' = Run(q, b) /\ b \in Byte /\ req \in RequestType
        /\ armed' = (b = Syn /\ req.bus_request /\ ~s)
        /\ armed \in BOOLEAN /\ Platform \in {"posix", "esp"}
    BY ConstantFacts, BusHandlerAssumption DEF Receive, TypeOK
  <1>2. f <=> IF Platform = "posix" THEN b = Syn /\ req.bus_request ELSE armed
    BY <1>1 DEF BusRequestFlag
  <1> HIDE DEF f
  <1>3. /\ r \in RequestType /\ r.request_address = req.request_address
        /\ f => ~r.bus_request /\ r.state = IF req.state = "observe" THEN "first" ELSE req.state
        /\ ~f => r = req
    BY <1>1, CompletedEffect
  <1> HIDE DEF r
  <1>4. /\ q \in RequestType /\ q.request_address = req.request_address
        /\ s => q.state = "observe" /\ ~q.bus_request
        /\ ~s => q = r
    BY <1>3, StartBitEffect
  <1> HIDE DEF q
  <1>5. RunEffect(q, b, req') /\ q.state \in States /\ req.state \in States
    BY <1>1, <1>4, RunFacts DEF RequestType
  <1>6. /\ q.state = "first" => ~q.bus_request
        /\ q.state = "second" => ~q.bus_request
        /\ q.state = "retry" /\ q.bus_request => req.bus_request /\ ~s /\ ~f
    BY <1>2, <1>3, <1>4, <1>5 DEF RequestInv, States
  <1>7. q.state = "observe" /\ q.bus_request => req.bus_request /\ ~f
    BY <1>3, <1>4
  <1>8. req'.request_address \in {0, Source} /\ req' \in RequestType
    BY <1>4, <1>5 DEF RunEffect, RequestInv
  <1>9. CASE q.state = "observe"
    BY <1>5, <1>8, <1>9, ConstantFacts DEF RunEffect, RequestInv
  <1>10. CASE q.state = "first"
    <2>1. b # Syn => ~armed'
      BY <1>1
    <2> QED  BY <1>5, <1>6, <1>8, <1>10, <2>1, ConstantFacts DEF RunEffect, RequestInv
  <1>11. CASE q.state = "retry"
    <2>1. b = Syn /\ q.bus_request => armed' /\ Platform = "esp"
      BY <1>1, <1>2, <1>6, <1>11
    <2> QED  BY <1>5, <1>8, <1>11, <2>1, ConstantFacts DEF RunEffect, RequestInv
  <1>12. CASE q.state = "second"
    <2>1. req'.result \in WonResults => b # Syn
      BY <1>4, <1>5, <1>12, ConstantFacts DEF RunEffect, RequestInv
    <2>2. b # Syn => ~armed'
      BY <1>1
    <2> QED  BY <1>5, <1>6, <1>8, <1>12, <2>1, <2>2, ConstantFacts DEF RunEffect, RequestInv
  <1> QED  BY <1>5, <1>8, <1>9, <1>10, <1>11, <1>12 DEF States

\* The handler is told of the write or of the start bit, unless it holds the
\* bus.
LEMMA ReceiveHandler ==
  ASSUME IInv, NEW b \in Bytes, NEW s \in BOOLEAN, s => StartBits, Receive(b, s)
  PROVE  /\ h' \in HandlerType /\ HandlerInv(h') /\ h'.out = <<>>
         /\ ~StartBits => h'.active_message = h.active_message
         /\ h'.am_repeated = h.am_repeated /\ h'.as_repeated = h.as_repeated
         /\ h'.state = h.state
              \/ /\ h'.state = "request_bus" /\ h.state \notin ActiveStates
                 /\ h'.active_message \/ StartBits
         /\ h.state \in ActiveStates => h'.active_message = h.active_message
  <1> DEFINE f == BusRequestFlag(b)
             g == Fresh(h)
             k == IF f THEN OnBusRequested(g) ELSE g
  <1>1. /\ h' = IF s THEN OnStartBit(k) ELSE k
        /\ s => req.bus_request
        /\ armed \in BOOLEAN /\ h \in HandlerType
    BY DEF IInv, TypeOK, Receive
  <1>2. h.state \in ActiveStates => ~f /\ ~s
    BY <1>1 DEF IInv, BusIsHeld, BusRequestFlag
  <1>3. /\ g \in HandlerType /\ SameActive(h, g) /\ HandlerInv(g)
        /\ g.state = h.state /\ g.out = <<>>
    BY <1>1, FreshEffect, HandlerInvKept DEF IInv
  <1> HIDE DEF f, g
  <1>4. /\ k \in HandlerType /\ SameActive(g, k) /\ HandlerInv(k) /\ k.out = <<>>
        /\ k.state = g.state
             \/ (k.state = "request_bus" /\ k.active_message /\ h.state \notin ActiveStates)
    <2>1. CASE f
      BY <1>2, <1>3, <2>1, OnBusRequestedEffect
    <2>2. CASE ~f
      BY <1>3, <2>2 DEF SameActive
    <2> QED  BY <2>1, <2>2
  <1> HIDE DEF k
  <1>5. CASE ~s
    BY <1>1, <1>3, <1>4, <1>5 DEF SameActive
  <1>6. CASE s
    <2>1. /\ h.state \notin ActiveStates /\ k.state \notin ActiveStates /\ StartBits
          /\ h' = OnStartBit(k)
      BY <1>1, <1>2, <1>3, <1>4, <1>6, StateFacts
    <2>2. /\ h' \in HandlerType /\ HandlerInv(h') /\ NoActive(h')
          /\ h'.state = k.state /\ h'.out = k.out
      BY <1>4, <2>1, OnStartBitEffect
    <2>3. h.am_repeated = FALSE /\ h.as_repeated = FALSE
      BY <1>1, <2>1, StateFacts DEF IInv, HandlerInv, HandlerType
    <2>4. h'.am_repeated = FALSE /\ h'.as_repeated = FALSE
      BY <2>2 DEF NoActive, HandlerType
    <2> QED  BY <1>3, <1>4, <2>1, <2>2, <2>3, <2>4
  <1> QED  BY <1>5, <1>6

\* The driver reports a byte: Receive keeps the invariant.
LEMMA ReceiveInv ==
  ASSUME IInv, NEW b \in Bytes, NEW s \in BOOLEAN, s => StartBits, Receive(b, s)
  PROVE  IInv'
  <1>1. /\ h' \in HandlerType /\ HandlerInv(h') /\ h'.out = <<>>
        /\ ~StartBits => h'.active_message = h.active_message
        /\ h'.am_repeated = h.am_repeated /\ h'.as_repeated = h.as_repeated
        /\ h'.state = h.state
             \/ /\ h'.state = "request_bus" /\ h.state \notin ActiveStates
                /\ h'.active_message \/ StartBits
    BY ReceiveHandler
  <1>2. req' \in RequestType /\ RequestInv'
    BY ReceiveRequest DEF IInv
  <1>3. /\ armed' = (b = Syn /\ req.bus_request /\ ~s)
        /\ pc' = "run" /\ byte' = b /\ b \in Byte /\ sends' = sends /\ asked' = asked
    BY ConstantFacts DEF Receive
  <1>4. TypeOK'
    <2>1. armed' \in BOOLEAN
      BY <1>3
    <2> QED  BY <1>1, <1>2, <1>3, <2>1 DEF IInv, TypeOK
  <1>5. h'.state \in ActiveStates => h'.state = h.state
    BY <1>1, StateFacts
  <1>6. BusIsHeld'
    <2> SUFFICES ASSUME h'.state \in ActiveStates
                 PROVE  req'.state = "observe" /\ ~req'.bus_request /\ ~armed'
      BY DEF BusIsHeld
    <2>1. req.state = "observe" /\ ~req.bus_request /\ ~armed /\ req \in RequestType /\ b \in Byte
      BY <1>3, <1>5 DEF IInv, BusIsHeld, TypeOK
    <2>2. req' = Run(req, b)
      BY <2>1 DEF Receive, BusRequestFlag
    <2>3. RunEffect(req, b, req')
      BY <2>1, <2>2, RunFacts
    <2> QED  BY <1>3, <2>1, <2>3 DEF RunEffect
  <1>7. Counts'
    <2>1. /\ h'.state \in ActiveStates <=> h.state \in ActiveStates
          /\ h'.state \in SlaveStates <=> h.state \in SlaveStates
      BY <1>1, StateFacts
    <2> QED  BY <1>1, <1>3, <2>1 DEF IInv, Counts
  <1>8. Waiting'
    BY <1>1, <1>3 DEF IInv, Waiting
  <1> QED  BY <1>1, <1>2, <1>4, <1>6, <1>7, <1>8 DEF IInv, OneCallback

-----------------------------------------------------------------------------
\* Handle.

\* The step in the terms of the lemmas above.
LEMMA HandleRuns ==
  ASSUME IInv, Handle
  PROVE  /\ HandlerEffect(h, req.result, h')
         /\ h' \in HandlerType /\ HandlerInv(h')
         /\ req' \in RequestType
         /\ req'.state = req.state /\ req'.result = req.result
         /\ req' = req \/ (h'.asks /\ req.result = "observe_syn" /\ req'.request_address = Source
                             /\ req'.bus_request)
  <1>1. h \in HandlerType /\ HandlerInv(h) /\ byte \in Byte /\ req \in RequestType
    BY DEF IInv, TypeOK
  <1>2. req.result \in Results
    BY <1>1 DEF RequestType
  <1>3. PICK parse \in Parses, echo \in BOOLEAN, reply \in {0, ReplyLen} :
          h' = HandlerRun(h, byte, req.result, parse, echo, reply)
    BY DEF Handle
  <1> DEFINE result == req.result
             d == h'
  <1>4. HandlerEffect(h, result, d) /\ d \in HandlerType /\ HandlerInv(d)
    <2>1. result \in Results /\ d = HandlerRun(h, byte, result, parse, echo, reply)
      BY <1>2, <1>3
    <2> HIDE DEF result, d
    <2>2. HandlerEffect(h, result, d)
      BY <1>1, <2>1, HandlerRunEffect
    <2>3. d \in HandlerType /\ HandlerInv(d)
      BY <1>1, <2>1, <2>2, HandlerEffectInv
    <2> QED  BY <2>2, <2>3
  <1>5. HandlerEffect(h, req.result, h') /\ h' \in HandlerType /\ HandlerInv(h')
    BY <1>4
  <1> DEFINE x == FALSE
  <1>6. req' = (IF h'.asks THEN RequestBus(req, Source, x) ELSE req) /\ x \in BOOLEAN
    BY DEF Handle
  <1> HIDE DEF x
  <1>7. CASE h'.asks
    <2> DEFINE r == req'
    <2>1. r = RequestBus(req, Source, x) /\ req \in RequestType /\ Source \in Byte /\ x \in BOOLEAN
      BY <1>1, <1>6, <1>7, ConstantFacts
    <2> HIDE DEF r
    <2>2. /\ r \in RequestType /\ r.state = req.state /\ r.result = req.result
          /\ \/ r = req
             \/ req.result = "observe_syn" /\ r.bus_request /\ r.request_address = Source
      BY ONLY <2>1, RequestBusEffect
    <2> QED  BY <1>5, <1>7, <2>2 DEF r
  <1>8. CASE ~h'.asks
    BY <1>1, <1>5, <1>6, <1>8
  <1> QED  BY <1>7, <1>8

\* The handler runs: Handle keeps the invariant.
LEMMA HandleInv == ASSUME IInv, Handle PROVE IInv'
  <1>1. /\ HandlerEffect(h, req.result, h')
        /\ h' \in HandlerType /\ HandlerInv(h')
        /\ req' \in RequestType
        /\ req'.state = req.state /\ req'.result = req.result
        /\ req' = req \/ (h'.asks /\ req.result = "observe_syn" /\ req'.request_address = Source
                            /\ req'.bus_request)
    BY HandleRuns
  <1>2. /\ pc' = "read" /\ byte' = 0 /\ armed' = armed
        /\ sends' = IF h'.state = "active_send_master" /\ h.state # h'.state
                    THEN sends + 1
                    ELSE IF h'.state \in ActiveStates THEN sends ELSE 0
        /\ asked' = IF h'.state = "active_receive_slave" /\ h.state # h'.state
                    THEN asked + 1
                    ELSE IF h'.state \in ActiveStates THEN asked ELSE 0
    BY DEF Handle
  <1>3. sends \in Nat /\ asked \in Nat /\ armed \in BOOLEAN
    BY DEF IInv, TypeOK
  <1>4. TypeOK'
    <2>1. sends' \in Nat /\ asked' \in Nat
      BY <1>2, <1>3
    <2> QED  BY <1>1, <1>2, <1>3, <2>1, ConstantFacts DEF TypeOK
  <1>5. RequestInv'
    BY <1>1, <1>2, ConstantFacts DEF IInv, RequestInv
  <1>6. BusIsHeld'
    <2> SUFFICES ASSUME h'.state \in ActiveStates
                 PROVE  req'.state = "observe" /\ ~req'.bus_request /\ ~armed'
      BY DEF BusIsHeld
    <2>1. \/ h.state = "request_bus" /\ req.result \in WonResults /\ Wins(h, h')
          \/ h.state \in ActiveStates /\ SendsOn(h, h')
      <3>1. ~Listens(h, h') /\ ~Loses(h, h') /\ ~Ends(h')
        BY StateFacts DEF Listens, Loses, Ends, PRM, ActiveStates
      <3>2. h.state = "request_bus" => h' # Fresh(h)
        BY FreshEffect, StateFacts DEF IInv, TypeOK
      <3> QED  BY <1>1, <3>1, <3>2 DEF HandlerEffect
    <2>2. req.state = "observe" /\ ~req.bus_request /\ ~armed
      BY <2>1 DEF IInv, RequestInv, BusIsHeld
    <2>3. ~h'.asks
      BY <2>1 DEF Wins, SendsOn, Continues
    <2> QED  BY <1>1, <1>2, <2>2, <2>3
  <1>7. Counts'
    <2>1. CASE h.state \in ListeningStates /\ Listens(h, h')
      BY <1>2, <2>1, StateFacts DEF Listens, Counts, ActiveStates
    <2>2. CASE h.state = "request_bus" /\ Wins(h, h')
      <3>1. ~h.am_repeated /\ h.state \notin ActiveStates /\ sends = 0 /\ asked = 0
        BY <2>2, StateFacts DEF IInv, HandlerInv, Counts
      <3>2. h'.state = "active_send_master" /\ ~h'.am_repeated
        BY <2>2, <3>1 DEF Wins
      <3> QED  BY <1>2, <2>2, <3>1, <3>2 DEF Counts, ActiveStates, SlaveStates
    <2>3. CASE Loses(h, h') \/ Ends(h')
      BY <1>2, <2>3 DEF Loses, Ends, Counts, ActiveStates, SlaveStates, PRM
    <2>4. CASE h.state = "request_bus" /\ h' = Fresh(h)
      <3>1. h'.state = "request_bus"
        BY <2>4, FreshEffect DEF IInv, TypeOK
      <3> QED  BY <1>2, <3>1 DEF Counts, ActiveStates, SlaveStates
    <2>5. CASE h.state \in ActiveStates /\ SendsOn(h, h')
      <3>1. /\ h.state \notin SlaveStates => ~h.as_repeated
            /\ sends = IF h.am_repeated THEN 2 ELSE 1
            /\ asked = IF h.state \notin SlaveStates THEN 0 ELSE IF h.as_repeated THEN 2 ELSE 1
        BY <2>5 DEF IInv, HandlerInv, Counts
      <3> QED  BY <1>2, <2>5, <3>1 DEF SendsOn, SameRepeats, Counts, ActiveStates, SlaveStates
    <2> QED  BY <1>1, <2>1, <2>2, <2>3, <2>4, <2>5 DEF HandlerEffect
  <1>8. Waiting'
    <2> SUFFICES ASSUME h'.state = "request_bus"
                 PROVE  /\ ~StartBits => h'.active_message
                        /\ req'.result \in WaitResults
      BY DEF Waiting
    <2>1. ~Listens(h, h') /\ ~Wins(h, h') /\ ~Loses(h, h') /\ ~Ends(h') /\ ~SendsOn(h, h')
      BY StateFacts DEF Listens, Wins, Loses, Ends, SendsOn, PRM
    <2>2. h.state = "request_bus" /\ req.result \in WaitResults /\ h' = Fresh(h)
      BY <1>1, <2>1 DEF HandlerEffect
    <2>3. h'.active_message = h.active_message
      BY <2>2, FreshEffect DEF IInv, TypeOK, SameActive
    <2> QED  BY <1>1, <2>2, <2>3 DEF IInv, Waiting
  <1>9. OneCallback'
    <2>1. ASSUME NEW e, e.name # "unlisted_transition", h'.out = <<e>>
          PROVE  OneCallback'
      BY <2>1 DEF OneCallback
    <2>2. ASSUME h'.out = <<>> PROVE OneCallback'
      BY <2>2 DEF OneCallback
    <2>3. CASE Listens(h, h')
      <3>1. h'.out = <<>> \/ \E e : OverheardEvent(e) /\ h'.out = <<e>>
        BY <2>3 DEF Listens, Overheard
      <3> QED  BY <2>1, <2>2, <3>1 DEF OverheardEvent
    <2>4. CASE Wins(h, h')
      BY <2>1, <2>4 DEF Wins, BusEvent
    <2>5. CASE Loses(h, h')
      BY <2>1, <2>5 DEF Loses, BusEvent
    <2>6. CASE h' = Fresh(h)
      BY <2>2, <2>6, FreshEffect DEF IInv, TypeOK
    <2>7. CASE Ends(h')
      BY <2>1, <2>7 DEF Ends, FinalEvent
    <2>8. CASE SendsOn(h, h')
      BY <2>1, <2>2, <2>8 DEF SendsOn, RefusalEvent
    <2> QED  BY <1>1, <2>3, <2>4, <2>5, <2>6, <2>7, <2>8 DEF HandlerEffect
  <1> QED  BY <1>1, <1>4, <1>5, <1>6, <1>7, <1>8, <1>9 DEF IInv

-----------------------------------------------------------------------------
\* The other threads.

\* A message is handed over: Send keeps the invariant.
LEMMA SendInv ==
  ASSUME IInv, NEW m \in Messages, Send(m)
  PROVE  /\ IInv'
         /\ h'.state = h.state /\ h'.out = h.out /\ h'.as_repeated = h.as_repeated
         /\ ~h.active_message /\ h'.active_message
  <1>1. /\ h \in HandlerType /\ HandlerInv(h) /\ ~h.active_message
        /\ m \in Types \ {"undefined"} /\ h' = SendActiveMessage(h, m)
    BY BusHandlerAssumption DEF IInv, TypeOK, Send
  <1> DEFINE d == h'
  <1>2. d = SendActiveMessage(h, m)
    BY <1>1
  <1> HIDE DEF d
  <1>3. /\ d \in HandlerType /\ HandlerInv(d)
        /\ d.active_message /\ d.state = h.state /\ d.out = h.out
        /\ d.am_repeated = h.am_repeated /\ d.as_repeated = h.as_repeated
    BY <1>1, <1>2, SendActiveMessageEffect
  <1>4. /\ h' \in HandlerType /\ HandlerInv(h')
        /\ h'.active_message /\ h'.state = h.state /\ h'.out = h.out
        /\ h'.am_repeated = h.am_repeated /\ h'.as_repeated = h.as_repeated
    BY <1>3 DEF d
  <1>5. UNCHANGED <<req, armed, pc, byte, sends, asked>>
    BY DEF Send
  <1>6. TypeOK'
    BY <1>4, <1>5 DEF IInv, TypeOK
  <1>7. RequestInv'
    BY <1>5 DEF IInv, RequestInv
  <1>8. BusIsHeld' /\ Counts' /\ Waiting' /\ OneCallback'
    BY <1>4, <1>5 DEF IInv, BusIsHeld, Counts, Waiting, OneCallback
  <1> QED  BY <1>1, <1>4, <1>6, <1>7, <1>8 DEF IInv

\* The handler is reset from outside: Abort keeps the invariant.
LEMMA AbortInv ==
  ASSUME IInv, Abort
  PROVE  /\ IInv'
         /\ h'.state = PRM /\ h'.out = h.out /\ NoActive(h')
  <1> DEFINE d == h'
  <1>1. h \in HandlerType /\ d = HandlerReset(h)
    BY DEF IInv, TypeOK, Abort
  <1> HIDE DEF d
  <1>2. /\ d \in HandlerType /\ HandlerInv(d) /\ NoActive(d)
        /\ d.state = PRM /\ d.out = h.out
    BY <1>1, HandlerResetEffect
  <1>3. /\ h' \in HandlerType /\ HandlerInv(h') /\ NoActive(h')
        /\ h'.state = PRM /\ h'.out = h.out
    BY <1>2 DEF d
  <1>4. UNCHANGED <<req, armed, pc, byte>> /\ sends' = 0 /\ asked' = 0
    BY DEF Abort
  <1>5. TypeOK'
    BY <1>3, <1>4 DEF IInv, TypeOK
  <1>6. RequestInv'
    BY <1>4 DEF IInv, RequestInv
  <1>7. PRM \notin ActiveStates /\ PRM \notin SlaveStates /\ PRM # "request_bus"
    BY DEF PRM, ActiveStates, SlaveStates
  <1>8. BusIsHeld' /\ Counts' /\ Waiting' /\ OneCallback'
    BY <1>3, <1>4, <1>7 DEF IInv, BusIsHeld, Counts, Waiting, OneCallback
  <1> QED  BY <1>3, <1>5, <1>6, <1>8 DEF IInv

\* The Request is reset from outside: ResetRequest keeps the invariant.
LEMMA ResetRequestInv == ASSUME IInv, ResetRequest PROVE IInv'
  <1> DEFINE r == req'
  <1>1. req \in RequestType /\ r = Reset(req) /\ Aborts
    BY DEF IInv, TypeOK, ResetRequest
  <1> HIDE DEF r
  <1>2. /\ r \in RequestType
        /\ r.request_address = req.request_address /\ r.result = req.result
        /\ r.state = "observe" /\ ~r.bus_request
    BY <1>1, ResetEffect
  <1>3. /\ req' \in RequestType
        /\ req'.request_address = req.request_address /\ req'.result = req.result
        /\ req'.state = "observe" /\ ~req'.bus_request
    BY <1>2 DEF r
  <1>4. UNCHANGED <<h, armed, pc, byte, sends, asked>>
    BY DEF ResetRequest
  <1>5. TypeOK'
    BY <1>3, <1>4 DEF IInv, TypeOK
  <1>6. RequestInv'
    BY <1>1, <1>3, <1>4 DEF IInv, RequestInv
  <1>7. BusIsHeld' /\ Counts' /\ Waiting' /\ OneCallback' /\ HandlerInv(h')
    BY <1>3, <1>4 DEF IInv, BusIsHeld, Counts, Waiting, OneCallback
  <1> QED  BY <1>5, <1>6, <1>7 DEF IInv

\* The lock counter is configured: ChangeLock keeps the invariant.
LEMMA ChangeLockInv == ASSUME IInv, NEW n \in Locks, ChangeLock(n) PROVE IInv'
  <1> DEFINE r == req'
  <1>1. req \in RequestType /\ r = SetLockCounter(req, n) /\ n \in Nat
    BY ConstantFacts DEF IInv, TypeOK, ChangeLock
  <1> HIDE DEF r
  <1>2. /\ r \in RequestType
        /\ r.request_address = req.request_address /\ r.result = req.result
        /\ r.state = req.state /\ r.bus_request = req.bus_request
    BY <1>1, SetLockCounterEffect
  <1>3. /\ req' \in RequestType
        /\ req'.request_address = req.request_address /\ req'.result = req.result
        /\ req'.state = req.state /\ req'.bus_request = req.bus_request
    BY <1>2 DEF r
  <1>4. UNCHANGED <<h, armed, pc, byte, sends, asked>>
    BY DEF ChangeLock
  <1>5. TypeOK'
    BY <1>3, <1>4 DEF IInv, TypeOK
  <1>6. RequestInv'
    BY <1>3, <1>4 DEF IInv, RequestInv
  <1>7. BusIsHeld' /\ Counts' /\ Waiting' /\ OneCallback' /\ HandlerInv(h')
    BY <1>3, <1>4 DEF IInv, BusIsHeld, Counts, Waiting, OneCallback
  <1> QED  BY <1>5, <1>6, <1>7 DEF IInv

-----------------------------------------------------------------------------
\* Every step keeps the invariant.
LEMMA NextInv == IInv /\ [Next]_vars => IInv'
  <1> SUFFICES ASSUME IInv, [Next]_vars PROVE IInv'
    OBVIOUS
  <1>1. ASSUME NEW b \in Bytes, NEW s \in BOOLEAN, (s => StartBits) /\ Receive(b, s)
        PROVE  IInv'
    BY <1>1, ReceiveInv
  <1>2. CASE Handle
    BY <1>2, HandleInv
  <1>3. ASSUME NEW m \in Messages, Send(m)
        PROVE  IInv'
    BY <1>3, SendInv
  <1>4. CASE Abort
    BY <1>4, AbortInv
  <1>5. CASE ResetRequest
    BY <1>5, ResetRequestInv
  <1>6. ASSUME NEW n \in Locks, ChangeLock(n)
        PROVE  IInv'
    BY <1>6, ChangeLockInv
  <1>7. CASE UNCHANGED vars
    <2>1. UNCHANGED <<req, h, armed, pc, byte, sends, asked>>
      BY <1>7 DEF vars
    <2> QED  BY <2>1 DEF IInv, TypeOK, RequestInv, BusIsHeld, Counts, Waiting, OneCallback
  <1> QED  BY <1>1, <1>2, <1>3, <1>4, <1>5, <1>6, <1>7 DEF Next

\* The invariant holds in every reachable state.
THEOREM Invariant == Spec => []IInv
  BY InitInv, NextInv, PTL DEF Spec

\* The objects keep their types: no counter of missing bytes and no index
\* leaves its range, whatever the bytes are.
THEOREM TypeCorrect == Spec => []TypeOK
  <1>1. IInv => TypeOK
    BY DEF IInv
  <1> QED  BY <1>1, Invariant, PTL

\* The handler holds a message and its bytes exactly in the active states.
THEOREM ActiveBuffersHolds == Spec => []ActiveBuffers
  <1>1. IInv => ActiveBuffers
    BY DEF IInv, HandlerInv, ActiveBuffers, ActiveStates, SlaveStates
  <1> QED  BY <1>1, Invariant, PTL

\* Each part of a message is repeated once at most.
THEOREM RepeatOnceHolds == Spec => []RepeatOnce
  <1>1. IInv => RepeatOnce
    <2> SUFFICES ASSUME IInv PROVE RepeatOnce
      OBVIOUS
    <2>1. sends \in {0, 1, 2} /\ asked \in {0, 1, 2}
      BY DEF IInv, Counts
    <2> QED  BY <2>1 DEF RepeatOnce
  <1> QED  BY <1>1, Invariant, PTL

\* transition_masks has every transition that is asked for.
THEOREM NoIllegalTransitionHolds == Spec => []NoIllegalTransition
  <1>1. IInv => NoIllegalTransition
    BY DEF IInv, OneCallback, NoIllegalTransition
  <1> QED  BY <1>1, Invariant, PTL

\* Without spurious start bits, the handler waits in request_bus only for an
\* arbitration that goes on, or for the byte after a reset of the Request by
\* another thread.
THEOREM WaitIsContentionHolds ==
  ASSUME ~StartBits
  PROVE  Spec => []WaitIsContention
  <1>1. IInv => WaitIsContention
    BY DEF IInv, Waiting, RequestInv, WaitIsContention
  <1> QED  BY <1>1, Invariant, PTL

-----------------------------------------------------------------------------
\* What the bus thread reports about a message.

\* Terminal callbacks in a list of at most one.
LEMMA Answers ==
  ASSUME NEW o, NEW n, n = Cardinality({i \in DOMAIN o : Terminal(o[i])})
  PROVE  /\ o = <<>> => n = 0
         /\ \A e : o = <<e>> => n = IF Terminal(e) THEN 1 ELSE 0
  <1> DEFINE S == {i \in DOMAIN o : Terminal(o[i])}
  <1>1. ASSUME o = <<>> PROVE n = 0
    <2>1. S = {}
      BY <1>1
    <2> QED  BY <2>1, FS_EmptySet
  <1>2. ASSUME NEW e, o = <<e>> PROVE n = IF Terminal(e) THEN 1 ELSE 0
    <2>1. DOMAIN o = {1} /\ o[1] = e
      BY <1>2
    <2>2. CASE Terminal(e)
      <3>1. S = {1}
        BY <2>1, <2>2
      <3> QED  BY <2>2, <3>1, FS_Singleton
    <2>3. CASE ~Terminal(e)
      <3>1. S = {}
        BY <2>1, <2>3
      <3> QED  BY <2>3, <3>1, FS_EmptySet
    <2> QED  BY <2>2, <2>3
  <1> QED  BY <1>1, <1>2

\* A run of the handler gives the message back exactly when it reports its
\* end, once.
LEMMA HandleAnswers ==
  ASSUME IInv, ~StartBits, Handle
  PROVE  Cardinality({i \in DOMAIN h'.out : Terminal(h'.out[i])})
           = IF h.active_message /\ ~h'.active_message THEN 1 ELSE 0
  <1> DEFINE o == h'.out
             n == Cardinality({i \in DOMAIN o : Terminal(o[i])})
  <1>n. n = Cardinality({i \in DOMAIN o : Terminal(o[i])})
    OBVIOUS
  <1> HIDE DEF o, n
  <1>1. /\ o = <<>> => n = 0
        /\ \A e : o = <<e>> => n = IF Terminal(e) THEN 1 ELSE 0
    BY ONLY <1>n, Answers
  <1>2. HandlerEffect(h, req.result, h') /\ h \in HandlerType
    BY HandleRuns DEF IInv, TypeOK
  <1>3. CASE Listens(h, h')
    <2>1. (h'.active_message = h.active_message) /\ Overheard(h')
      BY <1>3 DEF Listens, SameActive
    <2>2. n = 0
      BY <1>1, <2>1 DEF o, Overheard, OverheardEvent
    <2> QED  BY <2>1, <2>2 DEF n, o
  <1>4. CASE Wins(h, h')
    <2>1. n = 0
      <3>1. PICK e : e.what = "won" /\ e.name = "" /\ o = <<e>>
        BY <1>4 DEF o, Wins, BusEvent
      <3>2. ~Terminal(e)
        BY <3>1 DEF Terminal
      <3> QED  BY <1>1, <3>1, <3>2
    <2>2. h'.active_message = h.active_message
      BY <1>4 DEF Wins
    <2> QED  BY <2>1, <2>2 DEF n, o
  <1>5. CASE h.state = "request_bus" /\ Loses(h, h')
    <2>1. n = 1
      <3>1. PICK e : e.what = "lost" /\ e.name = "" /\ o = <<e>>
        BY <1>5 DEF o, Loses, BusEvent
      <3>2. Terminal(e)
        BY <3>1 DEF Terminal
      <3> QED  BY <1>1, <3>1, <3>2
    <2>2. h.active_message /\ ~h'.active_message
      BY <1>5 DEF Loses, IInv, Waiting
    <2> QED  BY <2>1, <2>2 DEF n, o
  <1>6. CASE h' = Fresh(h)
    <2>1. o = <<>> /\ h'.active_message = h.active_message
      BY <1>2, <1>6, FreshEffect DEF o, SameActive
    <2> QED  BY <1>1, <2>1 DEF n, o
  <1>7. CASE h.state \in ActiveStates /\ Ends(h')
    <2>1. n = 1
      BY <1>1, <1>7 DEF o, Ends, FinalEvent
    <2>2. h.active_message /\ ~h'.active_message
      BY <1>7 DEF Ends, NoActive, IInv, HandlerInv
    <2> QED  BY <2>1, <2>2 DEF n, o
  <1>8. CASE SendsOn(h, h')
    <2>1. n = 0
      BY <1>1, <1>8 DEF o, SendsOn, RefusalEvent, Terminal
    <2>2. h'.active_message = h.active_message
      BY <1>8 DEF SendsOn, Continues
    <2> QED  BY <2>1, <2>2 DEF n, o
  <1> QED  BY <1>2, <1>3, <1>4, <1>5, <1>6, <1>7, <1>8 DEF HandlerEffect

\* Without spurious start bits, no message is taken from the handler without
\* a report, and none is reported twice.
THEOREM MessageAnsweredHolds ==
  ASSUME ~StartBits
  PROVE  Spec => MessageAnswered
  <1>1. ASSUME IInv, [Next]_vars, pc' # pc
        PROVE  Cardinality({i \in DOMAIN h'.out : Terminal(h'.out[i])})
                 = IF h.active_message /\ ~h'.active_message THEN 1 ELSE 0
    <2>1. \/ Handle
          \/ \E b \in Bytes, s \in BOOLEAN : (s => StartBits) /\ Receive(b, s)
      BY <1>1 DEF Next, vars, Send, Abort, ResetRequest, ChangeLock
    <2>2. CASE Handle
      BY <1>1, <2>2, HandleAnswers
    <2>3. ASSUME NEW b \in Bytes, NEW s \in BOOLEAN, (s => StartBits) /\ Receive(b, s)
          PROVE  Cardinality({i \in DOMAIN h'.out : Terminal(h'.out[i])})
                   = IF h.active_message /\ ~h'.active_message THEN 1 ELSE 0
      <3>1. h'.out = <<>> /\ h'.active_message = h.active_message
        BY <1>1, <2>3, ReceiveHandler
      <3> QED  BY <3>1, Answers
    <2> QED  BY <2>1, <2>2, <2>3
  <1>2. IInv /\ [Next]_vars =>
          [ pc' # pc
            => Cardinality({i \in DOMAIN h'.out : Terminal(h'.out[i])})
                 = IF h.active_message /\ ~h'.active_message THEN 1 ELSE 0 ]_vars
    BY <1>1
  <1> QED  BY <1>2, Invariant, PTL DEF Spec, MessageAnswered

-----------------------------------------------------------------------------
\* The refinement of HandlerPort.

\* What a callback is to the scheduler.
LEMMA PortEvents ==
  ASSUME NEW n, NEW e, n.out = <<e>>
  PROVE  /\ LastEvent(n) = PortEvent(e)
         /\ OverheardEvent(e) => PortEvent(e) \in {"passive_telegram", "passive_error"}
         /\ FinalEvent(e) => PortEvent(e) \in {"telegram", "error"}
         /\ RefusalEvent(e) => PortEvent(e) = "slave_error"
         /\ \A w \in {"won", "lost"} : BusEvent(e, w) => PortEvent(e) = w
  <1>1. n.out # <<>> /\ Len(n.out) = 1 /\ n.out[Len(n.out)] = e
    OBVIOUS
  <1>2. LastEvent(n) = PortEvent(e)
    BY <1>1 DEF LastEvent
  <1>3. ASSUME OverheardEvent(e)
        PROVE  PortEvent(e) \in {"passive_telegram", "passive_error"}
    BY <1>3 DEF OverheardEvent, PortEvent
  <1>4. ASSUME FinalEvent(e)
        PROVE  PortEvent(e) \in {"telegram", "error"}
    BY <1>4 DEF FinalEvent, PortEvent
  <1>5. ASSUME RefusalEvent(e)
        PROVE  PortEvent(e) = "slave_error"
    BY <1>5 DEF RefusalEvent, PortEvent
  <1>6. ASSUME NEW w \in {"won", "lost"}, BusEvent(e, w)
        PROVE  PortEvent(e) = w
    BY <1>6 DEF BusEvent, PortEvent
  <1> QED  BY <1>2, <1>3, <1>4, <1>5, <1>6

\* The initial state of the node is one of the port.
LEMMA PortInitially == Init => Port!PortInit
  <1> SUFFICES ASSUME Init PROVE Port!PortInit
    OBVIOUS
  <1>1. /\ h.state = PRM /\ h.active_message = FALSE /\ h.as_repeated = FALSE
        /\ h.out = <<>>
    BY DEF Init, NewHandler
  <1>2. PRM # "active_send_slave_negative_acknowledge"
    BY DEF PRM
  <1> QED  BY <1>1, <1>2 DEF Port!PortInit, PortPhase, PortRefusals, LastEvent

\* A byte that is read is quiet.
LEMMA ReceivePort ==
  ASSUME IInv, ~StartBits, NEW b \in Bytes, NEW s \in BOOLEAN, s => StartBits, Receive(b, s)
  PROVE  Port!Quiet
  <1>1. /\ h'.out = <<>> /\ h'.active_message = h.active_message
        /\ h'.as_repeated = h.as_repeated
        /\ h'.state = h.state
             \/ (h'.state = "request_bus" /\ h.state \notin ActiveStates)
    BY ReceiveHandler
  <1>2. /\ h'.state \in ActiveStates <=> h.state \in ActiveStates
        /\ h'.state = "active_send_slave_negative_acknowledge"
             <=> h.state = "active_send_slave_negative_acknowledge"
    BY <1>1 DEF ActiveStates
  <1>3. PortPhase(h') = PortPhase(h) /\ PortRefusals(h') = PortRefusals(h)
    BY <1>1, <1>2 DEF PortPhase, PortRefusals
  <1>4. LastEvent(h') = "none"
    BY <1>1 DEF LastEvent
  <1> QED  BY <1>3, <1>4 DEF Port!Quiet, PortPhase, PortRefusals, LastEvent

\* A run of the handler is a step of the port.
LEMMA HandlePort ==
  ASSUME IInv, ~StartBits, Handle
  PROVE  Port!BusStep
  <1> DEFINE d == h'
             nak == "active_send_slave_negative_acknowledge"
  <1>1. /\ HandlerEffect(h, req.result, d) /\ h \in HandlerType /\ HandlerInv(h)
        /\ h.state = "request_bus" => h.active_message
    BY HandleRuns DEF IInv, TypeOK, Waiting
  <1>2. /\ PortPhase(h)' = PortPhase(d) /\ PortRefusals(h)' = PortRefusals(d)
        /\ LastEvent(h)' = LastEvent(d)
    OBVIOUS
  <1> HIDE DEF d
  <1>3. \A n : n.out = <<>> => LastEvent(n) = "none"
    BY DEF LastEvent
  <1>4. h.as_repeated \in BOOLEAN /\ h.active_message \in BOOLEAN
    BY <1>1 DEF HandlerType
  <1>5. nak \in SlaveStates /\ nak \in ActiveStates
    BY DEF SlaveStates, ActiveStates
  <1>6. CASE h.state \in ListeningStates /\ Listens(h, d)
    <2>1. /\ h.state \notin ActiveStates /\ d.state \notin ActiveStates
          /\ d.active_message = h.active_message /\ d.as_repeated = h.as_repeated
      BY <1>6, StateFacts DEF Listens, SameActive
    <2>2. /\ PortPhase(d) = PortPhase(h) /\ PortRefusals(d) = PortRefusals(h)
          /\ PortPhase(h) # "sending"
      BY <1>5, <2>1 DEF PortPhase, PortRefusals
    <2>3. LastEvent(d) \in {"none", "passive_telegram", "passive_error"}
      <3>1. CASE d.out = <<>>
        BY <1>3, <3>1
      <3>2. ASSUME NEW e, OverheardEvent(e), d.out = <<e>>
            PROVE  LastEvent(d) \in {"none", "passive_telegram", "passive_error"}
        BY <3>2, PortEvents
      <3> QED  BY <1>6, <3>1, <3>2 DEF Listens, Overheard
    <2> QED  BY <1>2, <2>2, <2>3 DEF Port!BusStep, Port!Quiet, Port!Overhear, Port!Overheard
  <1>7. CASE h.state = "request_bus" /\ Wins(h, d)
    <2>1. /\ h.active_message /\ h.state \notin ActiveStates /\ d.active_message
          /\ d.state = "active_send_master" /\ d.as_repeated = h.as_repeated
      BY <1>1, <1>7, StateFacts DEF Wins
    <2>2. /\ PortPhase(h) = "queued" /\ PortPhase(d) = "sending"
          /\ PortRefusals(d) = PortRefusals(h)
      BY <1>7, <2>1 DEF PortPhase, PortRefusals, ActiveStates
    <2>3. LastEvent(d) = "won"
      BY <1>7, PortEvents DEF Wins
    <2> QED  BY <1>2, <2>2, <2>3 DEF Port!BusStep, Port!WinBus
  <1>8. CASE h.state = "request_bus" /\ Loses(h, d)
    <2>1. /\ h.active_message /\ h.state \notin ActiveStates /\ ~d.active_message
          /\ d.state \in {PRM, "release_bus"} /\ d.as_repeated = h.as_repeated
      BY <1>1, <1>8, StateFacts DEF Loses
    <2>2. /\ PortPhase(h) = "queued" /\ PortPhase(d) = "idle"
          /\ PortRefusals(d) = PortRefusals(h)
      BY <1>8, <2>1 DEF PortPhase, PortRefusals, PRM
    <2>3. LastEvent(d) = "lost"
      BY <1>8, PortEvents DEF Loses
    <2> QED  BY <1>2, <2>2, <2>3 DEF Port!BusStep, Port!LoseBus
  <1>9. CASE h.state = "request_bus" /\ d = Fresh(h)
    <2>1. SameActive(h, d) /\ d.state = h.state /\ d.out = <<>>
      BY <1>1, <1>9, FreshEffect
    <2>2. /\ PortPhase(d) = PortPhase(h) /\ PortRefusals(d) = PortRefusals(h)
          /\ LastEvent(d) = "none"
      BY <1>3, <2>1 DEF PortPhase, PortRefusals, SameActive
    <2> QED  BY <1>2, <2>2 DEF Port!BusStep, Port!Quiet
  <1>10. CASE h.state \in ActiveStates /\ Ends(d)
    <2>1. /\ h.active_message /\ ~d.active_message /\ ~d.as_repeated
          /\ d.state # nak
      BY <1>1, <1>10 DEF Ends, NoActive, HandlerInv, PRM
    <2>2. /\ PortPhase(h) = "sending" /\ PortPhase(d) = "idle" /\ PortRefusals(d) = 0
      BY <1>10, <2>1 DEF PortPhase, PortRefusals
    <2>3. LastEvent(d) \in {"telegram", "error"}
      BY <1>10, PortEvents DEF Ends
    <2> QED  BY <1>2, <2>2, <2>3 DEF Port!BusStep, Port!Finish, Port!Finals
  <1>11. CASE h.state \in ActiveStates /\ SendsOn(h, d)
    <2>1. /\ h.active_message /\ d.active_message /\ d.state \in ActiveStates
      BY <1>1, <1>11 DEF SendsOn, Continues, HandlerInv, ActiveStates
    <2>2. PortPhase(h) = "sending" /\ PortPhase(d) = "sending"
      BY <1>11, <2>1 DEF PortPhase
    <2>3. CASE d.out = <<>>
      <3>1. PortRefusals(d) = PortRefusals(h)
        BY <1>4, <1>11, <2>3 DEF SendsOn, SameRepeats, PortRefusals
      <3> QED  BY <1>2, <1>3, <2>2, <2>3, <3>1 DEF Port!BusStep, Port!Quiet
    <2>4. CASE d.out # <<>>
      <3>1. /\ h.state = "active_receive_slave" /\ d.state = nak
            /\ d.as_repeated = h.as_repeated
            /\ \E e : RefusalEvent(e) /\ d.out = <<e>>
        BY <1>11, <2>4 DEF SendsOn, SameRepeats
      <3>2. PortRefusals(h) < 2 /\ PortRefusals(d) = PortRefusals(h) + 1
        BY <3>1 DEF PortRefusals
      <3>3. LastEvent(d) = "slave_error"
        BY <3>1, PortEvents
      <3> QED  BY <1>2, <2>2, <3>2, <3>3 DEF Port!BusStep, Port!RefuseSlavePart
    <2> QED  BY <2>3, <2>4
  <1> QED  BY <1>1, <1>6, <1>7, <1>8, <1>9, <1>10, <1>11 DEF HandlerEffect

\* Without spurious start bits the node implements HandlerPort: every step of
\* it is a step of the port or changes nothing there.
THEOREM ImplementsPortHolds ==
  ASSUME ~StartBits
  PROVE  Spec => ImplementsPort
  <1>1. IInv /\ [Next]_vars => [Port!PortNext]_(Port!port)
    <2> SUFFICES ASSUME IInv, [Next]_vars PROVE [Port!PortNext]_(Port!port)
      OBVIOUS
    <2>1. ASSUME NEW b \in Bytes, NEW s \in BOOLEAN, (s => StartBits) /\ Receive(b, s)
          PROVE  Port!PortNext
      BY <2>1, ReceivePort DEF Port!PortNext, Port!BusStep
    <2>2. ASSUME Handle PROVE Port!PortNext
      BY <2>2, HandlePort DEF Port!PortNext
    <2>3. ASSUME NEW m \in Messages, Send(m) PROVE Port!PortNext
      <3>1. /\ h'.state = h.state /\ h'.out = h.out /\ h'.as_repeated = h.as_repeated
            /\ ~h.active_message /\ h'.active_message
        BY <2>3, SendInv
      <3>2. h.state \notin ActiveStates
        BY <3>1 DEF IInv, HandlerInv
      <3> QED  BY <3>1, <3>2 DEF Port!PortNext, Port!Accept, PortPhase, PortRefusals, LastEvent
    <2>4. ASSUME Abort PROVE Port!PortNext
      <3>1. /\ ~h'.active_message /\ ~h'.as_repeated /\ h'.out = h.out
            /\ h'.state # "active_send_slave_negative_acknowledge"
        BY <2>4, AbortInv DEF NoActive, PRM
      <3> QED  BY <3>1 DEF Port!PortNext, Port!Drop, PortPhase, PortRefusals, LastEvent
    <2>5. ASSUME UNCHANGED h PROVE UNCHANGED Port!port
      BY <2>5 DEF Port!port
    <2> QED  BY <2>1, <2>2, <2>3, <2>4, <2>5 DEF Next, vars, ResetRequest, ChangeLock
  <1> QED  BY <1>1, PortInitially, Invariant, PTL DEF Spec, ImplementsPort, Port!PortSpec
=============================================================================
