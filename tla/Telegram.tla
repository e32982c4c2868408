------------------------------ MODULE Telegram ------------------------------
(***************************************************************************)
(* TelegramImpl (src/ebus/core/telegram.hpp): the parser that turns the    *)
(* bytes between two SYN into a telegram, and the checks of a part that is *)
(* built by the application.  A part (master or slave) is a record of its  *)
(* bytes without CRC, its CRC, the acknowledge that followed and its       *)
(* SequenceState.  Offsets count from 0, as in the source.                 *)
(***************************************************************************)
EXTENDS ByteSequence, Once

MasterHeader == 5     \* QQ ZZ PB SB NN
SlaveHeader  == 1     \* NN

NoPart == [s |-> << >>, crc |-> 0, ack |-> 0, state |-> "seq_empty"]

\* clear
NewTelegram == [type |-> "undefined", master |-> NoPart, slave |-> NoPart]

At0(s, i) == s[i + 1]

-----------------------------------------------------------------------------
(* createMaster, createSlave: the bytes q with or without their CRC.       *)

MasterState(s) ==
  IF Len(s) < MasterHeader THEN "err_seq_too_short"
  ELSE IF ~IsMaster(At0(s, 0)) THEN "err_source_address"
  ELSE IF ~IsTarget(At0(s, 1)) THEN "err_target_address"
  ELSE IF At0(s, 4) > MaxDataBytes THEN "err_data_byte"
  ELSE IF NeedsEscape(At0(s, 2)) \/ NeedsEscape(At0(s, 3)) THEN "err_data_byte"
  ELSE IF Len(s) < MasterHeader + At0(s, 4) THEN "err_seq_too_short"
  ELSE IF Len(s) > MasterHeader + At0(s, 4) + 1 THEN "err_seq_too_long"
  ELSE "seq_ok"

SlaveState(s) ==
  IF Len(s) < 2 THEN "err_seq_too_short"
  ELSE IF At0(s, 0) > MaxDataBytes THEN "err_data_byte"
  ELSE IF Len(s) < SlaveHeader + At0(s, 0) THEN "err_seq_too_short"
  ELSE IF Len(s) > SlaveHeader + At0(s, 0) + 1 THEN "err_seq_too_long"
  ELSE "seq_ok"

\* The part after its checks gave state; len is its length without CRC.  A
\* part that came without CRC gets the one it should have had.
Created(part, s, state, len) ==
  IF state # "seq_ok" THEN [part EXCEPT !.state = state]
  ELSE LET body == SubSeq(s, 1, len)
           crc  == CalculateCRC(body, FALSE)
           got  == IF Len(s) = len THEN crc ELSE s[len + 1]
       IN  [part EXCEPT !.s = body, !.crc = got,
              !.state = IF got = crc THEN "seq_ok" ELSE "err_crc_invalid"]

MasterMade(t, s, state) ==
  LET fits == state \in {"seq_ok", "err_seq_too_long"}
  IN  [t EXCEPT !.type = IF fits THEN TypeOf(At0(s, 1)) ELSE @,
         !.master = Created(@, s, state,
                            IF fits THEN MasterHeader + At0(s, 4) ELSE 0)]

CreateMaster(t, q) ==
  With(Reduce(q).s, LAMBDA s :
    With(MasterState(s), LAMBDA state : MasterMade(t, s, state)))

SlaveMade(t, s, state) ==
  [t EXCEPT !.slave =
     Created(@, s, state,
             IF state = "seq_ok" THEN SlaveHeader + At0(s, 0) ELSE 0)]

\* Plausible error: a part that came with its CRC is taken at its word.
CreateSlaveUnchecked(t, q) ==
  With(Reduce(q).s, LAMBDA s :
    [t EXCEPT !.slave.state = SlaveState(s), !.slave.s = s])

CreateSlave(t, q) ==
  With(Reduce(q).s, LAMBDA s :
    With(SlaveState(s), LAMBDA state : SlaveMade(t, s, state)))

-----------------------------------------------------------------------------
(***************************************************************************)
(* checkMasterSequence, checkSlaveSequence: whether a part can start at    *)
(* the offset.  The master's last check leaves out the offset: a retried   *)
(* master part that is cut short passes it.                                *)
(***************************************************************************)
CheckMasterSequence(s, offset) ==
  IF Len(s) < offset + MasterHeader THEN "err_seq_too_short"
  ELSE IF ~IsMaster(At0(s, offset)) THEN "err_source_address"
  ELSE IF ~IsTarget(At0(s, offset + 1)) THEN "err_target_address"
  ELSE IF At0(s, offset + 4) > MaxDataBytes THEN "err_data_byte"
  ELSE IF Len(s) < MasterHeader + At0(s, offset + 4) + 1 THEN "err_seq_too_short"
  ELSE "seq_ok"

CheckSlaveSequence(s, offset) ==
  IF Len(s) < offset + SlaveHeader THEN "err_seq_too_short"
  ELSE IF At0(s, offset) > MaxDataBytes THEN "err_data_byte"
  ELSE IF Len(s) < offset + SlaveHeader + At0(s, offset) + 1 THEN "err_seq_too_short"
  ELSE "seq_ok"

\* The acknowledge after a part: the part, and whether parsing goes on.
Acknowledged(part, s, offset) ==
  IF Len(s) <= offset THEN [part EXCEPT !.state = "err_ack_missing"]
  ELSE IF At0(s, offset) \in {Ack, Nak}
  THEN [part EXCEPT !.ack = At0(s, offset)]
  ELSE [part EXCEPT !.ack = At0(s, offset), !.state = "err_ack_invalid"]

(***************************************************************************)
(* parseSequencePart: p holds the telegram, the offset and whether to go   *)
(* on.                                                                     *)
(***************************************************************************)
MasterParsed(s, next, t1) ==
  IF t1.master.state # "seq_ok" \/ t1.type = "broadcast"
  THEN [t |-> t1, offset |-> next, ok |-> t1.master.state = "seq_ok"]
  ELSE With(Acknowledged(t1.master, s, next), LAMBDA acked :
         [t |-> [t1 EXCEPT !.master = acked], offset |-> next + 1,
          ok |-> acked.state = "seq_ok"])

ParseMasterPart(s, p) ==
  With(CheckMasterSequence(s, p.offset), LAMBDA state :
    IF state # "seq_ok"
    THEN [p EXCEPT !.t.master.state = state, !.ok = FALSE]
    ELSE With(MasterHeader + At0(s, p.offset + 4) + 1, LAMBDA len :
           With(AssignSlice(Reduced(s), p.offset, len), LAMBDA slice :
             With(CreateMaster([p.t EXCEPT !.master.s = slice.s], slice),
                  LAMBDA t1 : MasterParsed(s, p.offset + len, t1)))))

SlaveParsed(s, next, t1) ==
  IF t1.slave.state # "seq_ok"
  THEN [t |-> t1, offset |-> next, ok |-> FALSE]
  ELSE With(Acknowledged(t1.slave, s, next), LAMBDA acked :
         [t |-> [t1 EXCEPT !.slave = acked], offset |-> next + 1,
          ok |-> acked.state = "seq_ok"])

ParseSlavePart(s, p) ==
  With(CheckSlaveSequence(s, p.offset), LAMBDA state :
    IF state # "seq_ok"
    THEN [p EXCEPT !.t.slave.state = state, !.ok = FALSE]
    ELSE With(SlaveHeader + At0(s, p.offset) + 1, LAMBDA len :
           With(AssignSlice(Reduced(s), p.offset, len), LAMBDA slice :
             With(CreateSlave([p.t EXCEPT !.slave.s = slice.s], slice),
                  LAMBDA t1 : SlaveParsed(s, p.offset + len, t1)))))

\* A negative acknowledge is followed by the part again; the second one ends
\* the telegram.
MasterAgain(p2) ==
  IF p2.ok /\ p2.t.master.ack = Nak
  THEN [p2 EXCEPT !.t.master.state = "err_ack_negative", !.ok = FALSE]
  ELSE p2

MasterParts(s) ==
  With(ParseMasterPart(s, [t |-> NewTelegram, offset |-> 0, ok |-> TRUE]),
       LAMBDA p1 :
         IF ~p1.ok \/ p1.t.type = "broadcast" \/ p1.t.master.ack # Nak THEN p1
         ELSE With(ParseMasterPart(s, p1), MasterAgain))

SlaveAgain(p2) ==
  IF p2.ok /\ p2.t.slave.ack = Nak
  THEN [p2 EXCEPT !.t.slave.state = "err_ack_negative"]
  ELSE p2

SlaveParts(s, p) ==
  With(ParseSlavePart(s, p), LAMBDA p1 :
    IF ~p1.ok \/ p1.t.slave.ack # Nak THEN p1
    ELSE With(ParseSlavePart(s, p1), SlaveAgain))

\* parse, of a sequence in either form.
Parse(q) ==
  With(Reduce(q).s, LAMBDA s :
    With(MasterParts(s), LAMBDA p :
      IF p.ok /\ p.t.type = "master_slave" THEN SlaveParts(s, p).t ELSE p.t))

\* makeTelegram takes bytes of the wire.
MakeTelegram(data) == Parse(Extended(data))

IsValid(t) ==
  /\ t.master.state = "seq_ok"
  /\ t.type = "master_slave" => t.slave.state = "seq_ok"
=============================================================================
