------------------------------- MODULE Client -------------------------------
(***************************************************************************)
(* One network client of the bridge (src/ebus/app/client.cpp): the base    *)
(* class and its three kinds.  A client is a record and each method an     *)
(* operator that returns it after the call.                                *)
(*                                                                         *)
(*   up    the socket is valid (isConnected)                               *)
(*   inb   inbound_buffer_: bytes of the client for the bus                *)
(*   half  incoming_buf_[0] while the second byte of an enhanced sequence  *)
(*         is awaited (incoming_len_ = 1), NoByte otherwise                *)
(*   last  last_sent_byte_                                                 *)
(* The bytes that wait for the client's socket (outbound_buffer_) decide   *)
(* nothing about a session: module Outbound has them.                      *)
(***************************************************************************)
EXTENDS Address, Enhanced, SequencesExt

CONSTANT InCap  \* capacity of inbound_buffer_ (32, the default of the queue)

ASSUME InCapAssumption == InCap \in Nat \ {0}

Kinds  == {"regular", "read_only", "enhanced"}
NoByte == 256

ClientType ==
  [kind : Kinds, up : BOOLEAN, inb : Seq(Byte), half : Byte \cup {NoByte},
   last : Byte]

\* createClient.
NewClient(kind) ==
  [kind |-> kind, up |-> TRUE, inb |-> << >>, half |-> NoByte, last |-> 0]

WriteCapable(c) == c.kind # "read_only"

\* AbstractClient::stop.
Close(c) == [c EXCEPT !.up = FALSE]

-----------------------------------------------------------------------------
(***************************************************************************)
(* handleIncomingStream.  The result is the client, whether the Request is *)
(* to be reset (command start with SYN), and whether the queue was full:   *)
(* push then waits for room with io_mutex_ held, and every other user of   *)
(* the client waits for io_mutex_.                                         *)
(***************************************************************************)
Queued(acc, byte) ==
  IF Len(acc.c.inb) < InCap
  THEN [acc EXCEPT !.c.inb = Append(@, byte)]
  ELSE [acc EXCEPT !.stuck = TRUE]

\* The commands that hand over a byte also remember it as sent.
Sent(acc, byte) == [Queued(acc, byte) EXCEPT !.c.last = byte]

Commanded(acc, cmd, val) ==
  IF cmd = Command.send THEN Sent(acc, val)
  ELSE IF cmd = Command.start /\ val = Syn THEN [acc EXCEPT !.reset = TRUE]
  ELSE IF cmd = Command.start THEN Sent(acc, val)
  ELSE acc

EnhancedByte(acc, b) ==
  LET half == acc.c.half
      a1   == [acc EXCEPT !.c.half = NoByte]
  IN  IF acc.stuck \/ ~acc.c.up THEN acc
      ELSE IF half = NoByte /\ b < DataThreshold THEN Queued(acc, b)
      ELSE IF half = NoByte THEN [acc EXCEPT !.c.half = b]
      ELSE IF ~IsValidSequence(half, b)
      THEN [a1 EXCEPT !.c = Close(@)]
      ELSE Commanded(a1, DecodeCmd(half), DecodeVal(half, b))

HandleIncomingStream(c, data) ==
  LET start == [c |-> c, reset |-> FALSE, stuck |-> FALSE]
  IN  CASE ~c.up \/ c.kind = "read_only" -> start
        [] c.kind = "regular"  -> FoldLeft(Queued, start, data)
        [] c.kind = "enhanced" -> FoldLeft(EnhancedByte, start, data)

\* EnhancedClient::onSessionStart drops half a sequence.
OnSessionStart(c) ==
  IF c.kind = "enhanced" THEN [c EXCEPT !.half = NoByte] ELSE c

HasPending(c) == WriteCapable(c) /\ c.inb # << >>

Pop(c) == [c EXCEPT !.inb = Tail(@), !.last = Head(c.inb)]

-----------------------------------------------------------------------------
\* onBusByte of the client that owns the session: the BridgeAction.  What it
\* tells the client goes to the outbound buffer.

ArbitrationWon   == {"first_won", "second_won"}
ArbitrationEnded == {"first_lost", "second_lost",
                     "first_error", "retry_error", "second_error"}

RegularOnBusByte(c, byte, result) ==
  IF \/ result \in ArbitrationEnded
     \/ result = "observe_data" /\ byte # c.last
  THEN "stop_session"
  ELSE IF result \in ArbitrationWon \cup {"observe_data"}
  THEN "bypass_wait" ELSE "keep_active"

EnhancedOnBusByte(c, byte, result) ==
  IF result \in ArbitrationEnded THEN "stop_session"
  ELSE IF \/ result \in ArbitrationWon
          \/ result = "observe_data" /\ byte = c.last
  THEN "bypass_wait" ELSE "keep_active"

OnBusByte(c, byte, result) ==
  IF ~c.up \/ c.kind = "read_only" THEN "stop_session"
  ELSE IF c.kind = "regular" THEN RegularOnBusByte(c, byte, result)
  ELSE EnhancedOnBusByte(c, byte, result)
=============================================================================
