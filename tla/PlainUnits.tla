----------------------------- MODULE PlainUnits ------------------------------
(***************************************************************************)
(* The parts of the library that keep to themselves and are defined        *)
(* without recursive operators: byte stuffing and checksum, the telegram   *)
(* parser, the data types, the ring in front of a client's socket, the     *)
(* congestion alarm and the SYN generators.  They share no state with each *)
(* other, so each is explored alone: unit says which, and x is the input   *)
(* it was given so far or its state.  Module Units adds the others.        *)
(***************************************************************************)
EXTENDS Telegram, DataTypes, Outbound, BusMonitor, SynGenerator

CONSTANTS
  MaxStuffed,   \* bytes of an input of the stuffing
  Stuff,        \* the bytes it is made of
  Parts,        \* master and slave parts of an exchange, CRC included,
                \*   in wire form
  MaxPieces,    \* parts and acknowledges of an exchange
  DataBytes,    \* bytes of a data field
  WholeValues,  \* integers to encode
  Responses,    \* what an enhanced client is sent
  MaxSends,     \* enqueues of an outbound ring
  MaxTime,      \* steps of the monitor's clock
  Generators    \* the nodes of a bus, each a sequence of SYN generators

NewGenerators == {NewGenerator(esp, addr) : esp \in BOOLEAN, addr \in Byte}

\* The masters of a bus have different addresses.
ASSUME UnitsAssumption ==
  /\ Stuff \subseteq Byte /\ DataBytes \subseteq Byte /\ WholeValues \subseteq Int
  /\ Parts \subseteq Seq(Byte)
  /\ Responses \subseteq (0..15) \X Byte
  /\ {MaxStuffed, MaxPieces, MaxSends, MaxTime} \subseteq Nat
  /\ \A g \in Generators :
       /\ g \in Seq(NewGenerators)
       /\ \A i, j \in DOMAIN g : g[i].addr = g[j].addr => i = j

VARIABLES unit, x

vars == << unit, x >>

-----------------------------------------------------------------------------
NewSends(kind) ==
  [kind |-> kind, ring |-> NewRing, log |-> << >>, last |-> << >>, sends |-> 0]

NewAlarm == [b |-> NewMonitor, first |-> Unset, last |-> Unset, long |-> FALSE]

PlainInit ==
  \/ unit = "stuffing" /\ x = << >>
  \/ unit = "telegram" /\ x = [pieces |-> 0, wire |-> << >>, cut |-> FALSE]
  \/ unit = "data" /\ x \in [dt : DataType, data : {<< >>}]
  \/ unit = "outbound" /\ x \in {NewSends(k) : k \in {"regular", "enhanced"}}
  \/ unit = "alarm" /\ x = NewAlarm
  \/ unit = "syn" /\ x \in {NewBus(g) : g \in Generators}

Of(u) == unit = u /\ UNCHANGED unit

-----------------------------------------------------------------------------
(* Inputs that grow.                                                       *)

MoreBytes ==
  /\ Of("stuffing")
  /\ Len(x) < MaxStuffed
  /\ \E b \in Stuff : x' = Append(x, b)

\* An exchange alternates parts and acknowledges; it may be cut short once,
\* at its end.
MoreExchange ==
  /\ Of("telegram")
  /\ x.pieces < MaxPieces /\ ~x.cut
  /\ \E piece \in IF x.pieces % 2 = 0 THEN Parts ELSE {<< Ack >>, << Nak >>} :
       x' = [x EXCEPT !.pieces = @ + 1, !.wire = @ \o piece]

CutExchange ==
  /\ Of("telegram")
  /\ x.pieces > 0 /\ ~x.cut
  /\ x' = [x EXCEPT !.wire = SubSeq(@, 1, Len(@) - 1), !.cut = TRUE]

MoreData ==
  /\ Of("data")
  /\ Len(x.data) < Meta[x.dt].size
  /\ \E b \in DataBytes : x' = [x EXCEPT !.data = Append(@, b)]

-----------------------------------------------------------------------------
(* The outbound ring; log is every byte it was given, last the last ones.  *)

Given(ring, bytes) ==
  [x EXCEPT !.ring = ring, !.log = @ \o bytes, !.last = bytes, !.sends = @ + 1]

Send ==
  /\ Of("outbound")
  /\ x.sends < MaxSends
  /\ \E u \in Responses :
       x' = IF x.kind = "regular"
            THEN Given(RegularEnqueue(x.ring, u[2]), << u[2] >>)
            ELSE Given(EnhancedEnqueue(x.ring, u[1], u[2]), Unit(u[1], u[2]))

FlushSome ==
  /\ Of("outbound")
  /\ \E n \in 1..x.ring.count :
       x' = [x EXCEPT !.ring = Flush(@, n), !.last = << >>]

-----------------------------------------------------------------------------
(***************************************************************************)
(* The alarm.  first and last are the first and the last of the calls of   *)
(* fetchMetrics in a row that saw a congested bus, and long says that one  *)
(* of them came at least the detection time after the reset.               *)
(***************************************************************************)
Wait ==
  /\ Of("alarm")
  /\ x.b.now < MaxTime
  /\ \E low \in {0, 1} : x' = [x EXCEPT !.b = Elapse(@, low)]

Fetch ==
  /\ Of("alarm")
  /\ x.b.now > x.b.start
  /\ x' = IF Congested(x.b)
          THEN [b     |-> FetchMetrics(x.b),
                first |-> IF x.first = Unset THEN x.b.now ELSE x.first,
                last  |-> x.b.now,
                long  |-> x.long \/ x.b.now - x.b.start >= Detection]
          ELSE [NewAlarm EXCEPT !.b = FetchMetrics(x.b)]

ResetAll ==
  /\ Of("alarm")
  /\ x' = [x EXCEPT !.b = ResetMetrics(@)]

-----------------------------------------------------------------------------
(* The SYN generators of the nodes of a bus.                               *)

\* Something that node i does, or that is done to it.
AtNode(i, g) == x' = [x EXCEPT !.node[i] = g]

\* The same when a timer is set by hand.
Set(i, g) == x' = [x EXCEPT !.node[i] = g, !.settled = FALSE]

ReadWire ==
  /\ Of("syn")
  /\ \E i \in DOMAIN x.node :
       x.node[i].got # "none" /\ AtNode(i, ReadByte(x.node[i]))

Expire ==
  /\ Of("syn")
  /\ \E i \in DOMAIN x.node : Due(x.node[i]) /\ x' = Expired(x, i)

WriteSyn ==
  /\ Of("syn")
  /\ \E i \in DOMAIN x.node : x.node[i].firing /\ x' = SynWritten(x, i)

\* A byte of a telegram, of a node or of another device.  The SYNs that the
\* handler and the bridge write through writeByte are left out.
Transmit ==
  /\ Of("syn")
  /\ ~x.data
  /\ \/ x' = [x EXCEPT !.data = TRUE]
     \/ \E i \in DOMAIN x.node :
          x' = [x EXCEPT !.data = TRUE, !.node[i] = WriteByte(@, "data")]

Configure ==
  /\ Of("syn")
  /\ \E i \in DOMAIN x.node :
       LET g == x.node[i]
       IN  IF g.on THEN Set(i, Realign(g)) \/ AtNode(i, Disable(g))
           ELSE ~g.firing /\ Set(i, Enable(g))

PassByteTime ==
  /\ Of("syn")
  /\ Over(x)
  /\ \E byte \in Heard(x) : x' = BusTick(x, byte)

-----------------------------------------------------------------------------
PlainNext ==
  \/ MoreBytes \/ MoreExchange \/ CutExchange \/ MoreData
  \/ Send \/ FlushSome
  \/ Wait \/ Fetch \/ ResetAll
  \/ ReadWire \/ Expire \/ WriteSyn \/ Transmit \/ Configure \/ PassByteTime

PlainSpec == PlainInit /\ [][PlainNext]_vars

-----------------------------------------------------------------------------
(* Stuffing.                                                               *)

\* The wire form, byte by byte.
Wire(s) ==
  FlattenSeq([i \in DOMAIN s |->
                IF NeedsEscape(s[i]) THEN Escape(s[i]) ELSE << s[i] >>])

\* extend and reduce rewrite a buffer in place (sequence.hpp): the wire form
\* has no SYN in it, reduces to the bytes it came from and has the same
\* checksum, and bytes appended in either form end up the same.
StuffingRoundTrip ==
  unit = "stuffing" =>
    LET plain == Reduced(x)
        wire  == Extend(plain)
    IN  /\ wire.s = Wire(x)
        /\ Syn \notin ToSet(wire.s)
        /\ Reduce(wire) = plain
        /\ Crc(wire) = Crc(plain)
        /\ LogicallyEquals(wire, plain)
        /\ AppendSeq(wire, plain) = Extend(AppendSeq(plain, wire))

-----------------------------------------------------------------------------
(* The grammar of an exchange, over its logical bytes s.                   *)

\* The checksum is that of the wire form.
GoodCrc(s, i, j) ==
  s[j] = CalculateCRC(Wire(SubSeq(s, i, j - 1)), TRUE)

MasterPartAt(s, i, j) ==
  /\ j >= i + 5 /\ j <= Len(s)
  /\ IsMaster(s[i]) /\ IsTarget(s[i + 1])
  /\ ~NeedsEscape(s[i + 2]) /\ ~NeedsEscape(s[i + 3])
  /\ s[i + 4] <= MaxDataBytes /\ j = i + 5 + s[i + 4]
  /\ GoodCrc(s, i, j)

SlavePartAt(s, i, j) ==
  /\ j >= i + 1 /\ j <= Len(s)
  /\ s[i] <= MaxDataBytes /\ j = i + 1 + s[i]
  /\ GoodCrc(s, i, j)

\* Where the part that counts starts, of a part that starts at i, may be
\* refused once and repeated, and is acknowledged at k.
Accepted(s, i, k, PartAt(_, _, _)) ==
  {h \in i..(k - 1) :
     /\ s[k] = Ack
     /\ PartAt(s, h, k - 1)
     /\ \/ h = i
        \/ h > i + 1 /\ s[h - 1] = Nak /\ PartAt(s, i, h - 2)}

Exchange(s) ==
  \/ \E j \in DOMAIN s : MasterPartAt(s, 1, j) /\ s[2] = Broad
  \/ \E k \in DOMAIN s : \E h \in Accepted(s, 1, k, MasterPartAt) :
       /\ Broad \notin {s[2], s[h + 1]}
       /\ TypeOf(s[h + 1]) = "master_slave" =>
            \E l \in DOMAIN s : Accepted(s, k + 1, l, SlavePartAt) # {}

\* The parser (telegram.hpp) accepts exactly the exchanges of the protocol:
\* every part whole and with its own checksum, acknowledged at once or
\* after one repetition, whatever was cut off or follows.
ParseExact ==
  unit = "telegram" =>
    (With(MakeTelegram(x.wire), IsValid)
       <=> With(Reduce(Extended(x.wire)).s, Exchange))

-----------------------------------------------------------------------------
\* A data field (data_types.cpp) is read unless it is not a value of its
\* type, and what is read is written back to the same bytes in either byte
\* order; a number that is written is read back, or read as null if its
\* bytes are the replacement value of the type.
DataRoundTrip ==
  unit = "data" =>
    \A endian \in {"little", "big"} :
      LET m == Meta[x.dt]
          v == Decode(x.dt, x.data, endian)
      IN  /\ v = NoValue <=> ~IsValidData(x.dt, x.data)
          /\ v # NoValue => Encoded(x.dt, v, endian) = x.data
          /\ x.data = << >> /\ m.numeric =>
               \A n \in WholeValues :
                 LET out == Encoded(x.dt, Whole(n), endian)
                 IN  out # << >> =>
                       Decode(x.dt, out, endian) =
                         IF ReadInt(out, m.size, Flip(m, endian)) = m.sentinel
                         THEN Null
                         ELSE IF m.den = 1 THEN Whole(n)
                         ELSE Fixed(n * 1000000)

-----------------------------------------------------------------------------
\* An enhanced client is served by a ring that holds its longest sequence.
Fits(kind) == kind = "enhanced" => Cap >= MaxSequenceLen

\* The ring in front of a socket (client.cpp) holds the newest bytes it was
\* given, in order: dropping the oldest never drops or cuts what was just
\* stored, so at most the oldest two-byte sequence in it is cut.  That is so
\* for regular clients with every ring, and for enhanced clients with every
\* ring but that of one byte, which validate accepts (config_validator.cpp:39)
\* and with which count_ wraps at the first response (client.cpp:436).
OutboundNewest ==
  unit = "outbound" /\ Fits(x.kind) =>
    /\ x.ring.count \in 0..Cap /\ x.ring.head \in 0..(Cap - 1)
    /\ IsSuffix(Contents(x.ring), x.log)
    /\ IsSuffix(x.last, Contents(x.ring))

-----------------------------------------------------------------------------
\* The congestion alarm (bus_monitor.cpp, fetchMetrics) is raised only by a
\* row of calls that all saw a congested bus, of which one came the
\* detection time after a reset or which spans that time.
AlarmSustained ==
  unit = "alarm" /\ x.b.active =>
    /\ x.first # Unset
    /\ x.long \/ x.last - x.first >= Detection

-----------------------------------------------------------------------------
\* After a byte of a telegram that found no ESP32 alarm due or postponed
\* (settled), and until a timer is set by hand again, one node at most
\* generates the SYNs (syn_active_): the generators that were active have
\* given up, and the times that belong to the addresses let one of them
\* begin, whichever of them is switched off.  On a bus of POSIX nodes every
\* telegram byte settles.  A byte that finds such an alarm does not, because
\* the reader leaves it pending (bus_esp.cpp:557): two ESP32 nodes may both
\* go on as generators then, which this property does not cover.
OneGenerator ==
  unit = "syn" /\ x.settled /\ (\A i \in DOMAIN x.node : x.node[i].got = "none") =>
    Cardinality({i \in DOMAIN x.node : x.node[i].on /\ x.node[i].active}) <= 1
==============================================================================
