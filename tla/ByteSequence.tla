---------------------------- MODULE ByteSequence ----------------------------
(***************************************************************************)
(* The byte sequence of a telegram (include/ebus/sequence.hpp) and its     *)
(* checksum (include/ebus/protocol_math.hpp).  A SequenceImpl is a record: *)
(*   s    sequence_, the bytes                                             *)
(*   ext  extended_: the bytes are in wire form, in which SYN and EXT, the *)
(*        two reserved symbols, are written as two bytes                   *)
(* extend and reduce rewrite the buffer in place; so do the operators.     *)
(* SmallByteVector, the storage, is a sequence: malloc does not fail.      *)
(***************************************************************************)
EXTENDS Address, SequencesExt

SequenceType == [s : Seq(Byte), ext : BOOLEAN]

Reduced(s)  == [s |-> s, ext |-> FALSE]
Extended(s) == [s |-> s, ext |-> TRUE]

-----------------------------------------------------------------------------
(* Symbols: byte stuffing of one byte.                                     *)

NeedsEscape(byte) == byte \in {Syn, Ext}

Escape(byte) == << Ext, IF byte = Syn THEN 1 ELSE 0 >>

IsEscape(b1, b2) == b1 = Ext /\ b2 \in {0, 1}

Unescaped(b2) == IF b2 = 1 THEN Syn ELSE Ext

-----------------------------------------------------------------------------
(* protocol_math.hpp: the table of the polynomial 0x9B.                    *)

\* The operator ^ of C on two bytes.
Xor(a, b) ==
  FoldLeft(LAMBDA v, bit : v + bit * ((a \div bit + b \div bit) % 2), 0,
           << 1, 2, 4, 8, 16, 32, 64, 128 >>)

ShiftedOnce(crc) ==
  IF crc >= 128 THEN Xor((2 * crc) % 256, 155) ELSE 2 * crc

crc_table ==
  [index \in Byte |->
     FoldLeft(LAMBDA crc, i : ShiftedOnce(crc), index, [i \in 1..8 |-> i])]

CalcCRC(byte, init) == Xor(crc_table[init], byte)

\* Plausible error: the checksum of the bytes as they are, in either form.
CalculateCRCRaw(data, extended) ==
  FoldLeft(LAMBDA crc, byte : CalcCRC(byte, crc), 0, data)

\* calculateCRC escapes the reserved symbols of a sequence that is not
\* extended; of an extended one it takes the bytes as they are.
CalculateCRC(data, extended) ==
  LET crc[i \in 0..Len(data)] ==
        IF i = 0 THEN 0
        ELSE IF ~extended /\ NeedsEscape(data[i])
        THEN CalcCRC(Escape(data[i])[2], CalcCRC(Ext, crc[i - 1]))
        ELSE CalcCRC(data[i], crc[i - 1])
  IN  crc[Len(data)]

Crc(q) == CalculateCRC(q.s, q.ext)

-----------------------------------------------------------------------------
(***************************************************************************)
(* extend: the buffer grows by the number of reserved symbols and is       *)
(* rewritten from its end; a is the buffer, w the place to write next.     *)
(***************************************************************************)
ExtendStep(acc, i) ==
  LET a == acc.a
      w == acc.w
  IN  IF NeedsEscape(a[i])
      THEN [a |-> [a EXCEPT ![w - 1] = Ext, ![w] = Escape(a[i])[2]], w |-> w - 2]
      ELSE [a |-> [a EXCEPT ![w] = a[i]], w |-> w - 1]

Extend(q) ==
  LET n     == Len(q.s)
      extra == Cardinality({i \in 1..n : NeedsEscape(q.s[i])})
      step[k \in 0..n] ==
        IF k = 0 THEN [a |-> q.s \o [i \in 1..extra |-> 0], w |-> n + extra]
        ELSE ExtendStep(step[k - 1], n + 1 - k)
  IN  IF q.ext THEN q ELSE Extended(step[n].a)

(***************************************************************************)
(* reduce: reads and writes the same buffer from its start; skip says that *)
(* the byte to read was the second of an escape.                           *)
(***************************************************************************)
ReduceStep(acc, i) ==
  LET a == acc.a
      w == acc.w
  IN  IF acc.skip THEN [acc EXCEPT !.skip = FALSE]
      ELSE IF i < Len(a) /\ IsEscape(a[i], a[i + 1])
      THEN [a |-> [a EXCEPT ![w] = Unescaped(a[i + 1])], w |-> w + 1,
            skip |-> TRUE]
      ELSE [a |-> [a EXCEPT ![w] = a[i]], w |-> w + 1, skip |-> FALSE]

Reduce(q) ==
  LET step[i \in 0..Len(q.s)] ==
        IF i = 0 THEN [a |-> q.s, w |-> 1, skip |-> FALSE]
        ELSE ReduceStep(step[i - 1], i)
      end == step[Len(q.s)]
  IN  IF q.ext THEN Reduced(SubSeq(end.a, 1, end.w - 1)) ELSE q

-----------------------------------------------------------------------------
\* The slice of len bytes from index on (counted from 0); len = 0, or past
\* the end, is the rest.
AssignSlice(q, index, len) ==
  LET n == Len(q.s)
  IN  IF index >= n THEN [q EXCEPT !.s = << >>]
      ELSE [q EXCEPT !.s = SubSeq(@, index + 1,
              IF len = 0 \/ index + len > n THEN n ELSE index + len)]

\* append brings the other sequence into the form of this one first.
AppendSeq(q, other) ==
  [q EXCEPT !.s = @ \o (IF q.ext THEN Extend(other) ELSE Reduce(other)).s]

LogicallyEquals(q, other) ==
  IF q.ext = other.ext THEN q.s = other.s
  ELSE Reduce(q).s = Reduce(other).s
=============================================================================
