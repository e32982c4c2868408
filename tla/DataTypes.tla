----------------------------- MODULE DataTypes ------------------------------
(***************************************************************************)
(* The eBUS data types of one and two bytes and the text types (src/ebus/  *)
(* models/data_types.cpp): how bytes become a value and a value bytes.     *)
(* The types of four bytes are left out: their values exceed the integers  *)
(* TLC computes with.                                                      *)
(*                                                                         *)
(* A value is null, an integer, a fixed-point number (an integer in        *)
(* millionths) or a text (its bytes).                                      *)
(***************************************************************************)
EXTENDS Integers, Sequences

None == -1      \* no replacement value

Type(size, numeric, signed, sentinel, reversed, den) ==
  [size |-> size, numeric |-> numeric, signed |-> signed,
   sentinel |-> sentinel, reversed |-> reversed, den |-> den]

\* meta_table.  The scale of a type is 1 / den.
Meta ==
  [BCD     |-> Type(1, TRUE,  FALSE, 255,   FALSE, 1),
   CHAR1   |-> Type(1, FALSE, FALSE, 255,   FALSE, 1),
   CHAR2   |-> Type(2, FALSE, FALSE, 65535, FALSE, 1),
   CHAR3   |-> Type(3, FALSE, FALSE, None,  FALSE, 1),
   DATA1B  |-> Type(1, TRUE,  TRUE,  128,   FALSE, 1),
   DATA1C  |-> Type(1, TRUE,  FALSE, 255,   FALSE, 2),
   DATA2B  |-> Type(2, TRUE,  TRUE,  32768, FALSE, 256),
   DATA2BR |-> Type(2, TRUE,  TRUE,  32768, TRUE,  256),
   DATA2C  |-> Type(2, TRUE,  TRUE,  32768, FALSE, 16),
   DATA2CR |-> Type(2, TRUE,  TRUE,  32768, TRUE,  16),
   HEX1    |-> Type(1, FALSE, FALSE, 255,   FALSE, 1),
   HEX2    |-> Type(2, FALSE, FALSE, 65535, FALSE, 1),
   HEX3    |-> Type(3, FALSE, FALSE, None,  FALSE, 1),
   INT16   |-> Type(2, TRUE,  TRUE,  32768, FALSE, 1),
   INT16R  |-> Type(2, TRUE,  TRUE,  32768, TRUE,  1),
   INT8    |-> Type(1, TRUE,  TRUE,  128,   FALSE, 1),
   UINT16  |-> Type(2, TRUE,  FALSE, 65535, FALSE, 1),
   UINT16R |-> Type(2, TRUE,  FALSE, 65535, TRUE,  1),
   UINT8   |-> Type(1, TRUE,  FALSE, 255,   FALSE, 1)]

DataType == DOMAIN Meta

Null     == [k |-> "null"]
NoValue  == [k |-> "nullopt"]
Whole(v) == [k |-> "int",  v |-> v]
Fixed(v) == [k |-> "fixed", v |-> v]
Text(s)  == [k |-> "text", s |-> s]

-----------------------------------------------------------------------------
(* Integer division of C, and std::round of a quotient.                    *)

Quotient(a, b) == IF a >= 0 THEN a \div b ELSE -((-a) \div b)

HalfUp(a, b)  == a \div b + (IF 2 * (a % b) >= b THEN 1 ELSE 0)
Rounded(a, b) == IF a >= 0 THEN HalfUp(a, b) ELSE -HalfUp(-a, b)

\* fixed_point_scale / den in lowest terms.
ScaleNum(den) == CASE den = 1  -> 1000000 [] den = 2   -> 500000
                   [] den = 16 -> 62500   [] den = 256 -> 15625
ScaleDen(den) == IF den = 256 THEN 4 ELSE 1

-----------------------------------------------------------------------------
\* Whether the high byte comes first.
Flip(m, endian) ==
  IF m.reversed THEN endian = "little" ELSE endian = "big"

\* readInt, unsigned.
ReadInt(data, size, flip) ==
  IF size = 1 THEN data[1]
  ELSE IF flip THEN 256 * data[1] + data[2] ELSE data[1] + 256 * data[2]

WriteInt(v, size, flip) ==
  LET u == v % (IF size = 1 THEN 256 ELSE 65536)
  IN  IF size = 1 THEN << u >>
      ELSE IF flip THEN << u \div 256, u % 256 >>
      ELSE << u % 256, u \div 256 >>

Signed(u, size) ==
  LET half == IF size = 1 THEN 128 ELSE 32768
  IN  IF u >= half THEN u - 2 * half ELSE u

IsBcd(byte) == byte % 16 <= 9 /\ byte \div 16 <= 9

Decode(dt, data, endian) ==
  LET m   == Meta[dt]
      u   == ReadInt(data, m.size, Flip(m, endian))
      raw == IF m.signed THEN Signed(u, m.size) ELSE u
  IN  IF Len(data) < m.size THEN NoValue
      ELSE IF ~m.numeric THEN Text(SubSeq(data, 1, m.size))
      ELSE IF u = m.sentinel THEN Null
      ELSE IF dt = "BCD"
      THEN IF IsBcd(u) THEN Whole((u \div 16) * 10 + (u % 16)) ELSE NoValue
      ELSE IF m.den # 1
      THEN Fixed(Quotient(raw * ScaleNum(m.den), ScaleDen(m.den)))
      ELSE Whole(raw)

IsValidData(dt, data) ==
  /\ Len(data) >= Meta[dt].size
  /\ dt = "BCD" => data[1] = 255 \/ IsBcd(data[1])

-----------------------------------------------------------------------------
\* asInt64; a fixed-point number is rounded, a text is not a number here.
AsInt64(v) ==
  CASE v.k = "int"   -> v.v
    [] v.k = "fixed" -> Quotient(v.v + 500000, 1000000)
    [] OTHER         -> 0

InRange(v, m) ==
  LET span == IF m.size = 1 THEN 256 ELSE 65536
  IN  IF m.signed THEN v \in -(span \div 2)..(span \div 2 - 1)
      ELSE v \in 0..(span - 1)

\* Plausible error: the fixed-point number is cut, not rounded.
UnscaledCut(v, m) ==
  IF v.k = "fixed"
  THEN Quotient(v.v * ScaleDen(m.den), ScaleNum(m.den))
  ELSE AsInt64(v) * m.den

\* The integer that stands for the value on the bus.  The float the code
\* computes it in is exact enough for two bytes.
Unscaled(v, m) ==
  IF v.k = "fixed"
  THEN Rounded(v.v * ScaleDen(m.den), ScaleNum(m.den))
  ELSE AsInt64(v) * m.den

\* encode; the empty sequence is the error.
Encoded(dt, v, endian) ==
  LET m    == Meta[dt]
      flip == Flip(m, endian)
      raw  == Unscaled(v, m)
  IN  IF m.numeric /\ v.k = "null" THEN WriteInt(m.sentinel, m.size, flip)
      ELSE IF ~m.numeric
      THEN IF v.k # "text" THEN << >>
           ELSE [i \in 1..m.size |-> IF i <= Len(v.s) THEN v.s[i] ELSE 0]
      ELSE IF dt = "BCD"
      THEN IF AsInt64(v) \notin 0..99 THEN << >>
           ELSE << (AsInt64(v) \div 10) * 16 + (AsInt64(v) % 10) >>
      ELSE IF InRange(raw, m) THEN WriteInt(raw, m.size, flip) ELSE << >>
=============================================================================
