--------------------------- MODULE TelegramProofs ---------------------------
(***************************************************************************)
(* Byte stuffing and the parser, for byte sequences of every length.  The  *)
(* loops of extend, reduce and calculateCRC are recursive functions: each  *)
(* is taken through its steps by induction over their number.              *)
(***************************************************************************)
EXTENDS PlainUnits, FiniteSetTheorems, SequenceTheorems, WellFoundedInduction, TLAPS

-----------------------------------------------------------------------------
(* Stuffing: sequence.hpp and calculateCRC.                                *)

\* Induction: a set of naturals that holds 0 and successors holds them all.
LEMMA NatSets ==
  ASSUME NEW T \in SUBSET Nat, 0 \in T, \A n \in T : n + 1 \in T
  PROVE  T = Nat
<1> DEFINE R == OpToRel(<, Nat)
           U == Nat \ T
<1>1. ASSUME U # {} PROVE FALSE
  <2>1. IsWellFoundedOn(R, Nat)
    BY NatLessThanWellFounded
  <2>2. U \subseteq Nat
    OBVIOUS
  <2>3. PICK k \in U : \A y \in U : ~(<<y, k>> \in R)
    <3> HIDE DEF R, U
    <3> QED  BY <1>1, <2>1, <2>2, WFMin
  <2>4. k \in Nat /\ k # 0 /\ k - 1 \in Nat /\ k \notin T
    OBVIOUS
  <2>5. <<k - 1, k>> \in R
    BY <2>4 DEF OpToRel
  <2>6. k - 1 \in T
    BY <2>3, <2>4, <2>5
  <2>7. (k - 1) + 1 \in T
    BY <2>6
  <2>8. QED  BY <2>4, <2>7
<1>2. QED  BY <1>1

\* The recursive functions of calculateCRC, extend, reduce and Wire exist.

CrcStep(data, ext, i, v) ==
  IF ~ext /\ NeedsEscape(data[i])
  THEN CalcCRC(Escape(data[i])[2], CalcCRC(Ext, v))
  ELSE CalcCRC(data[i], v)

\* The checksum byte by byte.
LEMMA CrcRuns ==
  ASSUME NEW data, NEW n \in Nat, n = Len(data), NEW ext
  PROVE  \E c : /\ c[0] = 0 /\ c[n] = CalculateCRC(data, ext)
                /\ \A i \in 1..n : c[i] = CrcStep(data, ext, i, c[i - 1])
<1> DEFINE Good(m, c) == c = [i \in 0..m |->
                               IF i = 0 THEN 0
                               ELSE IF ~ext /\ NeedsEscape(data[i])
                               THEN CalcCRC(Escape(data[i])[2], CalcCRC(Ext, c[i - 1]))
                               ELSE CalcCRC(data[i], c[i - 1])]
           Runs(m, c) == c = [i \in 0..m |-> IF i = 0 THEN 0
                                             ELSE CrcStep(data, ext, i, c[i - 1])]
           T == {m \in Nat : \E c : Runs(m, c)}
<1>1. 0 \in T
  <2>1. Runs(0, [i \in 0..0 |-> 0])
    OBVIOUS
  <2>2. QED  BY <2>1
<1>2. ASSUME NEW m \in T PROVE m + 1 \in T
  <2>1. m \in Nat /\ m + 1 \in Nat
    OBVIOUS
  <2>2. PICK c : Runs(m, c)
    BY <1>2
  <2> DEFINE d == [i \in 0..(m + 1) |-> IF i <= m THEN c[i] ELSE CrcStep(data, ext, i, c[m])]
  <2>3. ASSUME NEW i \in 0..(m + 1)
        PROVE  d[i] = IF i = 0 THEN 0 ELSE CrcStep(data, ext, i, d[i - 1])
    <3>1. CASE i <= m
      <4>1. i \in 0..m /\ d[i] = c[i] /\ (i # 0 => i - 1 \in 0..(m + 1) /\ i - 1 <= m)
        BY <2>1, <2>3, <3>1
      <4>2. i # 0 => d[i - 1] = c[i - 1]
        BY <4>1
      <4>3. QED  BY <2>2, <4>1, <4>2
    <3>2. CASE ~(i <= m)
      <4>1. i = m + 1 /\ i - 1 = m /\ i # 0 /\ m \in 0..(m + 1) /\ m <= m
        BY <2>1, <2>3, <3>2
      <4>2. d[m] = c[m] /\ d[i] = CrcStep(data, ext, i, c[m])
        BY <3>2, <4>1
      <4>3. QED  BY <4>1, <4>2
    <3>3. QED  BY <3>1, <3>2
  <2>4. d = [i \in 0..(m + 1) |-> d[i]]
    OBVIOUS
  <2> HIDE DEF d
  <2>5. Runs(m + 1, d)
    BY <2>3, <2>4
  <2>6. QED  BY <2>1, <2>5
<1>3. n \in T
  <2>1. T \in SUBSET Nat
    OBVIOUS
  <2> HIDE DEF T
  <2>2. QED  BY <1>1, <1>2, <2>1, NatSets
<1>4. \E c : Good(n, c)
  <2>1. PICK c : Runs(n, c)
    BY <1>3
  <2>2. Good(n, c)
    BY <2>1 DEF CrcStep
  <2>3. QED  BY <2>2
<1> DEFINE it == CHOOSE c : Good(n, c)
<1>5. Good(n, it)
  <2> HIDE DEF Good
  <2> QED  BY <1>4
<1>6. CalculateCRC(data, ext) = it[n]
  BY ONLY n = Len(data) DEF CalculateCRC
<1> HIDE DEF it
<1>7. it[0] = 0 /\ \A i \in 1..n : it[i] = CrcStep(data, ext, i, it[i - 1])
  BY <1>5 DEF CrcStep
<1>8. QED  BY <1>6, <1>7

\* What a byte becomes on the wire.
OnWire(b) == IF NeedsEscape(b) THEN Escape(b) ELSE << b >>

\* W[i] is the wire form of the first i bytes of s.
Grows(W, s) ==
  /\ W \in [0..Len(s) -> Seq(Byte)]
  /\ W[0] = << >>
  /\ \A i \in 1..Len(s) : W[i] = W[i - 1] \o OnWire(s[i])

\* A byte and its escape are bytes.
LEMMA OnWireType ==
  ASSUME NEW b \in Byte
  PROVE  /\ OnWire(b) \in Seq(Byte)
         /\ ~NeedsEscape(b) => OnWire(b) = << b >>
         /\ NeedsEscape(b) => OnWire(b) = << Ext, Escape(b)[2] >>
         /\ Escape(b)[2] \in {0, 1} /\ {0, 1} \subseteq Byte /\ Ext \in Byte /\ Syn \in Byte
<1>1. Ext \in Byte /\ Syn \in Byte /\ {0, 1} \subseteq Byte
  BY DEF Ext, Syn, Byte
<1>2. Escape(b) = << Ext, Escape(b)[2] >> /\ Escape(b)[2] \in {0, 1}
  BY DEF Escape
<1> DEFINE e == Escape(b)[2]
<1> HIDE DEF e
<1>3. e \in Byte /\ Escape(b) = << Ext, e >>
  BY <1>1, <1>2 DEF e
<1>4. << b >> \in Seq(Byte) /\ << Ext, e >> \in Seq(Byte)
  BY <1>1, <1>3
<1>5. OnWire(b) = IF NeedsEscape(b) THEN << Ext, e >> ELSE << b >>
  BY <1>3 DEF OnWire
<1>6. OnWire(b) \in Seq(Byte)
  BY <1>4, <1>5
<1>7. QED  BY <1>1, <1>2, <1>5, <1>6 DEF e

\* Wire byte by byte.
LEMMA WireGrows ==
  ASSUME NEW s \in Seq(Byte)
  PROVE  \E W : Grows(W, s) /\ W[Len(s)] = Wire(s)
<1> DEFINE n == Len(s)
           seqs == [i \in DOMAIN s |-> IF NeedsEscape(s[i]) THEN Escape(s[i]) ELSE << s[i] >>]
           Good(f) == f = [i \in 1..Len(seqs) |->
                             IF i = 1 THEN seqs[i] ELSE f[i - 1] \o seqs[i]]
           Runs(m, W) == W \in [0..m -> Seq(Byte)] /\ W[0] = << >>
                         /\ \A i \in 1..m : W[i] = W[i - 1] \o OnWire(s[i])
           T == {m \in Nat : m <= n => \E W : Runs(m, W)}
<1>1. n \in Nat /\ \A i \in 1..n : s[i] \in Byte /\ OnWire(s[i]) \in Seq(Byte)
  BY OnWireType
<1>2. Len(seqs) = n /\ seqs \in Seq(Seq(Byte)) /\ \A i \in 1..n : seqs[i] = OnWire(s[i])
  <2>1. DOMAIN s = 1..n
    OBVIOUS
  <2>2. seqs = [i \in 1..n |-> OnWire(s[i])]
    BY <2>1 DEF OnWire
  <2> HIDE DEF seqs, n
  <2>3. seqs \in [1..n -> Seq(Byte)]
    BY <1>1, <2>2
  <2>4. QED  BY <1>1, <2>2, <2>3
<1> HIDE DEF n, seqs
<1>3. 0 \in T
  <2> DEFINE none == << >>
             W == [i \in 0..0 |-> none]
  <2>1. none \in Seq(Byte)
    OBVIOUS
  <2>2. W[0] = << >> /\ \A i \in 1..0 : FALSE
    OBVIOUS
  <2> HIDE DEF none
  <2>3. W \in [0..0 -> Seq(Byte)]
    BY <2>1
  <2> HIDE DEF W
  <2>4. Runs(0, W)
    BY <2>2, <2>3
  <2>5. QED  BY <2>4
<1>4. ASSUME NEW m \in T PROVE m + 1 \in T
  <2>1. SUFFICES ASSUME m + 1 <= n PROVE \E W : Runs(m + 1, W)
    <3>1. m + 1 \in Nat
      OBVIOUS
    <3> HIDE DEF Runs
    <3>2. QED  BY <3>1
  <2>2. m \in Nat /\ m <= n /\ m + 1 \in 1..n
    BY <1>1, <2>1
  <2>3. PICK W : Runs(m, W)
    BY <1>4, <2>2
  <2> DEFINE last == W[m] \o OnWire(s[m + 1])
             V == [i \in 0..(m + 1) |-> IF i <= m THEN W[i] ELSE last]
  <2>4. last \in Seq(Byte)
    <3>1. W[m] \in Seq(Byte) /\ OnWire(s[m + 1]) \in Seq(Byte)
      BY <1>1, <2>2, <2>3
    <3>2. QED  BY <3>1
  <2>5. \A i \in 0..(m + 1) : i <= m => i \in 0..m
    BY <2>2
  <2>6. V \in [0..(m + 1) -> Seq(Byte)]
    <3> HIDE DEF last
    <3> QED  BY <2>3, <2>4, <2>5
  <2>7. V[0] = << >>
    BY <2>2, <2>3
  <2>8. ASSUME NEW i \in 1..(m + 1)
        PROVE  V[i] = V[i - 1] \o OnWire(s[i])
    <3>1. CASE i <= m
      <4>1. /\ i \in 1..m /\ i - 1 \in 0..(m + 1) /\ i - 1 <= m
            /\ i \in 0..(m + 1)
        BY <2>2, <2>8, <3>1
      <4>2. V[i] = W[i] /\ V[i - 1] = W[i - 1]
        BY <3>1, <4>1
      <4> HIDE DEF V
      <4>3. QED  BY <2>3, <4>1, <4>2
    <3>2. CASE ~(i <= m)
      <4>1. i = m + 1 /\ i - 1 = m /\ m \in 0..(m + 1) /\ m <= m /\ i \in 0..(m + 1)
        BY <2>2, <2>8, <3>2
      <4>2. V[i] = last /\ V[m] = W[m]
        BY <3>2, <4>1
      <4> HIDE DEF V
      <4>3. QED  BY <4>1, <4>2
    <3>3. QED  BY <3>1, <3>2
  <2> HIDE DEF V
  <2>9. QED  BY <2>6, <2>7, <2>8
<1>5. PICK W : Runs(n, W)
  <2>1. T \in SUBSET Nat
    OBVIOUS
  <2>2. T = Nat
    <3> HIDE DEF T
    <3> QED  BY <1>3, <1>4, <2>1, NatSets
  <2>3. n \in T
    BY <1>1, <2>2
  <2>4. n <= n
    BY <1>1
  <2>5. QED  BY <2>3, <2>4
<1>6. Grows(W, s)
  BY <1>5 DEF Grows, n
<1>7. CASE n = 0
  <2>1. Wire(s) = << >>
    <3>1. Wire(s) = FlattenSeq(seqs)
      BY DEF Wire, seqs
    <3>2. Len(seqs) = 0 /\ seqs = << >>
      BY <1>2, <1>7
    <3>3. QED  BY <3>1, <3>2 DEF FlattenSeq
  <2>2. QED  BY <1>5, <1>6, <1>7, <2>1 DEF n
<1>8. CASE n # 0
  <2> DEFINE it == CHOOSE f : Good(f)
             g == [i \in 1..n |-> W[i]]
  <2>1. Good(g)
    <3>1. ASSUME NEW i \in 1..n
          PROVE  g[i] = IF i = 1 THEN seqs[i] ELSE g[i - 1] \o seqs[i]
      <4>1. W[i] = W[i - 1] \o seqs[i] /\ seqs[i] \in Seq(Byte)
        BY <1>1, <1>2, <1>5
      <4>2. CASE i = 1
        <5>1. i - 1 = 0
          BY <4>2
        <5>2. W[i] = << >> \o seqs[i]
          BY <1>5, <4>1, <5>1
        <5>3. QED  BY <4>1, <4>2, <5>2
      <4>3. CASE i # 1
        <5>1. i - 1 \in 1..n
          BY <1>1, <4>3
        <5>2. QED  BY <4>1, <4>3, <5>1
      <4>4. QED  BY <4>2, <4>3
    <3>2. g = [i \in 1..n |-> g[i]]
      OBVIOUS
    <3> HIDE DEF g
    <3>3. QED  BY <1>2, <3>1, <3>2
  <2>2. Good(it)
    <3> HIDE DEF Good, g
    <3> QED  BY <2>1
  <2>3. Wire(s) = it[n]
    <3>1. Wire(s) = FlattenSeq(seqs)
      BY DEF Wire, seqs
    <3>2. FlattenSeq(seqs) = it[Len(seqs)]
      BY ONLY <1>2, <1>8 DEF FlattenSeq
    <3>3. QED  BY <1>2, <3>1, <3>2
  <2> HIDE DEF it
  <2>4. \A i \in 1..n : it[i] = IF i = 1 THEN seqs[i] ELSE it[i - 1] \o seqs[i]
    BY <1>2, <2>2
  <2> DEFINE U == {m \in Nat : m + 1 <= n => it[m + 1] = W[m + 1]}
  <2>5. 0 \in U
    <3>1. 1 \in 1..n /\ it[1] = seqs[1] /\ W[1] = W[0] \o seqs[1] /\ seqs[1] \in Seq(Byte)
      BY <1>1, <1>2, <1>5, <1>8, <2>4, SMTT(40)
    <3>2. W[1] = seqs[1]
      BY <1>5, <3>1
    <3>3. QED  BY <3>1, <3>2
  <2>6. ASSUME NEW m \in U PROVE m + 1 \in U
    <3>1. SUFFICES ASSUME m + 1 + 1 <= n PROVE it[m + 1 + 1] = W[m + 1 + 1]
      OBVIOUS
    <3> DEFINE i == m + 1 + 1
    <3>2. m \in Nat /\ m + 1 <= n /\ i \in 1..n /\ i # 1 /\ i - 1 = m + 1
      BY <1>1, <3>1
    <3>3. it[i - 1] = W[i - 1]
      BY <2>6, <3>2
    <3> HIDE DEF i
    <3>4. it[i] = W[i]
      BY <1>2, <1>5, <2>4, <3>2, <3>3
    <3>5. QED  BY <3>4 DEF i
  <2>7. U = Nat
    <3>1. U \in SUBSET Nat
      OBVIOUS
    <3> HIDE DEF U
    <3>2. QED  BY <2>5, <2>6, <3>1, NatSets
  <2>8. it[n] = W[n]
    <3>1. n - 1 \in Nat /\ n - 1 + 1 = n /\ n <= n
      BY <1>1, <1>8
    <3>2. n - 1 \in U
      BY <2>7, <3>1
    <3>3. QED  BY <3>1, <3>2
  <2>9. QED  BY <1>6, <2>3, <2>8 DEF n
<1>9. QED  BY <1>7, <1>8

\* The places of a concatenation.
LEMMA Joined ==
  ASSUME NEW S, NEW a \in Seq(S), NEW b \in Seq(S), NEW c, c = a \o b
  PROVE  /\ c \in Seq(S) /\ Len(c) = Len(a) + Len(b)
         /\ \A j \in 1..Len(a) : c[j] = a[j]
         /\ \A j \in 1..Len(b) : c[Len(a) + j] = b[j]
<1>1. c \in Seq(S) /\ Len(c) = Len(a) + Len(b)
  OBVIOUS
<1>2. ASSUME NEW j \in 1..Len(a) PROVE c[j] = a[j]
  BY <1>2
<1>3. ASSUME NEW j \in 1..Len(b) PROVE c[Len(a) + j] = b[j]
  BY <1>3
<1>4. QED  BY <1>1, <1>2, <1>3

\* The wire a has become b by the byte c.
GrownBy(a, b, c) ==
  /\ a \in Seq(Byte) /\ b \in Seq(Byte)
  /\ \A j \in 1..Len(a) : b[j] = a[j]
  /\ IF NeedsEscape(c)
     THEN /\ Len(b) = Len(a) + 2
          /\ b[Len(a) + 1] = Ext /\ b[Len(a) + 2] = Escape(c)[2]
     ELSE Len(b) = Len(a) + 1 /\ b[Len(a) + 1] = c

\* One more byte on the wire.
LEMMA GrowStep ==
  ASSUME NEW s \in Seq(Byte), NEW W, Grows(W, s), NEW i \in 1..Len(s)
  PROVE  GrownBy(W[i - 1], W[i], s[i])
<1> DEFINE a == W[i - 1]
           b == W[i]
           c == s[i]
           e == Escape(c)[2]
<1>1. a \in Seq(Byte) /\ b \in Seq(Byte) /\ c \in Byte
  <2>1. i - 1 \in 0..Len(s) /\ i \in 0..Len(s)
    OBVIOUS
  <2>2. QED  BY <2>1 DEF Grows
<1>2. b = a \o OnWire(c)
  BY DEF Grows
<1>3. CASE NeedsEscape(c)
  <2> HIDE DEF a, b, c
  <2>1. OnWire(c) = << Ext, e >> /\ Ext \in Byte /\ e \in Byte
    BY <1>1, <1>3, OnWireType
  <2> DEFINE two == << Ext, e >>
  <2> HIDE DEF e
  <2>2. two \in Seq(Byte) /\ Len(two) = 2 /\ two[1] = Ext /\ two[2] = e
    BY <2>1
  <2> HIDE DEF two
  <2>3. b = a \o two
    BY <1>2, <2>1 DEF two
  <2>4. /\ Len(b) = Len(a) + Len(two) /\ \A j \in 1..Len(a) : b[j] = a[j]
        /\ \A j \in 1..Len(two) : b[Len(a) + j] = two[j]
    <3>1. a \in Seq(Byte)
      BY <1>1
    <3>2. two \in Seq(Byte)
      BY <2>2
    <3> DEFINE Bytes == Byte
    <3> HIDE DEF Bytes
    <3>3. a \in Seq(Bytes) /\ two \in Seq(Bytes)
      BY <3>1, <3>2 DEF Bytes
    <3>4. QED  BY ONLY <3>3, <2>3, Joined
  <2>5. Len(b) = Len(a) + 2 /\ b[Len(a) + 1] = two[1] /\ b[Len(a) + 2] = two[2]
    BY <2>2, <2>4
  <2>6. GrownBy(a, b, c)
    BY <1>1, <1>3, <2>2, <2>4, <2>5 DEF GrownBy, e
  <2>7. QED  BY <2>6 DEF a, b, c
<1>4. CASE ~NeedsEscape(c)
  <2> HIDE DEF a, b, c
  <2>1. b = a \o << c >>
    BY <1>1, <1>2, <1>4, OnWireType
  <2>2. Len(b) = Len(a) + 1 /\ b[Len(a) + 1] = c /\ \A j \in 1..Len(a) : b[j] = a[j]
    BY <1>1, <2>1
  <2>3. GrownBy(a, b, c)
    BY <1>1, <1>4, <2>2 DEF GrownBy
  <2>4. QED  BY <2>3 DEF a, b, c
<1>5. QED  BY <1>3, <1>4

\* How many of the first i bytes are reserved symbols.
Reserved(s, i) == Cardinality({j \in 1..i : NeedsEscape(s[j])})

\* The wire form is longer by the number of reserved symbols, and none of
\* its bytes is SYN.
LEMMA GrowLength ==
  ASSUME NEW s \in Seq(Byte), NEW W, Grows(W, s)
  PROVE  \A i \in 0..Len(s) :
           /\ Len(W[i]) = i + Reserved(s, i) /\ Reserved(s, i) \in Nat
           /\ \A j \in 1..Len(W[i]) : W[i][j] # Syn
<1> DEFINE n == Len(s)
           P(i) == /\ Len(W[i]) = i + Reserved(s, i) /\ Reserved(s, i) \in Nat
                   /\ IsFiniteSet({j \in 1..i : NeedsEscape(s[j])})
                   /\ \A j \in 1..Len(W[i]) : W[i][j] # Syn
           T == {i \in Nat : i <= n => P(i)}
<1>1. n \in Nat
  OBVIOUS
<1>2. 0 \in T
  <2>1. {j \in 1..0 : NeedsEscape(s[j])} = {} /\ W[0] = << >> /\ Len(<< >>) = 0
    BY DEF Grows
  <2>2. Reserved(s, 0) = 0 /\ IsFiniteSet({j \in 1..0 : NeedsEscape(s[j])})
    BY <2>1, FS_EmptySet DEF Reserved
  <2>3. Len(W[0]) = 0
    BY <2>1
  <2>4. P(0)
    BY <2>2, <2>3
  <2>5. QED  BY <2>4
<1>3. ASSUME NEW k \in T PROVE k + 1 \in T
  <2> DEFINE i == k + 1
  <2>1. SUFFICES ASSUME i <= n PROVE P(i)
    <3>1. k + 1 \in Nat
      OBVIOUS
    <3> HIDE DEF P
    <3>2. QED  BY <3>1
  <2>2. k \in Nat /\ k <= n /\ i \in 1..n /\ i - 1 = k
    BY <1>1, <2>1
  <2>3. P(k)
    BY <1>3, <2>2
  <2> DEFINE a == W[k]
             b == W[i]
             A == {j \in 1..k : NeedsEscape(s[j])}
             B == {j \in 1..i : NeedsEscape(s[j])}
  <2>4. /\ a \in Seq(Byte) /\ b \in Seq(Byte)
        /\ \A j \in 1..Len(a) : b[j] = a[j]
        /\ IF NeedsEscape(s[i])
           THEN /\ Len(b) = Len(a) + 2
                /\ b[Len(a) + 1] = Ext /\ b[Len(a) + 2] = Escape(s[i])[2]
           ELSE Len(b) = Len(a) + 1 /\ b[Len(a) + 1] = s[i]
    <3>1. GrownBy(W[i - 1], W[i], s[i])
      <4> HIDE DEF i
      <4> QED  BY <2>2, GrowStep DEF n
    <3>2. GrownBy(a, b, s[i])
      BY <2>2, <3>1
    <3> HIDE DEF i, a, b
    <3>3. QED  BY <3>2 DEF GrownBy
  <2>5. B = IF NeedsEscape(s[i]) THEN A \cup {i} ELSE A
    BY <2>2
  <2>6. i \notin A
    BY <2>2
  <2>7. IsFiniteSet(A) /\ Cardinality(A) \in Nat /\ Len(a) = k + Cardinality(A)
    BY <2>3 DEF Reserved
  <2> HIDE DEF a, b, A, B
  <2>8. /\ IsFiniteSet(B)
        /\ Cardinality(B) = IF NeedsEscape(s[i]) THEN Cardinality(A) + 1 ELSE Cardinality(A)
    <3>1. CASE NeedsEscape(s[i])
      <4>1. B = A \cup {i}
        BY <2>5, <3>1
      <4> HIDE DEF i
      <4>2. IsFiniteSet(B) /\ Cardinality(B) = Cardinality(A) + 1
        BY ONLY <2>6, <2>7, <4>1, FS_AddElement
      <4>3. QED  BY <3>1, <4>2
    <3>2. CASE ~NeedsEscape(s[i])
      BY <2>5, <2>7, <3>2
    <3>3. QED  BY <3>1, <3>2
  <2>9. Len(b) = i + Cardinality(B) /\ Cardinality(B) \in Nat
    <3>1. i = k + 1
      OBVIOUS
    <3> HIDE DEF i
    <3>2. CASE NeedsEscape(s[i])
      <4>1. Len(b) = Len(a) + 2 /\ Cardinality(B) = Cardinality(A) + 1
        BY <2>4, <2>8, <3>2
      <4>2. QED  BY ONLY <2>2, <2>7, <3>1, <4>1
    <3>3. CASE ~NeedsEscape(s[i])
      <4>1. Len(b) = Len(a) + 1 /\ Cardinality(B) = Cardinality(A)
        BY <2>4, <2>8, <3>3
      <4>2. QED  BY ONLY <2>2, <2>7, <3>1, <4>1
    <3>4. QED  BY <3>2, <3>3
  <2>10. \A j \in 1..Len(a) : a[j] # Syn
    BY <2>3 DEF a
  <2>11. ASSUME NEW j \in 1..Len(b) PROVE b[j] # Syn
    <3>1. CASE j <= Len(a)
      <4>1. j \in 1..Len(a)
        BY <2>4, <2>11, <3>1
      <4>2. b[j] = a[j]
        BY <2>4, <4>1
      <4>3. QED  BY <2>10, <4>1, <4>2
    <3>2. CASE ~(j <= Len(a))
      <4>1. CASE NeedsEscape(s[i])
        <5>1. j = Len(a) + 1 \/ j = Len(a) + 2
          BY <2>4, <3>2, <4>1
        <5>2. Ext # Syn /\ Escape(s[i])[2] # Syn
          BY DEF Ext, Syn, Escape
        <5>3. QED  BY <2>4, <4>1, <5>1, <5>2
      <4>2. CASE ~NeedsEscape(s[i])
        <5>1. j = Len(a) + 1
          BY <2>4, <3>2, <4>2
        <5>2. s[i] # Syn
          BY <4>2 DEF NeedsEscape
        <5>3. QED  BY <2>4, <4>2, <5>1, <5>2
      <4>3. QED  BY <4>1, <4>2
    <3>3. QED  BY <3>1, <3>2
  <2>12. QED  BY <2>8, <2>9, <2>11 DEF b, B, Reserved
<1>4. T = Nat
  <2>1. T \in SUBSET Nat
    OBVIOUS
  <2> HIDE DEF T
  <2>2. QED  BY <1>2, <1>3, <2>1, NatSets
<1>5. ASSUME NEW i \in 0..n PROVE P(i)
  <2>1. i \in Nat /\ i <= n
    BY <1>1, <1>5
  <2>2. i \in T
    <3> HIDE DEF T
    <3> QED  BY <1>4, <2>1
  <2> HIDE DEF P
  <2>3. QED  BY <2>1, <2>2
<1>6. QED  BY <1>5

\* What is on the wire stays.
LEMMA GrowPrefix ==
  ASSUME NEW s \in Seq(Byte), NEW W, Grows(W, s)
  PROVE  \A i \in 0..Len(s) :
           /\ Len(W[i]) <= Len(W[Len(s)])
           /\ \A j \in 1..Len(W[i]) : W[Len(s)][j] = W[i][j]
<1> DEFINE n == Len(s)
           P(i) == Len(W[i]) <= Len(W[n]) /\ \A j \in 1..Len(W[i]) : W[n][j] = W[i][j]
           T == {k \in Nat : k <= n => P(n - k)}
<1>1. n \in Nat /\ \A i \in 0..n : W[i] \in Seq(Byte) /\ Len(W[i]) \in Nat
  BY DEF Grows
<1>2. 0 \in T
  <2>1. n - 0 = n /\ n \in 0..n
    BY <1>1
  <2>2. P(n)
    BY <1>1, <2>1
  <2>3. QED  BY <2>1, <2>2
<1>3. ASSUME NEW k \in T PROVE k + 1 \in T
  <2>1. SUFFICES ASSUME k + 1 <= n PROVE P(n - (k + 1))
    <3>1. k + 1 \in Nat
      OBVIOUS
    <3> HIDE DEF P
    <3>2. QED  BY <3>1
  <2> DEFINE i == n - k
  <2>2. k \in Nat /\ k <= n /\ i \in 1..n /\ n - (k + 1) = i - 1 /\ i - 1 \in 0..n
    BY <1>1, <2>1
  <2>3. P(i)
    BY <1>3, <2>2
  <2> HIDE DEF i
  <2>4. /\ \A j \in 1..Len(W[i - 1]) : W[i][j] = W[i - 1][j]
        /\ Len(W[i - 1]) <= Len(W[i])
    <3> DEFINE a == W[i - 1]
               b == W[i]
    <3>1. /\ a \in Seq(Byte) /\ b \in Seq(Byte)
          /\ \A j \in 1..Len(a) : b[j] = a[j]
          /\ IF NeedsEscape(s[i])
             THEN /\ Len(b) = Len(a) + 2
                  /\ b[Len(a) + 1] = Ext /\ b[Len(a) + 2] = Escape(s[i])[2]
             ELSE Len(b) = Len(a) + 1 /\ b[Len(a) + 1] = s[i]
      <4>1. GrownBy(a, b, s[i])
        BY <2>2, GrowStep DEF n
      <4> HIDE DEF a, b
      <4>2. QED  BY <4>1 DEF GrownBy
    <3> HIDE DEF a, b
    <3>2. Len(a) <= Len(b)
      BY <3>1
    <3>3. QED  BY <3>1, <3>2 DEF a, b
  <2>5. Len(W[i - 1]) \in Nat /\ Len(W[i]) \in Nat /\ Len(W[n]) \in Nat
    BY <1>1, <2>2
  <2>6. P(i - 1)
    BY <2>3, <2>4, <2>5
  <2>7. QED  BY <2>2, <2>6
<1>4. T = Nat
  <2>1. T \in SUBSET Nat
    OBVIOUS
  <2> HIDE DEF T
  <2>2. QED  BY <1>2, <1>3, <2>1, NatSets
<1>5. ASSUME NEW i \in 0..n PROVE P(i)
  <2>1. n - i \in Nat /\ n - i <= n /\ n - (n - i) = i
    BY <1>1
  <2>2. n - i \in T
    BY <1>4, <2>1
  <2> HIDE DEF P
  <2>3. QED  BY <2>1, <2>2
<1>6. QED  BY <1>5
\* c is the run of extend on q, which has n bytes.
ExtendRun(c, q, n) ==
  /\ c[0] = [a |-> q.s \o [i \in 1..Reserved(q.s, n) |-> 0], w |-> n + Reserved(q.s, n)]
  /\ Extend(q) = Extended(c[n].a)
  /\ \A i \in 1..n : c[i] = ExtendStep(c[i - 1], n + 1 - i)

\* extend, one byte of the buffer after the other.
LEMMA ExtendRuns ==
  ASSUME NEW q, NEW n \in Nat, n = Len(q.s), q.ext = FALSE
  PROVE  \E c : ExtendRun(c, q, n)
<1> DEFINE first == [a |-> q.s \o [i \in 1..Reserved(q.s, n) |-> 0], w |-> n + Reserved(q.s, n)]
           Good(m, c) == c = [i \in 0..m |-> IF i = 0 THEN first
                                             ELSE ExtendStep(c[i - 1], n + 1 - i)]
           T == {m \in Nat : \E c : Good(m, c)}
<1> HIDE DEF first
<1>1. 0 \in T
  <2>1. Good(0, [i \in 0..0 |-> first])
    OBVIOUS
  <2>2. QED  BY <2>1
<1>2. ASSUME NEW m \in T PROVE m + 1 \in T
  <2>1. m \in Nat /\ m + 1 \in Nat
    OBVIOUS
  <2>2. PICK c : Good(m, c)
    BY <1>2
  <2> DEFINE d == [i \in 0..(m + 1) |-> IF i <= m THEN c[i] ELSE ExtendStep(c[m], n + 1 - i)]
  <2>3. ASSUME NEW i \in 0..(m + 1)
        PROVE  d[i] = IF i = 0 THEN first ELSE ExtendStep(d[i - 1], n + 1 - i)
    <3>1. CASE i <= m
      <4>1. i \in 0..m /\ d[i] = c[i] /\ (i # 0 => i - 1 \in 0..(m + 1) /\ i - 1 <= m)
        BY <2>1, <2>3, <3>1
      <4>2. i # 0 => d[i - 1] = c[i - 1]
        BY <4>1
      <4>3. QED  BY <2>2, <4>1, <4>2
    <3>2. CASE ~(i <= m)
      <4>1. i = m + 1 /\ i - 1 = m /\ i # 0 /\ m \in 0..(m + 1) /\ m <= m
        BY <2>1, <2>3, <3>2
      <4>2. d[m] = c[m] /\ d[i] = ExtendStep(c[m], n + 1 - i)
        BY <3>2, <4>1
      <4>3. QED  BY <4>1, <4>2
    <3>3. QED  BY <3>1, <3>2
  <2>4. d = [i \in 0..(m + 1) |-> d[i]]
    OBVIOUS
  <2> HIDE DEF d
  <2>5. Good(m + 1, d)
    BY <2>3, <2>4
  <2>6. QED  BY <2>1, <2>5
<1>3. n \in T
  <2>1. T \in SUBSET Nat
    OBVIOUS
  <2> HIDE DEF T
  <2>2. QED  BY <1>1, <1>2, <2>1, NatSets
<1> DEFINE it == CHOOSE c : Good(n, c)
<1>4. Good(n, it)
  <2>1. \E c : Good(n, c)
    BY <1>3
  <2> HIDE DEF Good
  <2>2. QED  BY <2>1
<1>5. Extend(q) = Extended(it[n].a)
  BY ONLY n = Len(q.s), q.ext = FALSE DEF Extend, Reserved, first
<1> HIDE DEF it
<1>6. it[0] = first
  <2>1. 0 \in 0..n
    OBVIOUS
  <2>2. QED  BY <1>4, <2>1
<1>7. ASSUME NEW i \in 1..n PROVE it[i] = ExtendStep(it[i - 1], n + 1 - i)
  <2>1. i \in 0..n /\ i # 0
    BY <1>7
  <2>2. QED  BY <1>4, <2>1
<1>8. ExtendRun(it, q, n)
  BY <1>5, <1>6, <1>7 DEF ExtendRun, first
<1>9. QED  BY <1>8

\* c is the run of reduce on q, which has n bytes.
ReduceRun(c, q, n) ==
  /\ c[0] = [a |-> q.s, w |-> 1, skip |-> FALSE]
  /\ Reduce(q) = Reduced(SubSeq(c[n].a, 1, c[n].w - 1))
  /\ \A i \in 1..n : c[i] = ReduceStep(c[i - 1], i)

\* reduce, one byte of the buffer after the other.
LEMMA ReduceRuns ==
  ASSUME NEW q, NEW n \in Nat, n = Len(q.s), q.ext = TRUE
  PROVE  \E c : ReduceRun(c, q, n)
<1> DEFINE first == [a |-> q.s, w |-> 1, skip |-> FALSE]
           Good(m, c) == c = [i \in 0..m |-> IF i = 0 THEN first
                                             ELSE ReduceStep(c[i - 1], i)]
           T == {m \in Nat : \E c : Good(m, c)}
<1> HIDE DEF first
<1>1. 0 \in T
  <2>1. Good(0, [i \in 0..0 |-> first])
    OBVIOUS
  <2>2. QED  BY <2>1
<1>2. ASSUME NEW m \in T PROVE m + 1 \in T
  <2>1. m \in Nat /\ m + 1 \in Nat
    OBVIOUS
  <2>2. PICK c : Good(m, c)
    BY <1>2
  <2> DEFINE d == [i \in 0..(m + 1) |-> IF i <= m THEN c[i] ELSE ReduceStep(c[m], i)]
  <2>3. ASSUME NEW i \in 0..(m + 1)
        PROVE  d[i] = IF i = 0 THEN first ELSE ReduceStep(d[i - 1], i)
    <3>1. CASE i <= m
      <4>1. i \in 0..m /\ d[i] = c[i] /\ (i # 0 => i - 1 \in 0..(m + 1) /\ i - 1 <= m)
        BY <2>1, <2>3, <3>1
      <4>2. i # 0 => d[i - 1] = c[i - 1]
        BY <4>1
      <4>3. QED  BY <2>2, <4>1, <4>2
    <3>2. CASE ~(i <= m)
      <4>1. i = m + 1 /\ i - 1 = m /\ i # 0 /\ m \in 0..(m + 1) /\ m <= m
        BY <2>1, <2>3, <3>2
      <4>2. d[m] = c[m] /\ d[i] = ReduceStep(c[m], i)
        BY <3>2, <4>1
      <4>3. QED  BY <4>1, <4>2
    <3>3. QED  BY <3>1, <3>2
  <2>4. d = [i \in 0..(m + 1) |-> d[i]]
    OBVIOUS
  <2> HIDE DEF d
  <2>5. Good(m + 1, d)
    BY <2>3, <2>4
  <2>6. QED  BY <2>1, <2>5
<1>3. n \in T
  <2>1. T \in SUBSET Nat
    OBVIOUS
  <2> HIDE DEF T
  <2>2. QED  BY <1>1, <1>2, <2>1, NatSets
<1> DEFINE it == CHOOSE c : Good(n, c)
<1>4. Good(n, it)
  <2>1. \E c : Good(n, c)
    BY <1>3
  <2> HIDE DEF Good
  <2>2. QED  BY <2>1
<1>5. Reduce(q) = Reduced(SubSeq(it[n].a, 1, it[n].w - 1))
  BY ONLY n = Len(q.s), q.ext = TRUE DEF Reduce, first
<1> HIDE DEF it
<1>6. it[0] = first
  <2>1. 0 \in 0..n
    OBVIOUS
  <2>2. QED  BY <1>4, <2>1
<1>7. ASSUME NEW i \in 1..n PROVE it[i] = ReduceStep(it[i - 1], i)
  <2>1. i \in 0..n /\ i # 0
    BY <1>7
  <2>2. QED  BY <1>4, <2>1
<1>8. ReduceRun(it, q, n)
  BY <1>5, <1>6, <1>7 DEF ReduceRun, first
<1>9. QED  BY <1>8

\* p[i] is the place on the wire, w, up to which the first i bytes of s go.
Marked(s, w, p) ==
  /\ s \in Seq(Byte) /\ w \in Seq(Byte)
  /\ p \in [0..Len(s) -> Nat]
  /\ p[0] = 0 /\ p[Len(s)] = Len(w)
  /\ \A i \in 0..Len(s) : p[i] >= i /\ p[i] <= Len(w)
  /\ \A i \in 1..Len(s) :
       IF NeedsEscape(s[i])
       THEN /\ p[i] = p[i - 1] + 2
            /\ w[p[i - 1] + 1] = Ext /\ w[p[i]] = Escape(s[i])[2]
       ELSE p[i] = p[i - 1] + 1 /\ w[p[i]] = s[i]

\* The wire form has such marks, is longer by the reserved symbols and has
\* no SYN.
LEMMA WireMarked ==
  ASSUME NEW s \in Seq(Byte)
  PROVE  \E p : /\ Marked(s, Wire(s), p)
                /\ Len(Wire(s)) = Len(s) + Reserved(s, Len(s)) /\ Reserved(s, Len(s)) \in Nat
                /\ \A j \in 1..Len(Wire(s)) : Wire(s)[j] # Syn
<1> DEFINE n == Len(s)
           w == Wire(s)
<1>1. n \in Nat /\ n \in 0..n /\ 0 \in 0..n
  OBVIOUS
<1>2. PICK W : Grows(W, s) /\ W[n] = w
  BY WireGrows
<1>3. W \in [0..n -> Seq(Byte)] /\ W[0] = << >>
  BY <1>2 DEF Grows
<1> HIDE DEF w
<1>4. \A i \in 0..n : /\ Len(W[i]) = i + Reserved(s, i) /\ Reserved(s, i) \in Nat
                      /\ \A j \in 1..Len(W[i]) : W[i][j] # Syn
  BY <1>2, GrowLength
<1>5. \A i \in 0..n : Len(W[i]) <= Len(w) /\ \A j \in 1..Len(W[i]) : w[j] = W[i][j]
  BY <1>2, GrowPrefix
<1>6. w \in Seq(Byte) /\ Len(w) \in Nat
  BY <1>1, <1>2, <1>3
<1> DEFINE p == [i \in 0..n |-> Len(W[i])]
<1>7. p \in [0..n -> Nat] /\ p[0] = 0 /\ p[n] = Len(w)
  <2>1. \A i \in 0..n : Len(W[i]) \in Nat
    BY <1>3
  <2>2. Len(W[0]) = 0
    BY <1>3
  <2>3. QED  BY <1>1, <1>2, <2>1, <2>2
<1>8. ASSUME NEW i \in 0..n PROVE p[i] >= i /\ p[i] <= Len(w)
  BY <1>4, <1>5, <1>8
<1>9. ASSUME NEW i \in 1..n
      PROVE  IF NeedsEscape(s[i])
             THEN /\ p[i] = p[i - 1] + 2
                  /\ w[p[i - 1] + 1] = Ext /\ w[p[i]] = Escape(s[i])[2]
             ELSE p[i] = p[i - 1] + 1 /\ w[p[i]] = s[i]
  <2> DEFINE a == W[i - 1]
             b == W[i]
  <2>1. /\ a \in Seq(Byte) /\ b \in Seq(Byte)
        /\ IF NeedsEscape(s[i])
           THEN /\ Len(b) = Len(a) + 2
                /\ b[Len(a) + 1] = Ext /\ b[Len(a) + 2] = Escape(s[i])[2]
           ELSE Len(b) = Len(a) + 1 /\ b[Len(a) + 1] = s[i]
    <3>1. GrownBy(a, b, s[i])
      BY <1>2, GrowStep
    <3> HIDE DEF a, b
    <3>2. QED  BY <3>1 DEF GrownBy
  <2>2. i \in 0..n /\ i - 1 \in 0..n
    BY <1>1
  <2>3. p[i] = Len(b) /\ p[i - 1] = Len(a)
    BY <2>2
  <2>4. \A j \in 1..Len(b) : w[j] = b[j]
    BY <1>5, <2>2
  <2>5. Len(a) \in Nat /\ Len(b) \in Nat
    BY <2>1
  <2> HIDE DEF a, b, p
  <2>6. CASE NeedsEscape(s[i])
    <3>1. Len(b) = Len(a) + 2 /\ b[Len(a) + 1] = Ext /\ b[Len(b)] = Escape(s[i])[2]
      BY <2>1, <2>6
    <3>2. Len(a) + 1 \in 1..Len(b) /\ Len(b) \in 1..Len(b)
      BY <2>5, <3>1
    <3>3. w[Len(a) + 1] = Ext /\ w[Len(b)] = Escape(s[i])[2]
      BY <2>4, <3>1, <3>2
    <3>4. QED  BY <2>3, <2>6, <3>1, <3>3
  <2>7. CASE ~NeedsEscape(s[i])
    <3>1. Len(b) = Len(a) + 1 /\ b[Len(b)] = s[i]
      BY <2>1, <2>7
    <3>2. Len(b) \in 1..Len(b)
      BY <2>5, <3>1
    <3>3. w[Len(b)] = s[i]
      BY <2>4, <3>1, <3>2
    <3>4. QED  BY <2>3, <2>7, <3>1, <3>3
  <2>8. QED  BY <2>6, <2>7
<1> HIDE DEF p
<1>10. Marked(s, w, p)
  BY <1>6, <1>7, <1>8, <1>9 DEF Marked
<1>11. Len(w) = n + Reserved(s, n) /\ Reserved(s, n) \in Nat /\ \A j \in 1..Len(w) : w[j] # Syn
  BY <1>1, <1>2, <1>4
<1>12. QED  BY <1>10, <1>11 DEF w

\* The buffer of extend when the first i bytes are still to be written: the
\* bytes to read are in place, and behind the mark of byte i is the wire form.
Extending(s, w, p, i, acc) ==
  /\ acc.w = p[i]
  /\ acc.a \in [1..Len(w) -> Byte]
  /\ \A j \in 1..i : acc.a[j] = s[j]
  /\ \A j \in 1..Len(w) : j > p[i] => acc.a[j] = w[j]

\* Writing a byte does not overwrite one that is still to be read.
LEMMA ExtendOne ==
  ASSUME NEW s, NEW w, NEW p, Marked(s, w, p), NEW i \in 1..Len(s),
         NEW acc, Extending(s, w, p, i, acc)
  PROVE  Extending(s, w, p, i - 1, ExtendStep(acc, i))
<1> DEFINE m == Len(w)
           a == acc.a
           u == p[i]
           t == p[i - 1]
           e == Escape(s[i])[2]
           r == ExtendStep(acc, i)
<1>1. i \in Nat /\ i >= 1 /\ Len(s) \in Nat /\ m \in Nat /\ i - 1 \in 0..Len(s) /\ i \in 0..Len(s)
  BY DEF Marked
<1>2. u \in Nat /\ t \in Nat /\ u <= m /\ t >= i - 1
  BY <1>1 DEF Marked
<1>3. s[i] \in Byte
  BY DEF Marked
<1>4. Ext \in Byte /\ e \in Byte
  BY <1>3, OnWireType
<1>5. a \in [1..m -> Byte] /\ acc.w = u /\ \A j \in 1..m : j > u => a[j] = w[j]
  BY DEF Extending
<1>6. a[i] = s[i] /\ \A j \in 1..(i - 1) : a[j] = s[j]
  BY <1>1 DEF Extending
<1>7. CASE NeedsEscape(s[i])
  <2>1. u = t + 2 /\ w[t + 1] = Ext /\ w[u] = e
    BY <1>7 DEF Marked
  <2>2. r = [a |-> [a EXCEPT ![u - 1] = Ext, ![u] = e], w |-> u - 2]
    BY <1>5, <1>6, <1>7 DEF ExtendStep
  <2> HIDE DEF r, a, u, t, e, m
  <2> DEFINE b == [a EXCEPT ![u - 1] = Ext, ![u] = e]
  <2>3. r.a = b /\ r.w = t
    BY <1>2, <2>1, <2>2
  <2>4. b \in [1..m -> Byte]
    BY <1>4, <1>5
  <2>5. u - 1 \in 1..m /\ u \in 1..m /\ u - 1 # u /\ u - 1 = t + 1
    BY <1>1, <1>2, <2>1
  <2>6. b[u - 1] = Ext /\ b[u] = e /\ \A j \in 1..m : j # u /\ j # u - 1 => b[j] = a[j]
    BY <1>5, <2>5
  <2> HIDE DEF b
  <2>7. ASSUME NEW j \in 1..(i - 1) PROVE b[j] = s[j]
    <3>1. j \in 1..m /\ j # u /\ j # u - 1
      BY <1>1, <1>2, <2>1, <2>7
    <3>2. QED  BY <1>6, <2>6, <2>7, <3>1
  <2>8. ASSUME NEW j \in 1..m, j > t PROVE b[j] = w[j]
    <3>1. j = u - 1 \/ j = u \/ j > u
      BY <1>1, <1>2, <2>1, <2>8
    <3>2. CASE j > u
      <4>1. j # u /\ j # u - 1
        BY <1>1, <1>2, <3>2
      <4>2. QED  BY <1>5, <2>6, <2>8, <3>2, <4>1
    <3>3. QED  BY <2>1, <2>5, <2>6, <3>1, <3>2
  <2>9. QED  BY <2>3, <2>4, <2>7, <2>8 DEF Extending, m, t, r
<1>8. CASE ~NeedsEscape(s[i])
  <2>1. u = t + 1 /\ w[u] = s[i]
    BY <1>8 DEF Marked
  <2>2. r = [a |-> [a EXCEPT ![u] = s[i]], w |-> u - 1]
    BY <1>5, <1>6, <1>8 DEF ExtendStep
  <2> HIDE DEF r, a, u, t, e, m
  <2> DEFINE b == [a EXCEPT ![u] = s[i]]
  <2>3. r.a = b /\ r.w = t
    BY <1>2, <2>1, <2>2
  <2>4. b \in [1..m -> Byte]
    BY <1>3, <1>5
  <2>5. u \in 1..m
    BY <1>1, <1>2, <2>1
  <2>6. b[u] = s[i] /\ \A j \in 1..m : j # u => b[j] = a[j]
    BY <1>5, <2>5
  <2> HIDE DEF b
  <2>7. ASSUME NEW j \in 1..(i - 1) PROVE b[j] = s[j]
    <3>1. j \in 1..m /\ j # u
      BY <1>1, <1>2, <2>1, <2>7
    <3>2. QED  BY <1>6, <2>6, <2>7, <3>1
  <2>8. ASSUME NEW j \in 1..m, j > t PROVE b[j] = w[j]
    <3>1. j = u \/ (j > u /\ j # u)
      BY <1>1, <1>2, <2>1, <2>8
    <3>2. QED  BY <1>5, <2>1, <2>6, <2>8, <3>1
  <2>9. QED  BY <2>3, <2>4, <2>7, <2>8 DEF Extending, m, t, r
<1>9. QED  BY <1>7, <1>8

\* extend, in place, makes the wire form.
LEMMA ExtendIsWire ==
  ASSUME NEW s \in Seq(Byte)
  PROVE  Extend(Reduced(s)) = Extended(Wire(s))
<1> DEFINE q == Reduced(s)
           n == Len(s)
           w == Wire(s)
           m == Len(w)
           r == Reserved(s, n)
<1>1. q.s = s /\ q.ext = FALSE /\ n \in Nat
  BY DEF Reduced
<1>2. PICK p : Marked(s, w, p) /\ m = n + r /\ r \in Nat
  BY WireMarked
<1> HIDE DEF w, r
<1>3. w \in Seq(Byte) /\ m \in Nat /\ p[0] = 0 /\ p[n] = m
  BY <1>2 DEF Marked
<1>4. PICK c : /\ c[0] = [a |-> s \o [i \in 1..r |-> 0], w |-> n + r]
               /\ Extend(q) = Extended(c[n].a)
               /\ \A k \in 1..n : c[k] = ExtendStep(c[k - 1], n + 1 - k)
  <2>1. n = Len(q.s)
    BY <1>1
  <2> HIDE DEF q, n
  <2>2. PICK c : ExtendRun(c, q, n)
    BY <1>1, <2>1, ExtendRuns
  <2>3. QED  BY <1>1, <2>2 DEF ExtendRun, r
<1> HIDE DEF q
<1> DEFINE P(k) == Extending(s, w, p, n - k, c[k])
           T == {k \in Nat : k <= n => P(k)}
<1>5. 0 \in T
  <2> DEFINE z == [i \in 1..r |-> 0]
             a == s \o z
  <2>1. 0 \in Byte
    BY DEF Byte
  <2>2. z \in Seq(Byte) /\ Len(z) = r
    BY <1>2, <2>1
  <2> HIDE DEF z
  <2>3. a \in Seq(Byte) /\ Len(a) = m /\ \A j \in 1..n : a[j] = s[j]
    BY <1>1, <1>2, <2>2
  <2>4. c[0].a = a /\ c[0].w = m
    BY <1>2, <1>4 DEF z
  <2> HIDE DEF a
  <2>5. a \in [1..m -> Byte]
    BY <2>3
  <2>6. n - 0 = n /\ ~\E j \in 1..m : j > m
    BY <1>1, <1>3
  <2>7. P(0)
    BY <1>3, <2>3, <2>4, <2>5, <2>6 DEF Extending
  <2>8. QED  BY <2>7
<1>6. ASSUME NEW k \in T PROVE k + 1 \in T
  <2>1. SUFFICES ASSUME k + 1 <= n PROVE P(k + 1)
    <3>1. k + 1 \in Nat
      OBVIOUS
    <3> HIDE DEF P
    <3>2. QED  BY <3>1
  <2> DEFINE i == n - k
  <2>2. /\ k \in Nat /\ k <= n /\ i \in 1..n /\ n - (k + 1) = i - 1
        /\ k + 1 \in 1..n /\ n + 1 - (k + 1) = i /\ (k + 1) - 1 = k
    BY <1>1, <2>1
  <2>3. Extending(s, w, p, i, c[k])
    BY <1>6, <2>2
  <2>4. c[k + 1] = ExtendStep(c[k], i)
    BY <1>4, <2>2
  <2> DEFINE acc == c[k]
  <2> HIDE DEF i, acc
  <2>5. Extending(s, w, p, i - 1, ExtendStep(acc, i))
    <3>1. Extending(s, w, p, i, acc)
      BY <2>3 DEF acc
    <3>2. i \in 1..Len(s)
      BY <2>2
    <3>3. QED  BY ONLY <1>2, <3>1, <3>2, ExtendOne
  <2>6. QED  BY <2>2, <2>4, <2>5 DEF acc
<1>7. P(n)
  <2>1. T \in SUBSET Nat
    OBVIOUS
  <2>2. n \in T
    <3> HIDE DEF T
    <3> QED  BY <1>1, <1>5, <1>6, <2>1, NatSets
  <2>3. n <= n
    BY <1>1
  <2> HIDE DEF P
  <2>4. QED  BY <2>2, <2>3
<1>8. c[n].a = w
  <2> DEFINE a == c[n].a
  <2>1. n - n = 0
    BY <1>1
  <2>2. a \in [1..m -> Byte] /\ \A j \in 1..m : j > 0 => a[j] = w[j]
    BY <1>3, <1>7, <2>1 DEF Extending
  <2> HIDE DEF a
  <2>3. w \in [1..m -> Byte] /\ \A j \in 1..m : j > 0
    BY <1>3
  <2>4. a = w
    BY <2>2, <2>3
  <2>5. QED  BY <2>4 DEF a
<1>9. QED  BY <1>4, <1>8 DEF q, w

\* The buffer of reduce when the wire form of the first i bytes is read.
Reducing(s, w, p, i, acc) ==
  /\ acc.skip = FALSE /\ acc.w = i + 1
  /\ acc.a \in [1..Len(w) -> Byte]
  /\ \A j \in 1..i : acc.a[j] = s[j]
  /\ \A j \in 1..Len(w) : j > p[i] => acc.a[j] = w[j]

\* Writing a byte into the buffer, at place i, keeps what is still to be read.
LEMMA ReduceWrite ==
  ASSUME NEW s, NEW w, NEW p, Marked(s, w, p), NEW i \in 1..Len(s),
         NEW acc, Reducing(s, w, p, i - 1, acc)
  PROVE  LET b == [acc.a EXCEPT ![i] = s[i]]
         IN  /\ b \in [1..Len(w) -> Byte]
             /\ \A j \in 1..i : b[j] = s[j]
             /\ \A j \in 1..Len(w) : j > p[i] => b[j] = w[j]
<1> DEFINE m == Len(w)
           a == acc.a
           u == p[i]
           t == p[i - 1]
           b == [a EXCEPT ![i] = s[i]]
<1>1. /\ i \in Nat /\ i >= 1 /\ i - 1 + 1 = i /\ Len(s) \in Nat /\ m \in Nat
      /\ i - 1 \in 0..Len(s) /\ i \in 0..Len(s)
  BY DEF Marked
<1>2. u \in Nat /\ t \in Nat /\ u <= m /\ u >= i /\ t < u
  <2>1. u \in Nat /\ t \in Nat /\ u <= m /\ u >= i
    BY <1>1 DEF Marked
  <2>2. u = t + 1 \/ u = t + 2
    BY DEF Marked
  <2> HIDE DEF u, t, m
  <2>3. QED  BY <2>1, <2>2
<1>3. s[i] \in Byte /\ i \in 1..m
  BY <1>1, <1>2 DEF Marked
<1>4. /\ a \in [1..m -> Byte]
      /\ \A j \in 1..(i - 1) : a[j] = s[j]
      /\ \A j \in 1..m : j > t => a[j] = w[j]
  BY DEF Reducing
<1> HIDE DEF a, u, t, m
<1>5. b \in [1..m -> Byte] /\ b[i] = s[i] /\ \A j \in 1..m : j # i => b[j] = a[j]
  BY <1>3, <1>4
<1> HIDE DEF b
<1>6. ASSUME NEW j \in 1..i PROVE b[j] = s[j]
  <2>1. CASE j = i
    BY <1>5, <2>1
  <2>2. CASE j # i
    <3>1. j \in 1..(i - 1) /\ j \in 1..m
      BY <1>1, <1>2, <1>6, <2>2
    <3>2. QED  BY <1>4, <1>5, <2>2, <3>1
  <2>3. QED  BY <2>1, <2>2
<1>7. ASSUME NEW j \in 1..m, j > u PROVE b[j] = w[j]
  <2>1. j > t /\ j # i
    BY <1>1, <1>2, <1>7
  <2>2. QED  BY <1>4, <1>5, <1>7, <2>1
<1>8. QED  BY <1>5, <1>6, <1>7 DEF a, b, m, u

\* reduce reads a byte that is not an escape in one step.
LEMMA ReducePlain ==
  ASSUME NEW s, NEW w, NEW p, Marked(s, w, p), NEW i \in 1..Len(s),
         NEW acc, Reducing(s, w, p, i - 1, acc), ~NeedsEscape(s[i])
  PROVE  Reducing(s, w, p, i, ReduceStep(acc, p[i]))
<1> DEFINE m == Len(w)
           a == acc.a
           u == p[i]
           t == p[i - 1]
           b == [a EXCEPT ![i] = s[i]]
           r == ReduceStep(acc, u)
<1>1. /\ i \in Nat /\ i >= 1 /\ i - 1 + 1 = i /\ Len(s) \in Nat /\ m \in Nat
      /\ i - 1 \in 0..Len(s) /\ i \in 0..Len(s)
  BY DEF Marked
<1>2. u \in Nat /\ t \in Nat /\ u <= m /\ u = t + 1 /\ w[u] = s[i] /\ s[i] \in Byte
  BY <1>1 DEF Marked
<1>3. acc.skip = FALSE /\ acc.w = i /\ \A j \in 1..m : j > t => a[j] = w[j]
  BY <1>1 DEF Reducing
<1>4. a[u] = s[i]
  <2>1. u \in 1..m /\ u > t
    <3> HIDE DEF u, t, m
    <3> QED  BY <1>1, <1>2
  <2>2. QED  BY <1>2, <1>3, <2>1
<1>5. ~IsEscape(a[u], a[u + 1])
  BY <1>4 DEF IsEscape, NeedsEscape
<1>6. r = [a |-> b, w |-> i + 1, skip |-> FALSE]
  BY <1>3, <1>4, <1>5 DEF ReduceStep
<1>7. /\ b \in [1..m -> Byte]
      /\ \A j \in 1..i : b[j] = s[j]
      /\ \A j \in 1..m : j > u => b[j] = w[j]
  BY ReduceWrite
<1> HIDE DEF b, r, m
<1>8. r.a = b /\ r.w = i + 1 /\ r.skip = FALSE
  BY <1>6
<1>9. QED  BY <1>7, <1>8 DEF Reducing, r, m

\* ... and an escape in two, of which the second only passes over a byte.
LEMMA ReduceEscape ==
  ASSUME NEW s, NEW w, NEW p, Marked(s, w, p), NEW i \in 1..Len(s),
         NEW acc, Reducing(s, w, p, i - 1, acc), NeedsEscape(s[i])
  PROVE  Reducing(s, w, p, i, ReduceStep(ReduceStep(acc, p[i - 1] + 1), p[i]))
<1> DEFINE m == Len(w)
           a == acc.a
           u == p[i]
           t == p[i - 1]
           v == t + 1
           e == Escape(s[i])[2]
           b == [a EXCEPT ![i] = s[i]]
           o == ReduceStep(acc, v)
           r == ReduceStep(o, u)
<1>1. /\ i \in Nat /\ i >= 1 /\ i - 1 + 1 = i /\ Len(s) \in Nat /\ m \in Nat
      /\ i - 1 \in 0..Len(s) /\ i \in 0..Len(s)
  BY DEF Marked
<1>2. /\ u \in Nat /\ t \in Nat /\ u <= m /\ u = t + 2 /\ w[v] = Ext /\ w[u] = e
      /\ s[i] \in Byte
  <2>1. p[i] = p[i - 1] + 2 /\ w[p[i - 1] + 1] = Ext /\ w[p[i]] = Escape(s[i])[2]
    BY DEF Marked
  <2>2. p[i] \in Nat /\ p[i - 1] \in Nat /\ p[i] <= m /\ s[i] \in Byte
    BY <1>1 DEF Marked
  <2>3. QED  BY <2>1, <2>2
<1>3. /\ acc.skip = FALSE /\ acc.w = i /\ a \in [1..m -> Byte]
      /\ \A j \in 1..m : j > t => a[j] = w[j]
  <2>1. acc.w = (i - 1) + 1 /\ acc.skip = FALSE /\ a \in [1..m -> Byte]
    BY DEF Reducing
  <2>2. \A j \in 1..m : j > t => a[j] = w[j]
    BY DEF Reducing
  <2>3. QED  BY <1>1, <2>1, <2>2
<1>4. v \in 1..m /\ v > t /\ u \in 1..m /\ u > t /\ v + 1 = u /\ v < m
  <2> HIDE DEF u, t, m
  <2> QED  BY <1>1, <1>2
<1>5. a[v] = Ext /\ a[u] = e /\ Len(a) = m
  BY <1>1, <1>2, <1>3, <1>4
<1>6. e \in {0, 1} /\ Unescaped(e) = s[i]
  BY DEF Escape, Unescaped, NeedsEscape
<1>7. v < Len(a) /\ IsEscape(a[v], a[v + 1]) /\ Unescaped(a[v + 1]) = s[i]
  BY <1>4, <1>5, <1>6 DEF IsEscape
<1>8. o = [a |-> b, w |-> i + 1, skip |-> TRUE]
  <2> HIDE DEF v, a
  <2> QED  BY <1>3, <1>7 DEF ReduceStep, a
<1>9. /\ b \in [1..m -> Byte]
      /\ \A j \in 1..i : b[j] = s[j]
      /\ \A j \in 1..m : j > u => b[j] = w[j]
  BY ReduceWrite
<1> HIDE DEF o, b
<1>10. r.a = b /\ r.w = i + 1 /\ r.skip = FALSE
  BY <1>8 DEF ReduceStep
<1> HIDE DEF r, m
<1>11. QED  BY <1>9, <1>10 DEF Reducing, r, m, o, v

\* reduce, in place, gives the bytes back.
LEMMA ReduceOfWire ==
  ASSUME NEW s \in Seq(Byte)
  PROVE  Reduce(Extended(Wire(s))) = Reduced(s)
<1> DEFINE n == Len(s)
           w == Wire(s)
           m == Len(w)
           q == Extended(w)
<1>1. q.s = w /\ q.ext = TRUE /\ n \in Nat
  BY DEF Extended
<1>2. PICK p : Marked(s, w, p)
  BY WireMarked
<1> HIDE DEF w
<1>3. w \in Seq(Byte) /\ m \in Nat /\ p[0] = 0 /\ p[n] = m /\ n <= m
  <2>1. n \in 0..n
    BY <1>1
  <2>2. QED  BY <1>2, <2>1 DEF Marked
<1>4. PICK c : ReduceRun(c, q, m)
  <2> HIDE DEF q
  <2>1. m = Len(q.s)
    BY <1>1
  <2> HIDE DEF m
  <2>2. QED  BY <1>1, <1>3, <2>1, ReduceRuns
<1>5. /\ c[0] = [a |-> w, w |-> 1, skip |-> FALSE]
      /\ Reduce(q) = Reduced(SubSeq(c[m].a, 1, c[m].w - 1))
      /\ \A j \in 1..m : c[j] = ReduceStep(c[j - 1], j)
  <2> HIDE DEF q
  <2> QED  BY <1>1, <1>4 DEF ReduceRun
<1> HIDE DEF q
<1> DEFINE P(i) == Reducing(s, w, p, i, c[p[i]])
           T == {i \in Nat : i <= n => P(i)}
<1>6. 0 \in T
  <2>1. w \in [1..m -> Byte]
    BY <1>3
  <2>2. c[0].a = w /\ c[0].w = 0 + 1 /\ c[0].skip = FALSE
    BY <1>5
  <2>3. P(0)
    BY <1>3, <2>1, <2>2 DEF Reducing
  <2>4. QED  BY <2>3
<1>7. ASSUME NEW k \in T PROVE k + 1 \in T
  <2> DEFINE i == k + 1
  <2>1. SUFFICES ASSUME i <= n PROVE P(i)
    <3>1. k + 1 \in Nat
      OBVIOUS
    <3> HIDE DEF P
    <3>2. QED  BY <3>1
  <2>2. k \in Nat /\ k <= n /\ i \in 1..n /\ i - 1 = k /\ k \in 0..n /\ i \in 0..n
    BY <1>1, <2>1
  <2>3. P(k)
    BY <1>7, <2>2
  <2> HIDE DEF i
  <2> DEFINE t == p[i - 1]
             u == p[i]
             acc == c[t]
  <2>4. Reducing(s, w, p, i - 1, acc)
    BY <2>2, <2>3
  <2>5. t \in Nat /\ u \in Nat /\ u <= m
    BY <1>2, <2>2 DEF Marked
  <2>6. CASE NeedsEscape(s[i])
    <3>1. u = t + 2
      BY <1>2, <2>2, <2>6 DEF Marked
    <3>2. /\ t + 1 \in 1..m /\ u \in 1..m /\ (t + 1) - 1 = t /\ u - 1 = t + 1
      <4> HIDE DEF t, u, m
      <4> QED  BY <1>3, <2>5, <3>1
    <3>3. c[t + 1] = ReduceStep(acc, t + 1) /\ c[u] = ReduceStep(c[t + 1], u)
      BY <1>5, <3>2
    <3>4. Reducing(s, w, p, i, ReduceStep(ReduceStep(acc, t + 1), u))
      <4> HIDE DEF acc
      <4> QED  BY <1>2, <2>2, <2>4, <2>6, ReduceEscape
    <3>5. QED  BY <3>3, <3>4
  <2>7. CASE ~NeedsEscape(s[i])
    <3>1. u = t + 1
      BY <1>2, <2>2, <2>7 DEF Marked
    <3>2. u \in 1..m /\ u - 1 = t
      <4> HIDE DEF t, u, m
      <4> QED  BY <1>3, <2>5, <3>1
    <3>3. c[u] = ReduceStep(acc, u)
      BY <1>5, <3>2
    <3>4. Reducing(s, w, p, i, ReduceStep(acc, u))
      <4> HIDE DEF acc
      <4> QED  BY <1>2, <2>2, <2>4, <2>7, ReducePlain
    <3>5. QED  BY <3>3, <3>4
  <2>8. QED  BY <2>6, <2>7
<1>8. P(n)
  <2>1. T \in SUBSET Nat
    OBVIOUS
  <2>2. n \in T
    <3> HIDE DEF T
    <3> QED  BY <1>1, <1>6, <1>7, <2>1, NatSets
  <2>3. n <= n
    BY <1>1
  <2> HIDE DEF P
  <2>4. QED  BY <2>2, <2>3
<1>9. SubSeq(c[m].a, 1, c[m].w - 1) = s
  <2> DEFINE a == c[m].a
             v == c[m].w - 1
  <2>1. a \in [1..m -> Byte] /\ c[m].w = n + 1 /\ \A j \in 1..n : a[j] = s[j]
    BY <1>3, <1>8 DEF Reducing
  <2>2. v = n
    BY <1>1, <2>1
  <2> HIDE DEF a, v
  <2>3. a \in Seq(Byte) /\ Len(a) = m
    BY <1>3, <2>1
  <2>4. SubSeq(a, 1, n) \in Seq(Byte) /\ Len(SubSeq(a, 1, n)) = n
        /\ \A j \in 1..n : SubSeq(a, 1, n)[j] = a[j]
    BY <1>1, <1>3, <2>3
  <2>5. SubSeq(a, 1, n) = s
    BY <2>1, <2>4
  <2>6. QED  BY <2>2, <2>5 DEF a, v
<1>10. QED  BY <1>5, <1>9 DEF q, w

\* One byte more of the checksum, in either form.
LEMMA CrcOfWire ==
  ASSUME NEW s \in Seq(Byte)
  PROVE  CalculateCRC(Wire(s), TRUE) = CalculateCRC(s, FALSE)
<1> DEFINE n == Len(s)
           w == Wire(s)
           m == Len(w)
<1>1. n \in Nat
  OBVIOUS
<1>2. PICK p : Marked(s, w, p)
  BY WireMarked
<1> HIDE DEF w
<1>3. w \in Seq(Byte) /\ m \in Nat /\ p[0] = 0 /\ p[n] = m
  BY <1>2 DEF Marked
<1>4. PICK c : /\ c[0] = 0 /\ c[m] = CalculateCRC(w, TRUE)
               /\ \A i \in 1..m : c[i] = CalcCRC(w[i], c[i - 1])
  <2> DEFINE yes == TRUE
  <2>1. yes
    OBVIOUS
  <2> HIDE DEF m, yes
  <2>2. PICK c : /\ c[0] = 0 /\ c[m] = CalculateCRC(w, yes)
                 /\ \A i \in 1..m : c[i] = CrcStep(w, yes, i, c[i - 1])
    BY <1>3, CrcRuns DEF m
  <2>3. \A i \in 1..m : c[i] = CalcCRC(w[i], c[i - 1])
    BY <2>1, <2>2 DEF CrcStep
  <2>4. QED  BY <2>2, <2>3 DEF yes
<1>5. PICK d : /\ d[0] = 0 /\ d[n] = CalculateCRC(s, FALSE)
               /\ \A i \in 1..n : d[i] = IF NeedsEscape(s[i])
                    THEN CalcCRC(Escape(s[i])[2], CalcCRC(Ext, d[i - 1]))
                    ELSE CalcCRC(s[i], d[i - 1])
  <2> DEFINE no == FALSE
  <2>1. ~no
    OBVIOUS
  <2> HIDE DEF n, no
  <2>2. PICK d : /\ d[0] = 0 /\ d[n] = CalculateCRC(s, no)
                 /\ \A i \in 1..n : d[i] = CrcStep(s, no, i, d[i - 1])
    BY <1>1, CrcRuns DEF n
  <2>3. \A i \in 1..n : d[i] = IF NeedsEscape(s[i])
                    THEN CalcCRC(Escape(s[i])[2], CalcCRC(Ext, d[i - 1]))
                    ELSE CalcCRC(s[i], d[i - 1])
    BY <2>1, <2>2 DEF CrcStep
  <2>4. QED  BY <2>2, <2>3 DEF no
<1> DEFINE T == {i \in Nat : i <= n => c[p[i]] = d[i]}
<1>6. 0 \in T
  BY <1>3, <1>4, <1>5
<1>7. ASSUME NEW k \in T PROVE k + 1 \in T
  <2> DEFINE i == k + 1
  <2>1. SUFFICES ASSUME i <= n PROVE c[p[i]] = d[i]
    OBVIOUS
  <2>2. k \in Nat /\ k <= n /\ i \in 1..n /\ i - 1 = k /\ k \in 0..n /\ i \in 0..n
    BY <1>1, <2>1
  <2> DEFINE t == p[i - 1]
             u == p[i]
  <2>3. c[t] = d[i - 1]
    BY <1>7, <2>2
  <2> HIDE DEF i
  <2>4. t \in Nat /\ u \in Nat /\ u <= m
    BY <1>2, <2>2 DEF Marked
  <2>5. CASE NeedsEscape(s[i])
    <3>1. u = t + 2 /\ w[t + 1] = Ext /\ w[u] = Escape(s[i])[2]
      BY <1>2, <2>2, <2>5 DEF Marked
    <3> HIDE DEF t, u, m
    <3>2. t + 1 \in 1..m /\ u \in 1..m /\ (t + 1) - 1 = t /\ u - 1 = t + 1
      BY <1>3, <2>4, <3>1
    <3>3. c[t + 1] = CalcCRC(Ext, c[t])
      BY <1>4, <3>1, <3>2
    <3>4. c[u] = CalcCRC(Escape(s[i])[2], c[t + 1])
      BY <1>4, <3>1, <3>2
    <3>5. QED  BY <1>5, <2>2, <2>3, <2>5, <3>3, <3>4 DEF u
  <2>6. CASE ~NeedsEscape(s[i])
    <3>1. u = t + 1 /\ w[u] = s[i]
      BY <1>2, <2>2, <2>6 DEF Marked
    <3> HIDE DEF t, u, m
    <3>2. u \in 1..m /\ u - 1 = t
      BY <1>3, <2>4, <3>1
    <3>3. c[u] = CalcCRC(s[i], c[t])
      BY <1>4, <3>1, <3>2
    <3>4. QED  BY <1>5, <2>2, <2>3, <2>6, <3>3 DEF u
  <2>7. QED  BY <2>5, <2>6
<1>8. c[p[n]] = d[n]
  <2>1. T \in SUBSET Nat
    OBVIOUS
  <2>2. n \in T
    <3> HIDE DEF T
    <3> QED  BY <1>1, <1>6, <1>7, <2>1, NatSets
  <2>3. n <= n
    BY <1>1
  <2>4. QED  BY <2>2, <2>3
<1>9. QED  BY <1>3, <1>4, <1>5, <1>8 DEF w

\* The wire form of two sequences, one behind the other.
LEMMA WireJoined ==
  ASSUME NEW s \in Seq(Byte), NEW z \in Seq(Byte)
  PROVE  Wire(s \o z) = Wire(s) \o Wire(z)
<1> DEFINE n == Len(s)
           m == Len(z)
           y == s \o z
<1>1. /\ y \in Seq(Byte) /\ Len(y) = n + m /\ n \in Nat /\ m \in Nat
      /\ \A i \in 1..n : y[i] = s[i]
      /\ \A i \in 1..m : y[n + i] = z[i]
  OBVIOUS
<1> HIDE DEF y
<1>2. PICK V : Grows(V, y) /\ V[n + m] = Wire(y)
  BY <1>1, WireGrows
<1>3. PICK W : Grows(W, s) /\ W[n] = Wire(s)
  BY WireGrows
<1>4. PICK X : Grows(X, z) /\ X[m] = Wire(z)
  BY WireGrows
<1> HIDE DEF n, m
<1>5. /\ V[0] = << >> /\ \A i \in 1..(n + m) : V[i] = V[i - 1] \o OnWire(y[i])
      /\ V \in [0..(n + m) -> Seq(Byte)]
  BY <1>1, <1>2 DEF Grows
<1>6. /\ W[0] = << >> /\ \A i \in 1..n : W[i] = W[i - 1] \o OnWire(s[i])
      /\ W \in [0..n -> Seq(Byte)]
  BY <1>3 DEF Grows, n
<1>7. /\ X[0] = << >> /\ \A i \in 1..m : X[i] = X[i - 1] \o OnWire(z[i])
      /\ X \in [0..m -> Seq(Byte)]
  BY <1>4 DEF Grows, m
<1> DEFINE T == {i \in Nat : i <= n => V[i] = W[i]}
           Q(i) == V[n + i] = W[n] \o X[i]
           U == {i \in Nat : i <= m => Q(i)}
<1>8. V[n] = W[n]
  <2>1. 0 \in T
    BY <1>5, <1>6
  <2>2. ASSUME NEW k \in T PROVE k + 1 \in T
    <3> DEFINE i == k + 1
    <3>1. SUFFICES ASSUME i <= n PROVE V[i] = W[i]
      OBVIOUS
    <3>2. k \in Nat /\ k <= n /\ i \in 1..n /\ i - 1 = k /\ i \in 1..(n + m)
      BY <1>1, <3>1
    <3>3. V[i - 1] = W[i - 1]
      BY <2>2, <3>2
    <3> HIDE DEF i
    <3>4. QED  BY <1>1, <1>5, <1>6, <3>2, <3>3
  <2>3. T \in SUBSET Nat
    OBVIOUS
  <2>4. n \in T
    <3> HIDE DEF T
    <3> QED  BY <1>1, <2>1, <2>2, <2>3, NatSets
  <2>5. n <= n
    BY <1>1
  <2>6. QED  BY <2>4, <2>5
<1>9. V[n + m] = W[n] \o X[m]
  <2>1. 0 \in U
    <3>1. W[n] \in Seq(Byte) /\ n + 0 = n
      BY <1>1, <1>6
    <3>2. W[n] \o << >> = W[n]
      BY <3>1
    <3>3. QED  BY <1>7, <1>8, <3>1, <3>2
  <2>2. ASSUME NEW k \in U PROVE k + 1 \in U
    <3> DEFINE i == k + 1
    <3>1. SUFFICES ASSUME i <= m PROVE Q(i)
      <4>1. k + 1 \in Nat
        OBVIOUS
      <4> HIDE DEF Q
      <4>2. QED  BY <4>1
    <3>2. k \in Nat /\ k <= m /\ i \in 1..m /\ i - 1 = k /\ n + i \in 1..(n + m)
          /\ (n + i) - 1 = n + k /\ n \in 0..n /\ k \in 0..m
      BY <1>1, <3>1
    <3>3. V[n + k] = W[n] \o X[k]
      BY <2>2, <3>2
    <3> HIDE DEF i
    <3>4. z[i] \in Byte /\ y[n + i] = z[i]
      BY <1>1, <3>2 DEF m
    <3> DEFINE e == OnWire(z[i])
               f == W[n]
               g == X[k]
    <3>5. e \in Seq(Byte)
      BY <3>4, OnWireType
    <3>6. f \in Seq(Byte) /\ g \in Seq(Byte)
      BY <1>6, <1>7, <3>2
    <3>7. V[n + i] = V[n + k] \o e
      BY <1>5, <3>2, <3>4
    <3>8. X[i] = g \o e
      BY <1>7, <3>2
    <3> DEFINE Bytes == Byte
    <3> HIDE DEF e, f, g, Bytes
    <3>9. (f \o g) \o e = f \o (g \o e)
      <4>1. e \in Seq(Bytes) /\ f \in Seq(Bytes) /\ g \in Seq(Bytes)
        BY <3>5, <3>6 DEF Bytes
      <4>2. QED  BY ONLY <4>1, ConcatAssociative, SMTT(40)
    <3>10. V[n + k] = f \o g
      BY <3>3 DEF f, g
    <3>11. QED  BY ONLY <3>7, <3>8, <3>9, <3>10 DEF f
  <2>3. U \in SUBSET Nat
    OBVIOUS
  <2>4. m \in U
    <3> HIDE DEF U
    <3> QED  BY <1>1, <2>1, <2>2, <2>3, NatSets
  <2>5. m <= m
    BY <1>1
  <2>6. QED  BY <2>4, <2>5
<1>10. QED  BY <1>2, <1>3, <1>4, <1>9 DEF y

\* StuffingRoundTrip, for one sequence.
LEMMA StuffingTrips ==
  ASSUME NEW s \in Seq(Byte)
  PROVE  LET plain == Reduced(s)
             wire  == Extend(plain)
         IN  /\ wire.s = Wire(s)
             /\ Syn \notin ToSet(wire.s)
             /\ Reduce(wire) = plain
             /\ Crc(wire) = Crc(plain)
             /\ LogicallyEquals(wire, plain)
             /\ AppendSeq(wire, plain) = Extend(AppendSeq(plain, wire))
<1> DEFINE plain == Reduced(s)
           w     == Wire(s)
           wire  == Extended(w)
<1>1. Extend(plain) = wire /\ Reduce(wire) = plain
  BY ExtendIsWire, ReduceOfWire
<1>2. w \in Seq(Byte) /\ \A j \in 1..Len(w) : w[j] # Syn
  <2>1. PICK p : Marked(s, w, p) /\ \A j \in 1..Len(w) : w[j] # Syn
    BY WireMarked
  <2>2. QED  BY <2>1 DEF Marked
<1>3. Crc(wire) = Crc(plain)
  <2>1. Crc(wire) = CalculateCRC(w, TRUE) /\ Crc(plain) = CalculateCRC(s, FALSE)
    BY DEF Crc, Extended, Reduced
  <2>2. QED  BY <2>1, CrcOfWire
<1>4. Wire(s \o s) = w \o w
  BY WireJoined
<1> HIDE DEF w
<1>5. /\ plain.s = s /\ plain.ext = FALSE /\ wire.s = w /\ wire.ext = TRUE
      /\ plain = [s |-> s, ext |-> FALSE] /\ wire = [s |-> w, ext |-> TRUE]
  BY DEF Reduced, Extended
<1>6. Reduce(plain) = plain
  BY <1>5 DEF Reduce
<1> HIDE DEF plain, wire
<1>7. Syn \notin ToSet(w)
  <2>1. DOMAIN w = 1..Len(w)
    BY <1>2
  <2>2. QED  BY <1>2, <2>1 DEF ToSet
<1>8. LogicallyEquals(wire, plain)
  BY <1>1, <1>5, <1>6 DEF LogicallyEquals
<1>9. AppendSeq(wire, plain) = Extended(w \o w)
  <2>1. AppendSeq(wire, plain) = [wire EXCEPT !.s = w \o Extend(plain).s]
    BY <1>5 DEF AppendSeq
  <2> DEFINE ww == w \o w
  <2>2. AppendSeq(wire, plain) = [wire EXCEPT !.s = ww]
    BY <1>1, <1>5, <2>1
  <2> HIDE DEF ww
  <2>3. AppendSeq(wire, plain) = [s |-> ww, ext |-> TRUE]
    BY <1>5, <2>2
  <2>4. QED  BY <2>3 DEF Extended, ww
<1>10. AppendSeq(plain, wire) = Reduced(s \o s)
  <2>1. AppendSeq(plain, wire) = [plain EXCEPT !.s = s \o Reduce(wire).s]
    BY <1>5 DEF AppendSeq
  <2> DEFINE ss == s \o s
  <2>2. AppendSeq(plain, wire) = [plain EXCEPT !.s = ss]
    BY <1>1, <1>5, <2>1
  <2> HIDE DEF ss
  <2>3. AppendSeq(plain, wire) = [s |-> ss, ext |-> FALSE]
    BY <1>5, <2>2
  <2>4. QED  BY <2>3 DEF Reduced, ss
<1>11. Extend(AppendSeq(plain, wire)) = Extended(w \o w)
  <2> DEFINE ss == s \o s
  <2>1. ss \in Seq(Byte)
    OBVIOUS
  <2> HIDE DEF ss
  <2>2. Extend(Reduced(ss)) = Extended(Wire(ss))
    BY <2>1, ExtendIsWire
  <2>3. QED  BY <1>4, <1>10, <2>2 DEF ss
<1>12. AppendSeq(wire, plain) = Extend(AppendSeq(plain, wire))
  BY <1>9, <1>11
<1>13. QED  BY <1>1, <1>3, <1>5, <1>7, <1>8, <1>12 DEF plain, w

\* The input of the stuffing is a sequence of bytes.
StuffingInv == unit = "stuffing" => x \in Seq(Byte)

\* StuffingRoundTrip (sequence.hpp: extend, reduce, append; protocol_math.hpp:
\* calculateCRC) for byte sequences of every length.
THEOREM StuffingRoundTripSpec == PlainSpec => []StuffingRoundTrip
<1>1. PlainInit => StuffingInv
  <2>1. << >> \in Seq(Byte)
    OBVIOUS
  <2>2. QED  BY <2>1 DEF PlainInit, StuffingInv
<1>2. StuffingInv => StuffingRoundTrip
  BY StuffingTrips DEF StuffingInv, StuffingRoundTrip
<1>3. ASSUME StuffingInv, [PlainNext]_vars PROVE StuffingInv'
  <2>1. CASE UNCHANGED vars
    BY <1>3, <2>1 DEF StuffingInv, vars
  <2>2. SUFFICES ASSUME PlainNext, unit = "stuffing", unit' = unit, x \in Seq(Byte)
                 PROVE  x' \in Seq(Byte)
    BY <1>3, <2>1, Zenon
       DEF StuffingInv, PlainNext, MoreBytes, MoreExchange, CutExchange, MoreData, Send,
           FlushSome, Wait, Fetch, ResetAll, ReadWire, Expire, WriteSyn, Transmit, Configure,
           PassByteTime, Of
  <2>3. MoreBytes
    BY <2>2
       DEF PlainNext, MoreExchange, CutExchange, MoreData, Send, FlushSome, Wait, Fetch,
           ResetAll, ReadWire, Expire, WriteSyn, Transmit, Configure, PassByteTime, Of
  <2>4. PICK b \in Stuff : x' = Append(x, b)
    BY <2>3 DEF MoreBytes
  <2>5. b \in Byte
    BY UnitsAssumption
  <2>6. QED  BY <2>2, <2>4, <2>5
<1>4. QED  BY <1>1, <1>2, <1>3, PTL DEF PlainSpec

-----------------------------------------------------------------------------
(***************************************************************************)
(* The parser: telegram.hpp.  Each part of a telegram is refused, is a     *)
(* broadcast or is taken with its answer, and the grammar has a part there *)
(* in just the last two cases.                                             *)
(***************************************************************************)

\* What reduce leaves is bytes, whatever it was given.
LEMMA ReduceType ==
  ASSUME NEW w \in Seq(Byte)
  PROVE  Reduce(Extended(w)).s \in Seq(Byte)
<1> DEFINE m == Len(w)
           q == Extended(w)
           AccType == [a : [1..m -> Byte], w : Nat, skip : BOOLEAN]
<1>1. q.s = w /\ q.ext = TRUE /\ m \in Nat
  BY DEF Extended
<1>2. PICK c : ReduceRun(c, q, m)
  <2> HIDE DEF q
  <2>1. m = Len(q.s)
    BY <1>1
  <2> HIDE DEF m
  <2>2. QED  BY <1>1, <2>1, ReduceRuns
<1>3. /\ c[0] = [a |-> w, w |-> 1, skip |-> FALSE]
      /\ Reduce(q) = Reduced(SubSeq(c[m].a, 1, c[m].w - 1))
      /\ \A j \in 1..m : c[j] = ReduceStep(c[j - 1], j)
  <2> HIDE DEF q
  <2> QED  BY <1>1, <1>2 DEF ReduceRun
<1> HIDE DEF q
<1> DEFINE P(k) == c[k] \in AccType /\ c[k].w >= 1 /\ c[k].w <= k + 1
           T == {k \in Nat : k <= m => P(k)}
<1>4. 0 \in T
  <2>1. w \in [1..m -> Byte]
    OBVIOUS
  <2>2. c[0] \in AccType /\ c[0].w = 1
    BY <1>3, <2>1
  <2>3. QED  BY <2>2
<1>5. ASSUME NEW k \in T PROVE k + 1 \in T
  <2> DEFINE i == k + 1
  <2>1. SUFFICES ASSUME i <= m PROVE P(i)
    <3>1. k + 1 \in Nat
      OBVIOUS
    <3> HIDE DEF P
    <3>2. QED  BY <3>1
  <2>2. k \in Nat /\ k <= m /\ i \in 1..m /\ i - 1 = k /\ i = k + 1
    BY <1>1, <2>1
  <2>3. P(k)
    BY <1>5, <2>2
  <2> DEFINE acc == c[k]
             a == acc.a
             v == acc.w
  <2>4. c[i] = ReduceStep(acc, i)
    BY <1>3, <2>2
  <2>5. a \in [1..m -> Byte] /\ v \in Nat /\ v >= 1 /\ v <= k + 1 /\ acc \in AccType
    BY <2>3
  <2> HIDE DEF i, acc
  <2>6. CASE acc.skip
    <3>1. c[i] = [acc EXCEPT !.skip = FALSE]
      BY <2>4, <2>6 DEF ReduceStep
    <3>2. c[i] \in AccType /\ c[i].w = v
      BY <2>5, <3>1
    <3>3. QED  BY <2>2, <2>5, <3>2
  <2>7. ASSUME NEW b \in Byte, NEW skip \in BOOLEAN,
               c[i] = [a |-> [a EXCEPT ![v] = b], w |-> v + 1, skip |-> skip]
        PROVE  P(i)
    <3>1. [a EXCEPT ![v] = b] \in [1..m -> Byte]
      <4> HIDE DEF a, v
      <4> QED  BY ONLY <2>5, <2>7
    <3>2. v + 1 \in Nat
      BY <2>5
    <3>3. c[i] \in AccType /\ c[i].w = v + 1
      BY <2>7, <3>1, <3>2
    <3>4. v + 1 >= 1 /\ v + 1 <= i + 1
      BY <2>2, <2>5
    <3>5. QED  BY <3>3, <3>4
  <2>8. CASE ~acc.skip
    <3>1. CASE i < Len(a) /\ IsEscape(a[i], a[i + 1])
      <4> DEFINE u == Unescaped(a[i + 1])
      <4>1. u \in Byte
        BY DEF Unescaped, Syn, Ext, Byte
      <4>2. c[i] = [a |-> [a EXCEPT ![v] = u], w |-> v + 1, skip |-> TRUE]
        BY <2>4, <2>8, <3>1 DEF ReduceStep
      <4> HIDE DEF u
      <4>3. QED  BY <2>7, <4>1, <4>2
    <3>2. CASE ~(i < Len(a) /\ IsEscape(a[i], a[i + 1]))
      <4>1. a[i] \in Byte
        BY <2>2, <2>5
      <4>2. c[i] = [a |-> [a EXCEPT ![v] = a[i]], w |-> v + 1, skip |-> FALSE]
        BY <2>4, <2>8, <3>2 DEF ReduceStep
      <4>3. QED  BY <2>7, <4>1, <4>2
    <3>3. QED  BY <3>1, <3>2
  <2>9. QED  BY <2>6, <2>8
<1>6. P(m)
  <2>1. T \in SUBSET Nat
    OBVIOUS
  <2>2. m \in T
    <3> HIDE DEF T
    <3> QED  BY <1>1, <1>4, <1>5, <2>1, NatSets
  <2>3. m <= m
    BY <1>1
  <2> HIDE DEF P
  <2>4. QED  BY <2>2, <2>3
<1>7. SubSeq(c[m].a, 1, c[m].w - 1) \in Seq(Byte)
  <2> DEFINE a == c[m].a
             v == c[m].w - 1
  <2>1. a \in [1..m -> Byte] /\ v \in Nat /\ v <= m
    BY <1>1, <1>6
  <2> HIDE DEF a, v
  <2>2. a \in Seq(Byte) /\ Len(a) = m
    BY <1>1, <2>1
  <2>3. SubSeq(a, 1, v) \in Seq(Byte)
    BY <1>1, <2>1, <2>2
  <2>4. QED  BY <2>3 DEF a, v
<1>8. Reduce(q).s = SubSeq(c[m].a, 1, c[m].w - 1)
  <2> DEFINE e == SubSeq(c[m].a, 1, c[m].w - 1)
  <2>1. Reduce(q) = Reduced(e)
    BY <1>3
  <2> HIDE DEF e
  <2>2. Reduced(e).s = e
    BY DEF Reduced
  <2>3. QED  BY <2>1, <2>2 DEF e
<1>9. QED  BY <1>7, <1>8 DEF q

-----------------------------------------------------------------------------
\* parseSequencePart, its intermediate values named.
LEMMA ParseMasterIs ==
  ASSUME NEW s, NEW p
  PROVE  LET state == CheckMasterSequence(s, p.offset)
             len   == MasterHeader + At0(s, p.offset + 4) + 1
             slice == AssignSlice(Reduced(s), p.offset, len)
             t1    == CreateMaster([p.t EXCEPT !.master.s = slice.s], slice)
         IN  ParseMasterPart(s, p) =
               IF state # "seq_ok"
               THEN [p EXCEPT !.t.master.state = state, !.ok = FALSE]
               ELSE MasterParsed(s, p.offset + len, t1)
BY DEF ParseMasterPart, With

\* The same of a slave part.
LEMMA ParseSlaveIs ==
  ASSUME NEW s, NEW p
  PROVE  LET state == CheckSlaveSequence(s, p.offset)
             len   == SlaveHeader + At0(s, p.offset) + 1
             slice == AssignSlice(Reduced(s), p.offset, len)
             t1    == CreateSlave([p.t EXCEPT !.slave.s = slice.s], slice)
         IN  ParseSlavePart(s, p) =
               IF state # "seq_ok"
               THEN [p EXCEPT !.t.slave.state = state, !.ok = FALSE]
               ELSE SlaveParsed(s, p.offset + len, t1)
BY DEF ParseSlavePart, With

\* createMaster and createSlave leave bytes in logical form as they are.
LEMMA CreateIs ==
  ASSUME NEW t, NEW b, NEW q, q = Reduced(b)
  PROVE  /\ CreateMaster(t, q) = MasterMade(t, b, MasterState(b))
         /\ CreateSlave(t, q) = SlaveMade(t, b, SlaveState(b))
<1>1. q.s = b /\ q.ext = FALSE
  BY DEF Reduced
<1>2. Reduce(q).s = b
  BY <1>1 DEF Reduce
<1>3. QED  BY <1>2 DEF CreateMaster, CreateSlave, With

\* The last byte of a slice of len bytes from offset o on.
SliceEnd(s, o, len) == IF o + len > Len(s) THEN Len(s) ELSE o + len

\* There is a byte at offset o, and the slice from there is b and ends at e.
CanSlice(s, o, len, e, b) ==
  /\ s \in Seq(Byte) /\ o \in Nat /\ len \in Nat /\ len >= 1 /\ o < Len(s)
  /\ e = SliceEnd(s, o, len) /\ b = SubSeq(s, o + 1, e)

\* b holds the bytes after offset o up to e.
IsSlice(s, o, len, e, b) ==
  /\ AssignSlice(Reduced(s), o, len) = Reduced(b)
  /\ b \in Seq(Byte) /\ Len(b) = e - o
  /\ \A k \in 1..(e - o) : b[k] = s[o + k]

\* The bytes of a sequence from offset o on, len of them or up to its end.
LEMMA SliceIs ==
  ASSUME NEW s, NEW o, NEW len, NEW e, NEW b, CanSlice(s, o, len, e, b)
  PROVE  IsSlice(s, o, len, e, b)
<1> USE DEF CanSlice
<1>1. e \in Nat /\ e > o /\ e <= Len(s) /\ Len(s) \in Nat
  BY DEF SliceEnd
<1>2. AssignSlice(Reduced(s), o, len) = Reduced(b)
  <2>1. Reduced(s).s = s /\ Reduced(s) = [s |-> s, ext |-> FALSE]
    BY DEF Reduced
  <2>2. ~(o >= Len(s)) /\ len # 0
    BY <1>1
  <2>3. AssignSlice(Reduced(s), o, len) = [Reduced(s) EXCEPT !.s = b]
    BY <2>1, <2>2 DEF AssignSlice, SliceEnd
  <2>4. QED  BY <2>1, <2>3 DEF Reduced
<1>3. b \in Seq(Byte)
  BY <1>1
<1>4. Len(b) = e - o
  BY <1>1
<1>5. ASSUME NEW k \in 1..(e - o) PROVE b[k] = s[o + k]
  <2>1. k \in 1..((e - (o + 1)) + 1) /\ (o + 1) + k - 1 = o + k
    BY <1>1, <1>5
  <2>2. QED  BY <1>1, <2>1
<1>6. QED  BY <1>2, <1>3, <1>4, <1>5 DEF IsSlice

\* The first bytes of a slice.
LEMMA SlicedTwice ==
  ASSUME NEW s \in Seq(Byte), NEW o \in Nat, NEW e \in Nat, NEW k \in Nat,
         o + k <= e, e <= Len(s)
  PROVE  SubSeq(SubSeq(s, o + 1, e), 1, k) = SubSeq(s, o + 1, o + k)
<1> DEFINE b == SubSeq(s, o + 1, e)
           c == SubSeq(s, o + 1, o + k)
           d == SubSeq(b, 1, k)
<1>1. b \in Seq(Byte) /\ Len(b) = e - o /\ \A j \in 1..(e - o) : b[j] = s[o + j]
  <2>1. b \in Seq(Byte)
    OBVIOUS
  <2>2. Len(b) = e - o
    OBVIOUS
  <2>3. ASSUME NEW j \in 1..(e - o) PROVE b[j] = s[o + j]
    <3>1. j \in 1..((e - (o + 1)) + 1) /\ (o + 1) + j - 1 = o + j
      BY <2>3
    <3>2. QED  BY <3>1
  <2>4. QED  BY <2>1, <2>2, <2>3
<1>2. c \in Seq(Byte) /\ Len(c) = k /\ \A j \in 1..k : c[j] = s[o + j]
  <2>1. c \in Seq(Byte)
    OBVIOUS
  <2>2. Len(c) = k
    OBVIOUS
  <2>3. ASSUME NEW j \in 1..k PROVE c[j] = s[o + j]
    <3>1. j \in 1..(((o + k) - (o + 1)) + 1) /\ (o + 1) + j - 1 = o + j
      BY <2>3
    <3>2. QED  BY <3>1
  <2>4. QED  BY <2>1, <2>2, <2>3
<1> HIDE DEF b, c
<1>3. d \in Seq(Byte) /\ Len(d) = k /\ \A j \in 1..k : d[j] = b[j]
  <2>1. d \in Seq(Byte)
    BY <1>1
  <2>2. Len(d) = k
    BY <1>1
  <2>3. ASSUME NEW j \in 1..k PROVE d[j] = b[j]
    BY <1>1, <2>3
  <2>4. QED  BY <2>1, <2>2, <2>3
<1>4. \A j \in 1..k : j \in 1..(e - o)
  OBVIOUS
<1> HIDE DEF d
<1>5. \A j \in 1..k : d[j] = c[j]
  BY <1>1, <1>2, <1>3, <1>4
<1>6. d = c
  <2>1. d \in [1..k -> Byte] /\ c \in [1..k -> Byte]
    BY <1>2, <1>3
  <2>2. QED  BY ONLY <1>5, <2>1
<1>7. QED  BY <1>6 DEF b, c, d

\* The checksum of the wire form is the one that the parser calculates.
LEMMA GoodCrcIs ==
  ASSUME NEW s \in Seq(Byte), NEW i \in Nat, NEW j \in Nat, i >= 1, j >= i, j <= Len(s)
  PROVE  GoodCrc(s, i, j) <=> s[j] = CalculateCRC(SubSeq(s, i, j - 1), FALSE)
<1> DEFINE b == SubSeq(s, i, j - 1)
<1>1. b \in Seq(Byte)
  OBVIOUS
<1> HIDE DEF b
<1>2. CalculateCRC(Wire(b), TRUE) = CalculateCRC(b, FALSE)
  BY <1>1, CrcOfWire
<1>3. QED  BY <1>2 DEF GoodCrc, b

Made(s, crc, ack, state) == [s |-> s, crc |-> crc, ack |-> ack, state |-> state]

Tel(type, master, slave) == [type |-> type, master |-> master, slave |-> slave]

Sound(s, crc, ack) == Made(s, crc, ack, "seq_ok")

Goes(t, offset) == [t |-> t, offset |-> offset, ok |-> TRUE]

Stops(t, offset) == [t |-> t, offset |-> offset, ok |-> FALSE]

\* The byte that follows a part answers it.
IsAnswered(s, j) == j + 1 <= Len(s) /\ s[j + 1] \in {Ack, Nak}

\* What createMaster finds wrong with the slice b of a master part with d
\* data bytes, if its addresses are good; the checksum may be missing.
MasterBad(b, d) ==
  \/ NeedsEscape(b[3]) \/ NeedsEscape(b[4]) \/ Len(b) < 5 + d
  \/ Len(b) = 6 + d /\ b[6 + d] # CalculateCRC(SubSeq(b, 1, 5 + d), FALSE)

\* A slice that checkMasterSequence lets pass.
MasterSlice(b, d) ==
  /\ b \in Seq(Byte) /\ d \in Nat /\ d = b[5] /\ d <= MaxDataBytes
  /\ Len(b) >= 5 /\ Len(b) <= 6 + d /\ IsMaster(b[1]) /\ IsTarget(b[2])

\* createMaster, of such a slice.
LEMMA MasterMadeIs ==
  ASSUME NEW b, NEW d, MasterSlice(b, d),
         NEW ty, NEW mc, NEW ma, NEW mst, NEW sl,
         NEW t0, t0 = Tel(ty, Made(b, mc, ma, mst), sl),
         NEW r, r = MasterMade(t0, b, MasterState(b))
  PROVE  IF MasterBad(b, d) THEN r.master.state # "seq_ok"
         ELSE \E body, c : r = Tel(TypeOf(b[2]), Sound(body, c, ma), sl)
<1> DEFINE crc == CalculateCRC(SubSeq(b, 1, 5 + d), FALSE)
           part == Made(b, mc, ma, mst)
           len == 5 + d
<1> USE DEF MasterSlice
<1>1. /\ At0(b, 0) = b[1] /\ At0(b, 1) = b[2] /\ At0(b, 2) = b[3] /\ At0(b, 3) = b[4]
      /\ At0(b, 4) = d /\ MasterHeader = 5
  BY DEF At0, MasterHeader
<1>2. Len(b) \in Nat /\ MaxDataBytes \in Nat /\ ~(Len(b) < MasterHeader) /\ ~(d > MaxDataBytes)
      /\ ~(Len(b) > MasterHeader + d + 1)
  <2> DEFINE nb == Len(b)
  <2>1. nb \in Nat /\ nb >= 5 /\ nb <= 6 + d /\ d \in Nat
    OBVIOUS
  <2> HIDE DEF nb
  <2>2. ~(nb < 5) /\ ~(nb > 5 + d + 1)
    BY ONLY <2>1
  <2>3. MaxDataBytes \in Nat /\ ~(d > MaxDataBytes)
    BY DEF MaxDataBytes
  <2>4. QED  BY <1>1, <2>1, <2>2, <2>3 DEF nb
<1>3. t0.type = ty /\ t0.master = part /\ t0.slave = sl
  BY DEF Tel
<1>4. CASE NeedsEscape(b[3]) \/ NeedsEscape(b[4]) \/ Len(b) < 5 + d
  <2> DEFINE state == MasterState(b)
  <2>1. state \in {"err_data_byte", "err_seq_too_short"}
    BY <1>1, <1>2, <1>4 DEF MasterState
  <2> HIDE DEF state
  <2>2. state # "seq_ok" /\ state # "err_seq_too_long"
    BY <2>1
  <2>3. r = [t0 EXCEPT !.type = ty, !.master = Created(part, b, state, 0)]
    BY <1>3, <2>2 DEF MasterMade, state
  <2>4. Created(part, b, state, 0) = [part EXCEPT !.state = state]
    BY <2>2 DEF Created
  <2>5. Created(part, b, state, 0).state = state
    BY <2>4 DEF Made
  <2>6. r.master.state = state
    BY <2>3, <2>5 DEF Tel
  <2>7. QED  BY <1>4, <2>2, <2>6 DEF MasterBad
<1>5. CASE ~(NeedsEscape(b[3]) \/ NeedsEscape(b[4]) \/ Len(b) < 5 + d)
  <2> DEFINE state == MasterState(b)
             got == IF Len(b) = len THEN crc ELSE b[len + 1]
             made == Created(part, b, state, len)
  <2>1. state = "seq_ok"
    BY <1>1, <1>2, <1>5 DEF MasterState
  <2>2. len \in Nat /\ len + 1 = 6 + d /\ (Len(b) = len \/ Len(b) = 6 + d) /\ len # 6 + d
    <3> DEFINE nb == Len(b)
    <3>1. nb \in Nat /\ ~(nb < 5 + d) /\ nb <= 6 + d /\ d \in Nat
      BY <1>5
    <3> HIDE DEF nb
    <3>2. nb = 5 + d \/ nb = 6 + d
      BY ONLY <3>1
    <3>3. len \in Nat /\ len + 1 = 6 + d /\ len # 6 + d
      BY ONLY <3>1
    <3>4. QED  BY <3>2, <3>3 DEF nb
  <2> HIDE DEF state
  <2>3. made = Made(SubSeq(b, 1, len), got, ma, IF got = crc THEN "seq_ok" ELSE "err_crc_invalid")
    <3> HIDE DEF len
    <3> QED  BY <2>1 DEF Created, Made, len
  <2>4. r = [t0 EXCEPT !.type = TypeOf(b[2]), !.master = made]
    BY <1>1, <1>3, <2>1 DEF MasterMade, state
  <2> HIDE DEF made, len, crc
  <2>5. r = Tel(TypeOf(b[2]), made, sl)
    BY <2>4 DEF Tel
  <2>6. CASE Len(b) = 6 + d /\ b[6 + d] # crc
    <3>1. got # crc
      BY <2>2, <2>6
    <3>2. made.state = "err_crc_invalid"
      BY <2>3, <3>1 DEF Made
    <3>3. r.master = made
      BY <2>5 DEF Tel
    <3>4. QED  BY <2>6, <3>2, <3>3 DEF crc, MasterBad
  <2>7. CASE ~(Len(b) = 6 + d /\ b[6 + d] # crc)
    <3>1. got = crc
      BY <2>2, <2>7
    <3>2. made = Sound(SubSeq(b, 1, len), got, ma)
      BY <2>3, <3>1 DEF Sound
    <3> HIDE DEF got
    <3>3. r = Tel(TypeOf(b[2]), Sound(SubSeq(b, 1, 5 + d), got, ma), sl)
      BY <2>5, <3>2 DEF len
    <3>4. QED  BY <1>5, <2>7, <3>3 DEF crc, MasterBad
  <2>8. QED  BY <2>6, <2>7
<1>6. QED  BY <1>4, <1>5

\* A slice that checkSlaveSequence lets pass.
SlaveSlice(b, d) ==
  /\ b \in Seq(Byte) /\ d \in Nat /\ d = b[1] /\ d <= MaxDataBytes
  /\ Len(b) = 2 + d

SlaveBad(b, d) == b[2 + d] # CalculateCRC(SubSeq(b, 1, 1 + d), FALSE)

\* createSlave, of such a slice.
LEMMA SlaveMadeIs ==
  ASSUME NEW b, NEW d, SlaveSlice(b, d),
         NEW ty, NEW mc, NEW ma, NEW mst, NEW mm,
         NEW t0, t0 = Tel(ty, mm, Made(b, mc, ma, mst)),
         NEW r, r = SlaveMade(t0, b, SlaveState(b))
  PROVE  IF SlaveBad(b, d)
         THEN \E part : r = Tel(ty, mm, part) /\ part.state # "seq_ok"
         ELSE \E body, c : r = Tel(ty, mm, Sound(body, c, ma))
<1> USE DEF SlaveSlice
<1> DEFINE crc == CalculateCRC(SubSeq(b, 1, 1 + d), FALSE)
           part == Made(b, mc, ma, mst)
           len == 1 + d
           state == SlaveState(b)
           got == b[2 + d]
           made == Created(part, b, state, len)
<1>1. At0(b, 0) = d /\ SlaveHeader = 1
  BY DEF At0, SlaveHeader
<1>2. Len(b) \in Nat /\ MaxDataBytes \in Nat /\ ~(Len(b) < 2) /\ ~(d > MaxDataBytes)
      /\ ~(Len(b) < SlaveHeader + d) /\ ~(Len(b) > SlaveHeader + d + 1)
  BY <1>1 DEF MaxDataBytes
<1>3. t0.type = ty /\ t0.slave = part /\ t0.master = mm
  BY DEF Tel
<1>4. state = "seq_ok"
  BY <1>1, <1>2 DEF SlaveState
<1>5. len \in Nat /\ len <= Len(b) /\ Len(b) <= len + 1 /\ Len(b) # len /\ len + 1 = 2 + d
  OBVIOUS
<1> HIDE DEF state
<1>6. made = Made(SubSeq(b, 1, len), got, ma, IF got = crc THEN "seq_ok" ELSE "err_crc_invalid")
  <2>1. Created(part, b, state, len) =
          Made(SubSeq(b, 1, len), b[len + 1], ma,
               IF b[len + 1] = CalculateCRC(SubSeq(b, 1, len), FALSE)
               THEN "seq_ok" ELSE "err_crc_invalid")
    <3> HIDE DEF len
    <3> QED  BY <1>4, <1>5 DEF Created, Made
  <2>2. QED  BY <1>5, <2>1
<1>7. r = [t0 EXCEPT !.slave = made]
  BY <1>1, <1>3, <1>4 DEF SlaveMade, state
<1> HIDE DEF made, got
<1>8. r = Tel(ty, mm, made)
  BY <1>7 DEF Tel
<1>9. CASE got # crc
  <2>1. made.state = "err_crc_invalid"
    BY <1>6, <1>9 DEF Made
  <2>2. QED  BY <1>8, <1>9, <2>1 DEF got, SlaveBad
<1>10. CASE got = crc
  <2>1. made = Sound(SubSeq(b, 1, len), got, ma)
    BY <1>6, <1>10 DEF Sound
  <2>2. r = Tel(ty, mm, Sound(SubSeq(b, 1, 1 + d), got, ma))
    BY <1>8, <2>1
  <2>3. QED  BY <1>10, <2>2 DEF got, SlaveBad
<1>11. QED  BY <1>9, <1>10

\* The part at i was not taken, and there is none, or none that is answered.
MasterRefused(s, i, r) ==
  /\ ~r.ok /\ r.t.master.state # "seq_ok"
  /\ \A j \in Nat : MasterPartAt(s, i, j) => s[i + 1] # Broad /\ ~IsAnswered(s, j)

\* It is a broadcast; a repeated one may lack its checksum.
MasterToAll(s, i, r, ack, slave) ==
  /\ s[i + 1] = Broad
  /\ i = 1 => \E j \in Nat : MasterPartAt(s, i, j)
  /\ \E b, crc, off : r = Goes(Tel("broadcast", Sound(b, crc, ack), slave), off)

\* It was taken, and its answer too.
MasterTaken(s, i, r, slave) ==
  /\ s[i + 1] # Broad
  /\ \E j \in Nat :
       /\ MasterPartAt(s, i, j) /\ IsAnswered(s, j)
       /\ \E b, crc : r = Goes(Tel(TypeOf(s[i + 1]), Sound(b, crc, s[j + 1]), slave),
                             j + 1)

\* A part has one end.
LEMMA PartEnds ==
  ASSUME NEW s, NEW i, NEW j, NEW k
  PROVE  /\ MasterPartAt(s, i, j) /\ MasterPartAt(s, i, k) => j = k
         /\ SlavePartAt(s, i, j) /\ SlavePartAt(s, i, k) => j = k
BY DEF MasterPartAt, SlavePartAt

\* What follows a master part that passed its checks.
LEMMA MasterAnswer ==
  ASSUME NEW s, NEW next \in Nat, Len(s) \in Nat, NEW ty, NEW b, NEW c, NEW ack, NEW sl,
         NEW t1, t1 = Tel(ty, Sound(b, c, ack), sl),
         NEW r, r = MasterParsed(s, next, t1)
  PROVE  IF ty = "broadcast" THEN r = Goes(t1, next)
         ELSE IF IsAnswered(s, next)
         THEN r = Goes(Tel(ty, Sound(b, c, s[next + 1]), sl), next + 1)
         ELSE ~r.ok /\ r.t.master.state # "seq_ok"
<1> DEFINE part == Sound(b, c, ack)
           acked == Acknowledged(part, s, next)
<1>1. t1.type = ty /\ t1.master = part /\ t1.slave = sl /\ part.state = "seq_ok"
  BY DEF Tel, Made, Sound
<1>2. CASE ty = "broadcast"
  BY <1>1, <1>2 DEF MasterParsed, Goes
<1>3. CASE ty # "broadcast"
  <2>1. r = [t |-> [t1 EXCEPT !.master = acked], offset |-> next + 1,
             ok |-> acked.state = "seq_ok"]
    BY <1>1, <1>3 DEF MasterParsed, With
  <2>2. [t1 EXCEPT !.master = acked] = Tel(ty, acked, sl)
    BY DEF Tel
  <2>3. r = [t |-> Tel(ty, acked, sl), offset |-> next + 1, ok |-> acked.state = "seq_ok"]
    BY <2>1, <2>2
  <2>4. Len(s) <= next <=> ~(next + 1 <= Len(s))
    OBVIOUS
  <2>5. CASE IsAnswered(s, next)
    <3>1. acked = [part EXCEPT !.ack = s[next + 1]]
      BY <2>4, <2>5 DEF Acknowledged, IsAnswered, At0
    <3>2. acked = Sound(b, c, s[next + 1])
      BY <3>1 DEF Made, Sound
    <3>3. acked.state = "seq_ok"
      BY <3>2 DEF Made, Sound
    <3> HIDE DEF acked
    <3>4. QED  BY <1>3, <2>3, <2>5, <3>2, <3>3 DEF Goes
  <2>6. CASE ~IsAnswered(s, next)
    <3>1. acked.state # "seq_ok"
      BY <2>4, <2>6 DEF Acknowledged, IsAnswered, At0, Made, Sound
    <3> HIDE DEF acked
    <3>2. (acked.state = "seq_ok") = FALSE
      BY <3>1
    <3>3. r = Stops(Tel(ty, acked, sl), next + 1)
      BY <2>3, <3>2 DEF Stops
    <3>4. r.ok = FALSE /\ r.t.master = acked
      BY <3>3 DEF Stops, Tel
    <3>5. QED  BY <1>3, <2>6, <3>1, <3>4
  <2>7. QED  BY <2>5, <2>6
<1>4. QED  BY <1>2, <1>3

\* The same for a slave part.
LEMMA SlaveAnswer ==
  ASSUME NEW s, NEW next \in Nat, Len(s) \in Nat, NEW ty, NEW b, NEW c, NEW ack, NEW mm,
         NEW t1, t1 = Tel(ty, mm, Sound(b, c, ack)),
         NEW r, r = SlaveParsed(s, next, t1)
  PROVE  IF IsAnswered(s, next)
         THEN r = Goes(Tel(ty, mm, Sound(b, c, s[next + 1])), next + 1)
         ELSE ~r.ok /\ \E part : r.t = Tel(ty, mm, part) /\ part.state # "seq_ok"
<1> DEFINE part == Sound(b, c, ack)
           acked == Acknowledged(part, s, next)
<1>1. t1.type = ty /\ t1.master = mm /\ t1.slave = part /\ part.state = "seq_ok"
  BY DEF Tel, Made, Sound
<1>2. r = [t |-> [t1 EXCEPT !.slave = acked], offset |-> next + 1,
           ok |-> acked.state = "seq_ok"]
  BY <1>1 DEF SlaveParsed, With
<1>3. [t1 EXCEPT !.slave = acked] = Tel(ty, mm, acked)
  BY DEF Tel
<1>4. r = [t |-> Tel(ty, mm, acked), offset |-> next + 1, ok |-> acked.state = "seq_ok"]
  BY <1>2, <1>3
<1>5. Len(s) <= next <=> ~(next + 1 <= Len(s))
  OBVIOUS
<1>6. CASE IsAnswered(s, next)
  <2>1. acked = [part EXCEPT !.ack = s[next + 1]]
    BY <1>5, <1>6 DEF Acknowledged, IsAnswered, At0
  <2>2. acked = Sound(b, c, s[next + 1])
    BY <2>1 DEF Made, Sound
  <2>3. acked.state = "seq_ok"
    BY <2>2 DEF Made, Sound
  <2> HIDE DEF acked
  <2>4. QED  BY <1>4, <1>6, <2>2, <2>3 DEF Goes
<1>7. CASE ~IsAnswered(s, next)
  <2>1. acked.state # "seq_ok"
    BY <1>5, <1>7 DEF Acknowledged, IsAnswered, At0, Made, Sound
  <2> HIDE DEF acked
  <2>2. (acked.state = "seq_ok") = FALSE
    BY <2>1
  <2>3. r = Stops(Tel(ty, mm, acked), next + 1)
    BY <1>4, <2>2 DEF Stops
  <2>4. r.ok = FALSE /\ r.t = Tel(ty, mm, acked)
    BY <2>3 DEF Stops
  <2>5. QED  BY <1>7, <2>1, <2>4
<1>8. QED  BY <1>6, <1>7

\* parseSequencePart, of a master part.
LEMMA MasterPartParsed ==
  ASSUME NEW s \in Seq(Byte), NEW o \in Nat,
         NEW ty, NEW ms, NEW mc, NEW ma, NEW mst, NEW sl,
         NEW p, p = Goes(Tel(ty, Made(ms, mc, ma, mst), sl), o),
         NEW r, r = ParseMasterPart(s, p)
  PROVE  \/ MasterRefused(s, o + 1, r)
         \/ MasterToAll(s, o + 1, r, ma, sl)
         \/ MasterTaken(s, o + 1, r, sl)
<1> DEFINE n == Len(s)
           i == o + 1
           d == s[o + 5]
           state == CheckMasterSequence(s, o)
<1>1. p.offset = o /\ p.t = Tel(ty, Made(ms, mc, ma, mst), sl)
  BY DEF Goes
<1>2. n \in Nat /\ i \in Nat
  OBVIOUS
<1>3. /\ At0(s, o) = s[i] /\ At0(s, o + 1) = s[i + 1] /\ At0(s, o + 4) = d
      /\ i + 1 = o + 2 /\ i + 2 = o + 3 /\ i + 3 = o + 4 /\ i + 4 = o + 5 /\ i + 5 = o + 6
      /\ o + 1 + 1 = o + 2 /\ o + 4 + 1 = o + 5
  BY DEF At0
<1>4. MasterHeader = 5 /\ MaxDataBytes \in Nat
  BY DEF MasterHeader, MaxDataBytes
<1>5. CASE state # "seq_ok"
  <2>1. r = [p EXCEPT !.t.master.state = state, !.ok = FALSE]
    BY <1>1, <1>5, ParseMasterIs
  <2> HIDE DEF state
  <2>2. r.ok = FALSE /\ r.t.master.state = state
    <3> DEFINE part == Made(ms, mc, ma, mst)
    <3>1. r.ok = FALSE /\ r.t = [p.t EXCEPT !.master.state = state]
      BY <2>1 DEF Goes
    <3>2. r.t.master = [part EXCEPT !.state = state]
      BY <1>1, <3>1 DEF Tel
    <3>3. r.t.master.state = state
      BY <3>2 DEF Made, Sound
    <3>4. QED  BY <3>1, <3>3
  <2>3. ASSUME NEW j \in Nat, MasterPartAt(s, i, j) PROVE FALSE
    <3>1. /\ j >= o + 6 /\ j <= n /\ IsMaster(s[i]) /\ IsTarget(s[i + 1])
          /\ d <= MaxDataBytes /\ j = (o + 6) + d
      BY <1>3, <2>3 DEF MasterPartAt
    <3> HIDE DEF n, i
    <3>2. o + 5 \in 1..n
      BY <1>2, <3>1
    <3>3. d \in Nat
      <4>1. d \in Byte
        BY <3>2 DEF n
      <4> HIDE DEF d
      <4>2. QED  BY <4>1 DEF Byte
    <3> HIDE DEF d
    <3>4. ~(n < o + 5) /\ ~(d > MaxDataBytes) /\ ~(n < 5 + d + 1)
      BY <1>2, <1>4, <3>1, <3>3
    <3>5. state = "seq_ok"
      BY <1>3, <1>4, <3>1, <3>4 DEF CheckMasterSequence, state, n
    <3>6. QED  BY <1>5, <3>5
  <2>4. MasterRefused(s, i, r)
    BY <1>5, <2>2, <2>3 DEF MasterRefused
  <2>5. QED  BY <2>4
<1>6. CASE state = "seq_ok"
  <2> DEFINE len == 6 + d
             e == IF o + len > n THEN n ELSE o + len
             b == SubSeq(s, i, e)
  <2>1. /\ ~(n < o + 5) /\ IsMaster(s[i]) /\ IsTarget(s[i + 1])
        /\ ~(d > MaxDataBytes) /\ ~(n < 5 + d + 1)
    BY <1>3, <1>4, <1>6 DEF CheckMasterSequence
  <2>2. d \in Nat /\ d \in Byte
    <3>1. o + 5 \in 1..n
      <4> HIDE DEF n
      <4> QED  BY <1>2, <2>1
    <3>2. d \in Byte
      BY <3>1
    <3> HIDE DEF d
    <3>3. QED  BY <3>2 DEF Byte
  <2> HIDE DEF d, n
  <2>3. len \in Nat /\ len >= 1 /\ o < n /\ len = MasterHeader + d + 1 /\ d <= MaxDataBytes
    BY <1>2, <1>4, <2>1, <2>2
  <2>4. /\ e \in Nat /\ e > o /\ e <= n /\ e - o >= 5 /\ e - o <= 6 + d
        /\ e - o = 6 + d <=> o + 6 + d <= n
    BY <1>2, <2>1, <2>2
  <2> HIDE DEF len, e
  <2>5. AssignSlice(Reduced(s), o, len) = Reduced(b) /\ b \in Seq(Byte) /\ Len(b) = e - o
        /\ \A k \in 1..(e - o) : b[k] = s[o + k]
    <3>1. e = SliceEnd(s, o, len) /\ b = SubSeq(s, o + 1, e)
      BY DEF SliceEnd, e, n
    <3> HIDE DEF b
    <3>2. o < Len(s)
      BY <2>3 DEF n
    <3>3. len \in Nat /\ len >= 1
      BY <2>3
    <3>4. CanSlice(s, o, len, e, b)
      BY <3>1, <3>2, <3>3 DEF CanSlice
    <3>5. IsSlice(s, o, len, e, b)
      BY ONLY <3>4, SliceIs
    <3>6. QED  BY <3>5 DEF IsSlice
  <2>6. b[1] = s[i] /\ b[2] = s[i + 1] /\ b[3] = s[i + 2] /\ b[4] = s[i + 3] /\ b[5] = d
    <3>1. 1 \in 1..(e - o) /\ 2 \in 1..(e - o) /\ 3 \in 1..(e - o) /\ 4 \in 1..(e - o)
          /\ 5 \in 1..(e - o)
      BY <2>4
    <3>2. b[1] = s[o + 1] /\ b[2] = s[o + 2] /\ b[3] = s[o + 3] /\ b[4] = s[o + 4]
          /\ b[5] = s[o + 5]
      <4> HIDE DEF b
      <4> QED  BY <2>5, <3>1
    <3>3. QED  BY <1>3, <3>2 DEF d
  <2> DEFINE t0 == Tel(ty, Made(b, mc, ma, mst), sl)
             t1 == MasterMade(t0, b, MasterState(b))
             crc == CalculateCRC(SubSeq(b, 1, 5 + d), FALSE)
             j == o + 6 + d
  <2>7. r = MasterParsed(s, o + len, t1)
    <3> DEFINE slice == AssignSlice(Reduced(s), o, len)
    <3>1. r = MasterParsed(s, o + len, CreateMaster([p.t EXCEPT !.master.s = slice.s], slice))
      BY <1>1, <1>3, <1>6, <2>3, ParseMasterIs
    <3> HIDE DEF b
    <3>2. slice = Reduced(b) /\ Reduced(b).s = b
      BY <2>5 DEF Reduced
    <3>3. [p.t EXCEPT !.master.s = b] = t0
      BY <1>1 DEF Tel, Made
    <3> HIDE DEF slice, t0
    <3>4. CreateMaster(t0, slice) = t1
      BY <3>2, CreateIs
    <3>5. QED  BY <3>1, <3>2, <3>3, <3>4
  <2>8. o + len = j /\ j \in Nat
    BY <2>2 DEF len
  <2> DEFINE bad == MasterBad(b, d)
  <2>9. IF bad THEN t1.master.state # "seq_ok"
        ELSE \E body, c : t1 = Tel(TypeOf(b[2]), Sound(body, c, ma), sl)
    <3> HIDE DEF b
    <3>1. MasterSlice(b, d)
      <4>1. Len(b) >= 5 /\ Len(b) <= 6 + d
        BY <2>2, <2>4, <2>5
      <4>2. QED  BY <2>1, <2>2, <2>3, <2>5, <2>6, <4>1 DEF MasterSlice
    <3>2. t0 = Tel(ty, Made(b, mc, ma, mst), sl) /\ t1 = MasterMade(t0, b, MasterState(b))
      OBVIOUS
    <3> HIDE DEF t0, t1
    <3>3. QED  BY ONLY <3>1, <3>2, MasterMadeIs
  <2>10. ASSUME NEW k \in Nat, MasterPartAt(s, i, k)
         PROVE  k = j /\ j <= n /\ ~bad
    <3>1. k = j /\ j <= n /\ ~NeedsEscape(s[i + 2]) /\ ~NeedsEscape(s[i + 3]) /\ GoodCrc(s, i, k)
      BY <1>3, <2>2, <2>10 DEF MasterPartAt, d, n
    <3>2. e - o = 6 + d /\ Len(b) = 6 + d
      BY <2>2, <2>4, <2>5, <3>1
    <3>3. b[6 + d] = s[j]
      <4>1. 6 + d \in 1..(e - o) /\ o + (6 + d) = j
        BY <2>2, <3>2
      <4> HIDE DEF b
      <4>2. b[6 + d] = s[o + (6 + d)]
        BY <2>5, <4>1
      <4>3. QED  BY <4>1, <4>2
    <3>4. crc = CalculateCRC(SubSeq(s, i, j - 1), FALSE)
      <4>1. o + (5 + d) <= e /\ 5 + d \in Nat /\ o + (5 + d) = j - 1 /\ e <= Len(s)
        BY <2>2, <2>4, <3>2 DEF n
      <4> DEFINE k5 == 5 + d
      <4>2. k5 \in Nat /\ o + k5 <= e /\ e <= Len(s) /\ e \in Nat
        BY <2>4, <4>1
      <4> HIDE DEF k5
      <4>3. SubSeq(SubSeq(s, o + 1, e), 1, k5) = SubSeq(s, o + 1, o + k5)
        BY ONLY <4>2, SlicedTwice, s \in Seq(Byte), o \in Nat
      <4>4. QED  BY <4>1, <4>3 DEF k5
    <3>5. GoodCrc(s, i, j) <=> s[j] = CalculateCRC(SubSeq(s, i, j - 1), FALSE)
      <4>1. i >= 1 /\ j >= i /\ j <= Len(s)
        BY <1>2, <2>2, <3>1 DEF n
      <4> HIDE DEF i, j
      <4>2. QED  BY <1>2, <2>8, <4>1, GoodCrcIs
    <3>6. b[6 + d] = crc
      BY <3>1, <3>3, <3>4, <3>5
    <3>7. ~(Len(b) < 5 + d)
      <4> HIDE DEF b
      <4> QED  BY <2>2, <3>2
    <3> HIDE DEF b
    <3>8. QED  BY <2>6, <3>1, <3>6, <3>7 DEF MasterBad
  <2>11. CASE bad
    <3>1. t1.master.state # "seq_ok"
      BY <2>9, <2>11
    <3>2. \A k \in Nat : ~MasterPartAt(s, i, k)
      BY <2>10, <2>11
    <3> HIDE DEF t1, bad
    <3>3. ~r.ok /\ r.t = t1
      <4>1. (t1.master.state = "seq_ok") = FALSE
        BY <3>1
      <4>2. r = [t |-> t1, offset |-> o + len, ok |-> FALSE]
        BY <2>7, <4>1 DEF MasterParsed
      <4>3. QED  BY <4>2
    <3>4. MasterRefused(s, i, r)
      BY <3>1, <3>2, <3>3 DEF MasterRefused
    <3>5. QED  BY <3>4
  <2>12. CASE ~bad
    <3> DEFINE kind == TypeOf(s[i + 1])
    <3>1. PICK body, c : t1 = Tel(kind, Sound(body, c, ma), sl)
      <4> HIDE DEF bad, t1, b
      <4> QED  BY <2>6, <2>9, <2>12 DEF b
    <3>2. j <= n => MasterPartAt(s, i, j)
      <4>1. SUFFICES ASSUME j <= n PROVE MasterPartAt(s, i, j)
        OBVIOUS
      <4>2. e - o = 6 + d /\ Len(b) = 6 + d
        BY <2>2, <2>4, <2>5, <4>1
      <4>3. b[6 + d] = crc /\ ~NeedsEscape(s[i + 2]) /\ ~NeedsEscape(s[i + 3])
        <5> HIDE DEF b
        <5> QED  BY <2>6, <2>12, <4>2 DEF MasterBad
      <4>4. b[6 + d] = s[j]
        <5>1. 6 + d \in 1..(e - o) /\ o + (6 + d) = j
          BY <2>2, <4>2
        <5> HIDE DEF b
        <5>2. b[6 + d] = s[o + (6 + d)]
          BY <2>5, <5>1
        <5>3. QED  BY <5>1, <5>2
      <4>5. crc = CalculateCRC(SubSeq(s, i, j - 1), FALSE)
        <5>1. o + (5 + d) <= e /\ 5 + d \in Nat /\ o + (5 + d) = j - 1 /\ e <= Len(s)
          BY <2>2, <2>4, <4>2 DEF n
        <5> DEFINE k5 == 5 + d
        <5>2. k5 \in Nat /\ o + k5 <= e /\ e <= Len(s) /\ e \in Nat
          BY <2>4, <5>1
        <5> HIDE DEF k5
        <5>3. SubSeq(SubSeq(s, o + 1, e), 1, k5) = SubSeq(s, o + 1, o + k5)
          BY ONLY <5>2, SlicedTwice, s \in Seq(Byte), o \in Nat
        <5>4. QED  BY <5>1, <5>3 DEF k5
      <4>6. GoodCrc(s, i, j)
        <5>1. i >= 1 /\ j >= i /\ j <= Len(s)
          BY <1>2, <2>2, <4>1 DEF n
        <5>2. s[j] = CalculateCRC(SubSeq(s, i, j - 1), FALSE)
          BY <4>3, <4>4, <4>5
        <5> HIDE DEF i, j
        <5>3. QED  BY <1>2, <2>8, <5>1, <5>2, GoodCrcIs
      <4>7. j >= i + 5 /\ j = i + 5 + d /\ j <= Len(s)
        BY <2>2, <4>1 DEF n
      <4> HIDE DEF j
      <4>8. QED  BY <1>3, <2>1, <2>3, <4>3, <4>6, <4>7 DEF MasterPartAt, d
    <3> HIDE DEF t1, bad, b, j
    <3>3. IF kind = "broadcast" THEN r = Goes(t1, j)
          ELSE IF IsAnswered(s, j)
          THEN r = Goes(Tel(kind, Sound(body, c, s[j + 1]), sl), j + 1)
          ELSE ~r.ok /\ r.t.master.state # "seq_ok"
      <4>1. r = MasterParsed(s, j, t1) /\ Len(s) \in Nat
        BY <1>2, <2>7, <2>8 DEF n
      <4> HIDE DEF kind
      <4>2. QED  BY ONLY <2>8, <3>1, <4>1, MasterAnswer
    <3>4. kind = "broadcast" <=> s[i + 1] = Broad
      BY DEF TypeOf
    <3>5. CASE s[i + 1] = Broad
      <4>1. r = Goes(Tel("broadcast", Sound(body, c, ma), sl), j)
        BY <3>1, <3>3, <3>4, <3>5
      <4>2. i = 1 => \E k \in Nat : MasterPartAt(s, i, k)
        <5>1. i = 1 => j <= n
          BY <1>2, <2>1, <2>2 DEF j
        <5>2. QED  BY <2>8, <3>2, <5>1
      <4>3. MasterToAll(s, i, r, ma, sl)
        BY <3>5, <4>1, <4>2 DEF MasterToAll
      <4>4. QED  BY <4>3
    <3>6. CASE s[i + 1] # Broad /\ IsAnswered(s, j)
      <4>1. r = Goes(Tel(kind, Sound(body, c, s[j + 1]), sl), j + 1)
        BY <3>3, <3>4, <3>6
      <4>2. j <= n
        BY <1>2, <2>8, <3>6 DEF IsAnswered, n
      <4>3. MasterTaken(s, i, r, sl)
        BY <2>8, <3>2, <3>6, <4>1, <4>2 DEF MasterTaken
      <4>4. QED  BY <4>3
    <3>7. CASE s[i + 1] # Broad /\ ~IsAnswered(s, j)
      <4>1. ~r.ok /\ r.t.master.state # "seq_ok"
        BY <3>3, <3>4, <3>7
      <4>2. MasterRefused(s, i, r)
        BY <2>10, <3>7, <4>1 DEF MasterRefused, j
      <4>3. QED  BY <4>2
    <3>8. QED  BY <3>5, <3>6, <3>7
  <2>13. QED  BY <2>11, <2>12
<1>7. QED  BY <1>5, <1>6

\* The slave part at i was not taken, and there is none that is answered.
SlaveRefused(s, i, r, type, master) ==
  /\ ~r.ok
  /\ \E part : r.t = Tel(type, master, part) /\ part.state # "seq_ok"
  /\ \A j \in Nat : SlavePartAt(s, i, j) => ~IsAnswered(s, j)

\* It was taken, and its answer too.
SlaveTaken(s, i, r, type, master) ==
  \E j \in Nat :
    /\ SlavePartAt(s, i, j) /\ IsAnswered(s, j)
    /\ \E b, crc : r = Goes(Tel(type, master, Sound(b, crc, s[j + 1])), j + 1)

\* parseSequencePart, of a slave part.
LEMMA SlavePartParsed ==
  ASSUME NEW s \in Seq(Byte), NEW o \in Nat,
         NEW ty, NEW mm, NEW ms, NEW mc, NEW ma, NEW mst,
         NEW p, p = Goes(Tel(ty, mm, Made(ms, mc, ma, mst)), o),
         NEW r, r = ParseSlavePart(s, p)
  PROVE  SlaveRefused(s, o + 1, r, ty, mm) \/ SlaveTaken(s, o + 1, r, ty, mm)
<1> DEFINE n == Len(s)
           i == o + 1
           d == s[i]
           state == CheckSlaveSequence(s, o)
<1>1. p.offset = o /\ p.t = Tel(ty, mm, Made(ms, mc, ma, mst))
  BY DEF Goes
<1>2. n \in Nat /\ i \in Nat /\ MaxDataBytes \in Nat
  BY DEF MaxDataBytes
<1>3. At0(s, o) = d /\ SlaveHeader = 1
  BY DEF At0, SlaveHeader
<1>4. CASE state # "seq_ok"
  <2>1. r = [p EXCEPT !.t.slave.state = state, !.ok = FALSE]
    BY <1>1, <1>4, ParseSlaveIs
  <2> HIDE DEF state
  <2> DEFINE part == [Made(ms, mc, ma, mst) EXCEPT !.state = state]
  <2>2. part.state = state
    BY DEF Made
  <2>3. r.ok = FALSE /\ r.t = [p.t EXCEPT !.slave.state = state]
    BY <2>1 DEF Goes
  <2>4. r.t = Tel(ty, mm, part)
    BY <1>1, <2>3 DEF Tel
  <2> HIDE DEF part
  <2>5. ASSUME NEW j \in Nat, SlavePartAt(s, i, j) PROVE FALSE
    <3>1. j >= i + 1 /\ j <= n /\ d <= MaxDataBytes /\ j = i + 1 + d
      BY <2>5 DEF SlavePartAt
    <3>2. i \in 1..n
      <4> HIDE DEF n
      <4> QED  BY <1>2, <3>1
    <3>3. d \in Byte
      BY <3>2
    <3> HIDE DEF d, n
    <3>4. d \in Nat
      BY <3>3 DEF Byte
    <3>5. ~(n < o + 1) /\ ~(d > MaxDataBytes) /\ ~(n < o + 1 + d + 1)
      BY <1>2, <3>1, <3>4
    <3>6. state = "seq_ok"
      BY <1>3, <3>5 DEF CheckSlaveSequence, state, n
    <3>7. QED  BY <1>4, <3>6
  <2>6. SlaveRefused(s, i, r, ty, mm)
    BY <1>4, <2>2, <2>3, <2>4, <2>5 DEF SlaveRefused
  <2>7. QED  BY <2>6
<1>5. CASE state = "seq_ok"
  <2> DEFINE len == 2 + d
             e == o + len
             b == SubSeq(s, i, e)
             j == o + 2 + d
  <2>1. ~(n < o + 1) /\ ~(d > MaxDataBytes) /\ ~(n < o + 1 + d + 1)
    BY <1>3, <1>5 DEF CheckSlaveSequence
  <2>2. d \in Nat /\ d \in Byte
    <3>1. i \in 1..n
      <4> HIDE DEF n
      <4> QED  BY <1>2, <2>1
    <3>2. d \in Byte
      BY <3>1
    <3> HIDE DEF d
    <3>3. QED  BY <3>2 DEF Byte
  <2> HIDE DEF d, n
  <2>3. /\ len \in Nat /\ len >= 1 /\ o < n /\ len = 1 + d + 1 /\ d <= MaxDataBytes
        /\ e \in Nat /\ e <= n /\ e - o = 2 + d /\ e = j /\ j \in Nat /\ j >= i + 1
        /\ j = i + 1 + d
    BY <1>2, <2>1, <2>2
  <2> HIDE DEF len, e
  <2>4. AssignSlice(Reduced(s), o, len) = Reduced(b) /\ b \in Seq(Byte) /\ Len(b) = 2 + d
        /\ \A k \in 1..(2 + d) : b[k] = s[o + k]
    <3>1. e = SliceEnd(s, o, len)
      BY <1>2, <2>3 DEF SliceEnd, e, n
    <3>2. b = SubSeq(s, o + 1, e)
      OBVIOUS
    <3> HIDE DEF b
    <3>3. o < Len(s)
      BY <2>3 DEF n
    <3>4. /\ AssignSlice(Reduced(s), o, len) = Reduced(b) /\ b \in Seq(Byte) /\ Len(b) = e - o
          /\ \A k \in 1..(e - o) : b[k] = s[o + k]
      <4>1. len \in Nat /\ len >= 1
        BY <2>3
      <4>2. CanSlice(s, o, len, e, b)
        BY <3>1, <3>2, <3>3, <4>1 DEF CanSlice
      <4>3. IsSlice(s, o, len, e, b)
        BY ONLY <4>2, SliceIs
      <4>4. QED  BY <4>3 DEF IsSlice
    <3>5. QED  BY <2>3, <3>4
  <2>5. b[1] = d /\ b[2 + d] = s[j]
    <3>1. 1 \in 1..(2 + d) /\ 2 + d \in 1..(2 + d) /\ o + (2 + d) = j
      BY <2>2
    <3> HIDE DEF b
    <3>2. b[1] = s[o + 1] /\ b[2 + d] = s[o + (2 + d)]
      BY <2>4, <3>1
    <3>3. QED  BY <3>1, <3>2 DEF d
  <2> DEFINE t0 == Tel(ty, mm, Made(b, mc, ma, mst))
             t1 == SlaveMade(t0, b, SlaveState(b))
             crc == CalculateCRC(SubSeq(b, 1, 1 + d), FALSE)
  <2>6. r = SlaveParsed(s, o + len, t1)
    <3> DEFINE slice == AssignSlice(Reduced(s), o, len)
    <3>1. len = SlaveHeader + At0(s, o) + 1
      BY <1>3, <2>3
    <3>2. r = SlaveParsed(s, o + len, CreateSlave([p.t EXCEPT !.slave.s = slice.s], slice))
      BY <1>1, <1>5, <3>1, ParseSlaveIs
    <3> HIDE DEF b
    <3>3. slice = Reduced(b) /\ Reduced(b).s = b
      BY <2>4 DEF Reduced
    <3>4. [p.t EXCEPT !.slave.s = b] = t0
      BY <1>1 DEF Tel, Made
    <3> HIDE DEF slice, t0
    <3>5. CreateSlave(t0, slice) = t1
      BY <3>3, CreateIs
    <3>6. QED  BY <3>2, <3>3, <3>4, <3>5
  <2>7. o + len = j
    BY <2>2 DEF len
  <2>8. IF b[2 + d] # crc
        THEN \E part : t1 = Tel(ty, mm, part) /\ part.state # "seq_ok"
        ELSE \E body, c : t1 = Tel(ty, mm, Sound(body, c, ma))
    <3> HIDE DEF b
    <3>1. SlaveSlice(b, d)
      BY <2>2, <2>3, <2>4, <2>5 DEF SlaveSlice
    <3>2. t0 = Tel(ty, mm, Made(b, mc, ma, mst)) /\ t1 = SlaveMade(t0, b, SlaveState(b))
      OBVIOUS
    <3> HIDE DEF t0, t1
    <3>3. IF SlaveBad(b, d)
          THEN \E part : t1 = Tel(ty, mm, part) /\ part.state # "seq_ok"
          ELSE \E body, c : t1 = Tel(ty, mm, Sound(body, c, ma))
      BY ONLY <3>1, <3>2, SlaveMadeIs
    <3>4. QED  BY <3>3 DEF SlaveBad
  <2>9. SlavePartAt(s, i, j) <=> b[2 + d] = crc
    <3>1. crc = CalculateCRC(SubSeq(s, i, j - 1), FALSE)
      <4>1. o + (1 + d) <= e /\ 1 + d \in Nat /\ o + (1 + d) = j - 1 /\ e <= Len(s)
        BY <2>2, <2>3 DEF n
      <4> DEFINE k1 == 1 + d
      <4>2. k1 \in Nat /\ o + k1 <= e /\ e <= Len(s) /\ e \in Nat
        BY <2>3, <4>1
      <4> HIDE DEF k1
      <4>3. SubSeq(SubSeq(s, o + 1, e), 1, k1) = SubSeq(s, o + 1, o + k1)
        BY ONLY <4>2, SlicedTwice, s \in Seq(Byte), o \in Nat
      <4>4. QED  BY <4>1, <4>3 DEF k1
    <3>2. i >= 1 /\ j >= i /\ j <= Len(s)
      BY <1>2, <2>2, <2>3 DEF n
    <3>3. GoodCrc(s, i, j) <=> s[j] = CalculateCRC(SubSeq(s, i, j - 1), FALSE)
      <4> HIDE DEF i, j
      <4> QED  BY <1>2, <2>3, <3>2, GoodCrcIs
    <3>4. GoodCrc(s, i, j) <=> b[2 + d] = crc
      <4> HIDE DEF b, crc
      <4> QED  BY <2>5, <3>1, <3>3
    <3>5. SlavePartAt(s, i, j) <=> GoodCrc(s, i, j)
      <4> HIDE DEF j
      <4> QED  BY <2>3, <3>2 DEF SlavePartAt, d
    <3> HIDE DEF b, crc
    <3>6. QED  BY <3>4, <3>5
  <2>10. ASSUME NEW k \in Nat, SlavePartAt(s, i, k) PROVE k = j
    <3>1. k = i + 1 + d
      BY <2>10 DEF SlavePartAt, d
    <3>2. QED  BY <2>3, <3>1
  <2> HIDE DEF t1, b, crc, j
  <2>11. CASE b[2 + d] # crc
    <3>1. PICK part : t1 = Tel(ty, mm, part) /\ part.state # "seq_ok"
      BY <2>8, <2>11
    <3>2. t1.slave = part
      BY <3>1 DEF Tel
    <3>3. r = [t |-> t1, offset |-> o + len, ok |-> FALSE]
      BY <2>6, <3>1, <3>2 DEF SlaveParsed
    <3>4. r.ok = FALSE /\ r.t = t1
      BY <3>3
    <3>5. SlaveRefused(s, i, r, ty, mm)
      BY <2>9, <2>10, <2>11, <3>1, <3>4 DEF SlaveRefused
    <3>6. QED  BY <3>5
  <2>12. CASE b[2 + d] = crc
    <3>1. PICK body, c : t1 = Tel(ty, mm, Sound(body, c, ma))
      BY <2>8, <2>12
    <3>2. IF IsAnswered(s, j)
          THEN r = Goes(Tel(ty, mm, Sound(body, c, s[j + 1])), j + 1)
          ELSE ~r.ok /\ \E part : r.t = Tel(ty, mm, part) /\ part.state # "seq_ok"
      <4>1. r = SlaveParsed(s, j, t1) /\ Len(s) \in Nat
        BY <1>2, <2>6, <2>7 DEF n
      <4>2. j \in Nat
        BY <2>3
      <4>3. QED  BY ONLY <3>1, <4>1, <4>2, SlaveAnswer
    <3>3. CASE IsAnswered(s, j)
      <4>1. SlaveTaken(s, i, r, ty, mm)
        BY <2>3, <2>9, <2>12, <3>2, <3>3 DEF SlaveTaken
      <4>2. QED  BY <4>1
    <3>4. CASE ~IsAnswered(s, j)
      <4>1. SlaveRefused(s, i, r, ty, mm)
        BY <2>10, <3>2, <3>4 DEF SlaveRefused
      <4>2. QED  BY <4>1
    <3>5. QED  BY <3>3, <3>4
  <2>13. QED  BY <2>11, <2>12
<1>6. QED  BY <1>4, <1>5

-----------------------------------------------------------------------------
\* The byte after a part acknowledges it, or refuses it.
IsAcked(s, j) == j + 1 <= Len(s) /\ s[j + 1] = Ack

IsNaked(s, j) == j + 1 <= Len(s) /\ s[j + 1] = Nak

\* An answer is one of the two.
LEMMA Answers ==
  ASSUME NEW s, NEW j
  PROVE  /\ IsAnswered(s, j) <=> IsAcked(s, j) \/ IsNaked(s, j)
         /\ ~(IsAcked(s, j) /\ IsNaked(s, j))
         /\ IsAcked(s, j) => s[j + 1] # Nak
         /\ IsNaked(s, j) => s[j + 1] = Nak
BY DEF IsAnswered, IsAcked, IsNaked, Ack, Nak

\* The slave part at i is acknowledged, at once or when it is repeated.
SlaveAnswered(s, i) ==
  \/ \E j \in Nat : SlavePartAt(s, i, j) /\ IsAcked(s, j)
  \/ \E j, k \in Nat : /\ SlavePartAt(s, i, j) /\ IsNaked(s, j)
                       /\ SlavePartAt(s, j + 2, k) /\ IsAcked(s, k)

\* What the grammar says of the slave parts.
LEMMA SlaveAccepted ==
  ASSUME NEW s \in Seq(Byte), NEW i \in Nat, i >= 1
  PROVE  (\E l \in DOMAIN s : Accepted(s, i, l, SlavePartAt) # {}) <=> SlaveAnswered(s, i)
<1> DEFINE n == Len(s)
<1>1. DOMAIN s = 1..n /\ n \in Nat
  OBVIOUS
<1>2. ASSUME NEW l \in DOMAIN s, NEW h \in Accepted(s, i, l, SlavePartAt)
      PROVE  SlaveAnswered(s, i)
  <2>1. /\ h \in i..(l - 1) /\ s[l] = Ack /\ SlavePartAt(s, h, l - 1)
        /\ h = i \/ (h > i + 1 /\ s[h - 1] = Nak /\ SlavePartAt(s, i, h - 2))
    BY <1>2 DEF Accepted
  <2> DEFINE k == l - 1
             j == h - 2
  <2>2. k \in Nat /\ k + 1 = l /\ l <= n
    BY <1>1
  <2>3. IsAcked(s, k)
    BY <2>1, <2>2 DEF IsAcked
  <2>4. CASE h = i
    BY <2>1, <2>2, <2>3, <2>4 DEF SlaveAnswered
  <2>5. CASE h # i
    <3>1. j \in Nat /\ j + 2 = h /\ j + 1 = h - 1 /\ j + 1 <= n
      BY <1>1, <2>1, <2>2, <2>5
    <3>2. IsNaked(s, j)
      BY <2>1, <2>5, <3>1 DEF IsNaked
    <3>3. SlavePartAt(s, i, j) /\ SlavePartAt(s, j + 2, k)
      BY <2>1, <2>5, <3>1
    <3> HIDE DEF j, k
    <3>4. QED  BY <2>2, <2>3, <3>1, <3>2, <3>3 DEF SlaveAnswered
  <2>6. QED  BY <2>4, <2>5
<1>3. ASSUME NEW h \in Nat, NEW k \in Nat, SlavePartAt(s, h, k), IsAcked(s, k), h >= i,
             h = i \/ (h > i + 1 /\ s[h - 1] = Nak /\ SlavePartAt(s, i, h - 2))
      PROVE  \E l \in DOMAIN s : Accepted(s, i, l, SlavePartAt) # {}
  <2> DEFINE l == k + 1
  <2>1. k >= h + 1 /\ l <= n /\ s[l] = Ack
    BY <1>3 DEF SlavePartAt, IsAcked
  <2>2. l \in DOMAIN s /\ l - 1 = k /\ h \in i..(l - 1)
    BY <1>1, <1>3, <2>1
  <2> HIDE DEF l
  <2>3. h \in Accepted(s, i, l, SlavePartAt)
    BY <1>3, <2>1, <2>2 DEF Accepted
  <2>4. QED  BY <2>2, <2>3
<1>4. ASSUME NEW j \in Nat, NEW k \in Nat, SlavePartAt(s, i, j), IsNaked(s, j),
             SlavePartAt(s, j + 2, k), IsAcked(s, k)
      PROVE  \E l \in DOMAIN s : Accepted(s, i, l, SlavePartAt) # {}
  <2> DEFINE h == j + 2
  <2>1. j >= i + 1
    BY <1>4 DEF SlavePartAt
  <2>2. h \in Nat /\ h - 2 = j /\ h - 1 = j + 1 /\ h > i + 1 /\ h >= i
    BY <2>1
  <2>3. s[h - 1] = Nak /\ SlavePartAt(s, i, h - 2) /\ SlavePartAt(s, h, k)
    BY <1>4, <2>2 DEF IsNaked
  <2> HIDE DEF h
  <2>4. QED  BY <1>3, <1>4, <2>2, <2>3
<1>5. i >= i /\ i \in Nat
  OBVIOUS
<1>6. QED  BY <1>2, <1>3, <1>4, <1>5 DEF SlaveAnswered

\* parse, of the slave parts: a repeated part that is refused again leaves
\* err_ack_negative.
LEMMA SlaveSide ==
  ASSUME NEW s \in Seq(Byte), NEW o \in Nat, NEW ty, NEW mm,
         NEW ms, NEW mc, NEW ma, NEW mst, mm.state = "seq_ok", ty = "master_slave",
         NEW p, p = Goes(Tel(ty, mm, Made(ms, mc, ma, mst)), o),
         NEW q, q = SlaveParts(s, p)
  PROVE  IsValid(q.t) <=> SlaveAnswered(s, o + 1)
<1> DEFINE i == o + 1
           p1 == ParseSlavePart(s, p)
           p2 == ParseSlavePart(s, p1)
<1>1. q = IF ~p1.ok \/ p1.t.slave.ack # Nak THEN p1 ELSE SlaveAgain(p2)
  BY DEF SlaveParts, With
<1>2. SlaveRefused(s, i, p1, ty, mm) \/ SlaveTaken(s, i, p1, ty, mm)
  <2> HIDE DEF p1
  <2> QED  BY SlavePartParsed DEF p1
<1>3. ASSUME NEW part, q.t = Tel(ty, mm, part)
      PROVE  IsValid(q.t) <=> part.state = "seq_ok"
  <2>1. q.t.type = ty /\ q.t.master = mm /\ q.t.slave = part
    BY <1>3 DEF Tel
  <2>2. QED  BY <2>1 DEF IsValid
<1>4. CASE SlaveRefused(s, i, p1, ty, mm)
  <2> HIDE DEF p1, p2
  <2>1. PICK part : p1.t = Tel(ty, mm, part) /\ part.state # "seq_ok"
    BY <1>4 DEF SlaveRefused
  <2>2. q = p1
    BY <1>1, <1>4 DEF SlaveRefused
  <2>3. ~IsValid(q.t)
    BY <1>3, <2>1, <2>2
  <2>4. ~SlaveAnswered(s, i)
    BY <1>4, Answers DEF SlaveRefused, SlaveAnswered
  <2>5. QED  BY <2>3, <2>4
<1>5. CASE SlaveTaken(s, i, p1, ty, mm)
  <2> HIDE DEF p1
  <2>1. PICK j \in Nat :
          /\ SlavePartAt(s, i, j) /\ IsAnswered(s, j)
          /\ \E b, crc : p1 = Goes(Tel(ty, mm, Sound(b, crc, s[j + 1])), j + 1)
    BY <1>5 DEF SlaveTaken
  <2>2. PICK b, crc : p1 = Goes(Tel(ty, mm, Sound(b, crc, s[j + 1])), j + 1)
    BY <2>1
  <2>3. /\ p1.ok /\ p1.t = Tel(ty, mm, Sound(b, crc, s[j + 1]))
        /\ p1.t.slave.ack = s[j + 1]
    BY <2>2 DEF Goes, Tel, Sound, Made
  <2>4. \A k \in Nat : SlavePartAt(s, i, k) => k = j
    BY <2>1, PartEnds
  <2>5. CASE IsAcked(s, j)
    <3>1. q = p1
      BY <1>1, <2>3, <2>5, Answers
    <3>2. Sound(b, crc, s[j + 1]).state = "seq_ok"
      BY DEF Sound, Made
    <3>3. IsValid(q.t)
      BY <1>3, <2>3, <3>1, <3>2
    <3>4. SlaveAnswered(s, i)
      BY <2>1, <2>5 DEF SlaveAnswered
    <3>5. QED  BY <3>3, <3>4
  <2>6. CASE IsNaked(s, j)
    <3> HIDE DEF p2
    <3>1. q = SlaveAgain(p2)
      BY <1>1, <2>3, <2>6, Answers DEF p2
    <3> DEFINE o2 == j + 1
               h == o2 + 1
    <3>2. SlaveRefused(s, h, p2, ty, mm) \/ SlaveTaken(s, h, p2, ty, mm)
      <4>1. p1 = Goes(Tel(ty, mm, Made(b, crc, s[j + 1], Sound(b, crc, s[j + 1]).state)), o2)
        BY <2>2 DEF Sound, Made
      <4>2. o2 \in Nat
        OBVIOUS
      <4> HIDE DEF o2
      <4>3. QED  BY <4>1, <4>2, SlavePartParsed DEF p2
    <3>3. h = j + 2 /\ h \in Nat
      OBVIOUS
    <3>4. SlaveAnswered(s, i) <=> \E k \in Nat : SlavePartAt(s, h, k) /\ IsAcked(s, k)
      <4> HIDE DEF h
      <4> QED  BY <2>1, <2>4, <2>6, <3>3, Answers DEF SlaveAnswered
    <3> HIDE DEF h
    <3>5. CASE SlaveRefused(s, h, p2, ty, mm)
      <4>1. PICK part : p2.t = Tel(ty, mm, part) /\ part.state # "seq_ok"
        BY <3>5 DEF SlaveRefused
      <4>2. q = p2
        BY <3>1, <3>5 DEF SlaveRefused, SlaveAgain
      <4>3. ~IsValid(q.t)
        BY <1>3, <4>1, <4>2
      <4>4. QED  BY <3>4, <3>5, <4>3, Answers DEF SlaveRefused
    <3>6. CASE SlaveTaken(s, h, p2, ty, mm)
      <4>1. PICK k \in Nat :
              /\ SlavePartAt(s, h, k) /\ IsAnswered(s, k)
              /\ \E b2, c2 : p2 = Goes(Tel(ty, mm, Sound(b2, c2, s[k + 1])), k + 1)
        BY <3>6 DEF SlaveTaken
      <4>2. PICK b2, c2 : p2 = Goes(Tel(ty, mm, Sound(b2, c2, s[k + 1])), k + 1)
        BY <4>1
      <4> DEFINE part == Sound(b2, c2, s[k + 1])
      <4>3. p2.ok /\ p2.t = Tel(ty, mm, part) /\ p2.t.slave.ack = s[k + 1]
        BY <4>2 DEF Goes, Tel, Sound, Made
      <4>4. \A m \in Nat : SlavePartAt(s, h, m) => m = k
        BY <4>1, PartEnds
      <4>5. CASE IsAcked(s, k)
        <5>1. q = p2
          BY <3>1, <4>3, <4>5, Answers DEF SlaveAgain
        <5>2. part.state = "seq_ok"
          BY DEF Sound, Made
        <5>3. IsValid(q.t)
          BY <1>3, <4>3, <5>1, <5>2
        <5>4. QED  BY <3>4, <4>1, <4>5, <5>3
      <4>6. CASE IsNaked(s, k)
        <5> DEFINE bad == "err_ack_negative"
                   spoilt == [part EXCEPT !.state = bad]
        <5>1. bad # "seq_ok"
          OBVIOUS
        <5>2. q = [p2 EXCEPT !.t.slave.state = bad]
          BY <3>1, <4>3, <4>6, Answers DEF SlaveAgain
        <5> HIDE DEF bad
        <5>3. q.t = [p2.t EXCEPT !.slave.state = bad]
          BY <4>2, <5>2 DEF Goes
        <5>4. q.t = Tel(ty, mm, spoilt)
          BY <4>3, <5>3 DEF Tel
        <5>5. spoilt.state = bad
          BY DEF Sound, Made
        <5> HIDE DEF spoilt
        <5>6. ~IsValid(q.t)
          BY <1>3, <5>1, <5>4, <5>5
        <5>7. QED  BY <3>4, <4>4, <4>6, <5>6, Answers
      <4>7. QED  BY <4>1, <4>5, <4>6, Answers
    <3>7. QED  BY <3>2, <3>5, <3>6
  <2>7. QED  BY <2>1, <2>5, <2>6, Answers
<1>6. QED  BY <1>2, <1>4, <1>5

\* After a master part at h, acknowledged at k, that is not to all: a slave
\* answers if the part asks for it.
Onward(s, h, k) ==
  /\ s[h + 1] # Broad
  /\ TypeOf(s[h + 1]) = "master_slave" => SlaveAnswered(s, k + 1)

\* A broadcast is all there is.
ToAll(s) == s[2] = Broad /\ \E j \in Nat : MasterPartAt(s, 1, j)

\* The master part is acknowledged, at once or when it is repeated, and what
\* it asks for follows.
MasterAnswered(s) ==
  /\ s[2] # Broad
  /\ \/ \E j \in Nat : MasterPartAt(s, 1, j) /\ IsAcked(s, j) /\ Onward(s, 1, j + 1)
     \/ \E j, k \in Nat : /\ MasterPartAt(s, 1, j) /\ IsNaked(s, j)
                          /\ MasterPartAt(s, j + 2, k) /\ IsAcked(s, k)
                          /\ Onward(s, j + 2, k + 1)

\* What the grammar says of an exchange.
LEMMA ExchangeIs ==
  ASSUME NEW s \in Seq(Byte)
  PROVE  Exchange(s) <=> ToAll(s) \/ MasterAnswered(s)
<1> DEFINE n == Len(s)
           Rest(h, k) == /\ Broad \notin {s[2], s[h + 1]}
                         /\ TypeOf(s[h + 1]) = "master_slave" =>
                              \E l \in DOMAIN s : Accepted(s, k + 1, l, SlavePartAt) # {}
           Answered == \E k \in DOMAIN s : \E h \in Accepted(s, 1, k, MasterPartAt) : Rest(h, k)
<1>1. DOMAIN s = 1..n /\ n \in Nat
  OBVIOUS
<1>2. ASSUME NEW h, NEW k \in Nat
      PROVE  Rest(h, k) <=> s[2] # Broad /\ Onward(s, h, k)
  <2> DEFINE i == k + 1
  <2>1. i \in Nat /\ i >= 1
    OBVIOUS
  <2> HIDE DEF i
  <2>2. (\E l \in DOMAIN s : Accepted(s, i, l, SlavePartAt) # {}) <=> SlaveAnswered(s, i)
    BY <2>1, SlaveAccepted
  <2>3. QED  BY <2>2 DEF Onward, i
<1> HIDE DEF Rest
<1>3. (\E j \in DOMAIN s : MasterPartAt(s, 1, j) /\ s[2] = Broad) <=> ToAll(s)
  <2>1. ASSUME NEW j \in Nat, MasterPartAt(s, 1, j) PROVE j \in DOMAIN s
    BY <1>1, <2>1 DEF MasterPartAt
  <2>2. \A j \in DOMAIN s : j \in Nat
    BY <1>1
  <2>3. QED  BY <2>1, <2>2 DEF ToAll
<1>4. ASSUME NEW k \in DOMAIN s, NEW h \in Accepted(s, 1, k, MasterPartAt), Rest(h, k)
      PROVE  MasterAnswered(s)
  <2>1. /\ h \in 1..(k - 1) /\ s[k] = Ack /\ MasterPartAt(s, h, k - 1)
        /\ h = 1 \/ (h > 1 + 1 /\ s[h - 1] = Nak /\ MasterPartAt(s, 1, h - 2))
    BY <1>4 DEF Accepted
  <2> DEFINE e == k - 1
             j == h - 2
  <2>2. e \in Nat /\ k \in Nat /\ e + 1 = k /\ k <= n
    BY <1>1
  <2>3. s[2] # Broad /\ Onward(s, h, e + 1)
    BY <1>2, <1>4, <2>2
  <2>4. IsAcked(s, e)
    BY <2>1, <2>2 DEF IsAcked
  <2>5. CASE h = 1
    <3> HIDE DEF e
    <3> QED  BY <2>1, <2>2, <2>3, <2>4, <2>5 DEF MasterAnswered, e
  <2>6. CASE h # 1
    <3>1. j \in Nat /\ j + 2 = h /\ j + 1 = h - 1 /\ j + 1 <= n
      BY <1>1, <2>1, <2>2, <2>6
    <3>2. IsNaked(s, j)
      BY <2>1, <2>6, <3>1 DEF IsNaked
    <3>3. MasterPartAt(s, 1, j) /\ MasterPartAt(s, j + 2, e) /\ Onward(s, j + 2, e + 1)
      BY <2>1, <2>3, <2>6, <3>1
    <3> HIDE DEF j, e
    <3>4. QED  BY <2>2, <2>3, <2>4, <3>1, <3>2, <3>3 DEF MasterAnswered
  <2>7. QED  BY <2>5, <2>6
<1>5. ASSUME NEW h \in Nat, NEW e \in Nat, MasterPartAt(s, h, e), IsAcked(s, e), h >= 1,
             s[2] # Broad, Onward(s, h, e + 1),
             h = 1 \/ (h > 2 /\ s[h - 1] = Nak /\ MasterPartAt(s, 1, h - 2))
      PROVE  Answered
  <2> DEFINE k == e + 1
  <2>1. e >= h + 5 /\ k <= n /\ s[k] = Ack
    BY <1>5 DEF MasterPartAt, IsAcked
  <2>2. k \in DOMAIN s /\ k - 1 = e /\ h \in 1..(k - 1) /\ k \in Nat
    BY <1>1, <1>5, <2>1
  <2>3. Rest(h, k)
    BY <1>2, <1>5, <2>2
  <2> HIDE DEF k
  <2>4. h \in Accepted(s, 1, k, MasterPartAt)
    BY <1>5, <2>1, <2>2 DEF Accepted
  <2>5. QED  BY <2>2, <2>3, <2>4
<1>6. ASSUME NEW j \in Nat, NEW e \in Nat, MasterPartAt(s, 1, j), IsNaked(s, j), s[2] # Broad,
             MasterPartAt(s, j + 2, e), IsAcked(s, e), Onward(s, j + 2, e + 1)
      PROVE  Answered
  <2> DEFINE h == j + 2
  <2>1. j >= 6
    BY <1>6 DEF MasterPartAt
  <2>2. h \in Nat /\ h - 2 = j /\ h - 1 = j + 1 /\ h > 2 /\ h >= 1
    BY <2>1
  <2>3. s[h - 1] = Nak /\ MasterPartAt(s, 1, h - 2) /\ MasterPartAt(s, h, e)
        /\ Onward(s, h, e + 1)
    BY <1>6, <2>2 DEF IsNaked
  <2> HIDE DEF h, Answered
  <2>4. QED  BY <1>5, <1>6, <2>2, <2>3
<1>7. Answered <=> MasterAnswered(s)
  <2>1. Answered => MasterAnswered(s)
    BY <1>4
  <2>2. ASSUME NEW j \in Nat, MasterPartAt(s, 1, j), IsAcked(s, j), Onward(s, 1, j + 1),
               s[2] # Broad
        PROVE  Answered
    <3>1. 1 \in Nat /\ 1 >= 1
      OBVIOUS
    <3> HIDE DEF Answered
    <3>2. QED  BY <1>5, <2>2, <3>1
  <2> HIDE DEF Answered
  <2>3. QED  BY <1>6, <2>1, <2>2 DEF MasterAnswered
<1>8. Exchange(s) <=> (\E j \in DOMAIN s : MasterPartAt(s, 1, j) /\ s[2] = Broad) \/ Answered
  BY DEF Exchange, Rest
<1> HIDE DEF Answered
<1>9. QED  BY <1>3, <1>7, <1>8

\* parse, once the master parts are read.
Parsed(s, p) ==
  IF p.ok /\ p.t.type = "master_slave" THEN SlaveParts(s, p).t ELSE p.t

\* parse, after an acknowledged master part.
LEMMA GoesOnward ==
  ASSUME NEW s \in Seq(Byte), NEW h, NEW k \in Nat, s[h + 1] # Broad,
         NEW b, NEW c, NEW a, NEW ms, NEW mc, NEW ma, NEW mst,
         NEW p, p = Goes(Tel(TypeOf(s[h + 1]), Sound(b, c, a), Made(ms, mc, ma, mst)), k)
  PROVE  IsValid(Parsed(s, p)) <=> Onward(s, h, k)
<1> DEFINE ty == TypeOf(s[h + 1])
           mm == Sound(b, c, a)
           q == SlaveParts(s, p)
<1>1. p.ok /\ p.t.type = ty /\ p.t.master = mm /\ mm.state = "seq_ok"
  BY DEF Goes, Tel, Sound, Made
<1>2. CASE ty = "master_slave"
  <2>1. Parsed(s, p) = q.t
    BY <1>1, <1>2 DEF Parsed
  <2> HIDE DEF ty, mm, q
  <2>2. p = Goes(Tel(ty, mm, Made(ms, mc, ma, mst)), k)
    BY DEF ty, mm
  <2>3. IsValid(q.t) <=> SlaveAnswered(s, k + 1)
    BY <1>1, <1>2, <2>2, SlaveSide DEF q
  <2>4. QED  BY <1>2, <2>1, <2>3 DEF Onward, ty
<1>3. CASE ty # "master_slave"
  <2>1. Parsed(s, p) = p.t
    BY <1>1, <1>3 DEF Parsed
  <2> HIDE DEF ty, mm
  <2>2. IsValid(p.t)
    BY <1>1, <1>3 DEF IsValid
  <2>3. QED  BY <1>3, <2>1, <2>2 DEF Onward, ty
<1>4. QED  BY <1>2, <1>3

\* The parser and the grammar agree on every sequence of bytes.
LEMMA ParsesExactly ==
  ASSUME NEW s \in Seq(Byte), NEW p, p = MasterParts(s)
  PROVE  IsValid(Parsed(s, p)) <=> ToAll(s) \/ MasterAnswered(s)
<1> DEFINE none == << >>
           empty == "seq_empty"
           undef == "undefined"
           blank == Made(none, 0, 0, empty)
           p0 == Goes(Tel(undef, blank, blank), 0)
           p1 == ParseMasterPart(s, p0)
           p2 == ParseMasterPart(s, p1)
<1>1. p = IF ~p1.ok \/ p1.t.type = "broadcast" \/ p1.t.master.ack # Nak THEN p1
          ELSE MasterAgain(p2)
  BY DEF MasterParts, With, NewTelegram, NoPart, Goes, Tel, Made
<1>2. \/ MasterRefused(s, 1, p1) \/ MasterToAll(s, 1, p1, 0, blank)
      \/ MasterTaken(s, 1, p1, blank)
  <2> DEFINE zero == 0
             i == zero + 1
  <2>1. p0 = Goes(Tel(undef, Made(none, zero, zero, empty), blank), zero)
    OBVIOUS
  <2>2. zero \in Nat /\ i = 1 /\ zero = 0
    OBVIOUS
  <2> HIDE DEF none, empty, undef, blank, p0, p1, zero
  <2>3. p1 = ParseMasterPart(s, p0)
    BY DEF p1
  <2>4. \/ MasterRefused(s, zero + 1, p1) \/ MasterToAll(s, zero + 1, p1, zero, blank)
        \/ MasterTaken(s, zero + 1, p1, blank)
    BY ONLY <2>1, <2>2, <2>3, MasterPartParsed, s \in Seq(Byte)
  <2>5. QED  BY <2>2, <2>4
<1> HIDE DEF p0, p1, p2, blank
\* A refused part ends it.
<1>3. ASSUME NEW r, ~r.ok, r.t.master.state # "seq_ok" PROVE ~IsValid(Parsed(s, r))
  BY <1>3 DEF Parsed, IsValid
<1>4. CASE MasterRefused(s, 1, p1)
  <2>1. p = p1 /\ ~p1.ok /\ p1.t.master.state # "seq_ok"
    BY <1>1, <1>4 DEF MasterRefused
  <2>2. ~IsValid(Parsed(s, p))
    BY <1>3, <2>1
  <2>3. \A j \in Nat : MasterPartAt(s, 1, j) => s[2] # Broad /\ ~IsAnswered(s, j)
    <3>1. \A j \in Nat : MasterPartAt(s, 1, j) => s[1 + 1] # Broad /\ ~IsAnswered(s, j)
      BY <1>4 DEF MasterRefused
    <3>2. 1 + 1 = 2
      OBVIOUS
    <3>3. QED  BY <3>1, <3>2
  <2>4. ~ToAll(s)
    BY <2>3 DEF ToAll
  <2>5. ~MasterAnswered(s)
    BY <2>3, Answers DEF MasterAnswered
  <2>6. QED  BY <2>2, <2>4, <2>5
<1>5. CASE MasterToAll(s, 1, p1, 0, blank)
  <2>1. PICK b, crc, off : p1 = Goes(Tel("broadcast", Sound(b, crc, 0), blank), off)
    BY <1>5 DEF MasterToAll
  <2>2. p1.ok /\ p1.t.type = "broadcast" /\ p1.t.master.state = "seq_ok"
    BY <2>1 DEF Goes, Tel, Sound, Made
  <2>3. p = p1
    BY <1>1, <2>2
  <2>4. IsValid(Parsed(s, p))
    BY <2>2, <2>3 DEF Parsed, IsValid
  <2>5. s[1 + 1] = Broad /\ \E j \in Nat : MasterPartAt(s, 1, j)
    BY <1>5 DEF MasterToAll
  <2>6. 1 + 1 = 2
    OBVIOUS
  <2>7. QED  BY <2>4, <2>5, <2>6 DEF ToAll
<1>6. CASE MasterTaken(s, 1, p1, blank)
  <2> DEFINE kind == TypeOf(s[2])
  <2>1. s[2] # Broad /\ kind # "broadcast"
    <3>1. s[1 + 1] # Broad /\ 1 + 1 = 2
      BY <1>6 DEF MasterTaken
    <3>2. QED  BY <3>1 DEF TypeOf
  <2> HIDE DEF kind
  <2>2. PICK j \in Nat :
          /\ MasterPartAt(s, 1, j) /\ IsAnswered(s, j)
          /\ \E b, crc : p1 = Goes(Tel(kind, Sound(b, crc, s[j + 1]), blank), j + 1)
    <3>1. 1 + 1 = 2
      OBVIOUS
    <3>2. QED  BY <1>6, <3>1 DEF MasterTaken, kind
  <2>3. PICK b, crc : p1 = Goes(Tel(kind, Sound(b, crc, s[j + 1]), blank), j + 1)
    BY <2>2
  <2>4. p1.ok /\ p1.t.type = kind /\ p1.t.master.ack = s[j + 1]
    BY <2>3 DEF Goes, Tel, Sound, Made
  <2>5. \A k \in Nat : MasterPartAt(s, 1, k) => k = j
    BY <2>2, PartEnds
  <2>6. ~ToAll(s)
    BY <2>1 DEF ToAll
  <2>7. CASE IsAcked(s, j)
    <3>1. p = p1
      BY <1>1, <2>1, <2>4, <2>7, Answers
    <3> DEFINE one == 1
               k == j + 1
    <3>2. s[one + 1] = s[2] /\ k \in Nat
      OBVIOUS
    <3>3. IsValid(Parsed(s, p)) <=> Onward(s, one, k)
      <4>1. p = Goes(Tel(TypeOf(s[one + 1]), Sound(b, crc, s[j + 1]), Made(none, 0, 0, empty)), k)
        BY <2>3, <3>1, <3>2 DEF kind, blank
      <4>2. s[one + 1] # Broad
        BY <2>1, <3>2
      <4> DEFINE a == s[j + 1]
                 zero == 0
      <4>3. p = Goes(Tel(TypeOf(s[one + 1]), Sound(b, crc, a), Made(none, zero, zero, empty)), k)
        BY <4>1
      <4> HIDE DEF one, k, none, empty, a, zero
      <4>4. QED  BY ONLY <3>2, <4>2, <4>3, GoesOnward, s \in Seq(Byte)
    <3>4. MasterAnswered(s) <=> Onward(s, 1, j + 1)
      BY <2>1, <2>2, <2>5, <2>7, Answers DEF MasterAnswered
    <3>5. QED  BY <2>6, <3>3, <3>4
  <2>8. CASE IsNaked(s, j)
    <3>1. p = MasterAgain(p2)
      BY <1>1, <2>1, <2>4, <2>8, Answers
    <3> DEFINE o == j + 1
               h == o + 1
               a == s[j + 1]
    <3>2. \/ MasterRefused(s, h, p2) \/ MasterToAll(s, h, p2, a, blank)
          \/ MasterTaken(s, h, p2, blank)
      <4> DEFINE fine == "seq_ok"
      <4>1. p1 = Goes(Tel(kind, Made(b, crc, a, fine), blank), o)
        BY <2>3 DEF Sound
      <4>2. o \in Nat
        OBVIOUS
      <4>3. p2 = ParseMasterPart(s, p1)
        BY DEF p2
      <4> HIDE DEF o, a, fine
      <4>4. QED  BY ONLY <4>1, <4>2, <4>3, MasterPartParsed, s \in Seq(Byte) DEF h
    <3>3. h = j + 2 /\ h \in Nat /\ h # 1 /\ a = Nak
      BY <2>8 DEF IsNaked
    <3>4. MasterAnswered(s) <=>
            \E k \in Nat : MasterPartAt(s, h, k) /\ IsAcked(s, k) /\ Onward(s, h, k + 1)
      <4> HIDE DEF h
      <4> QED  BY <2>1, <2>2, <2>5, <2>8, <3>3, Answers DEF MasterAnswered
    <3> HIDE DEF h, a
    <3>5. CASE MasterRefused(s, h, p2)
      <4>1. ~p2.ok /\ p2.t.master.state # "seq_ok"
        BY <3>5 DEF MasterRefused
      <4>2. p = p2
        BY <3>1, <4>1 DEF MasterAgain
      <4>3. ~IsValid(Parsed(s, p))
        BY <1>3, <4>1, <4>2
      <4>4. ~MasterAnswered(s)
        BY <3>4, <3>5, Answers DEF MasterRefused
      <4>5. QED  BY <2>6, <4>3, <4>4
    <3>6. ASSUME NEW ty, NEW b2, NEW c2, NEW off,
                 p2 = Goes(Tel(ty, Sound(b2, c2, Nak), blank), off)
          PROVE  ~IsValid(Parsed(s, p))
      <4> DEFINE part == Sound(b2, c2, Nak)
                 bad == "err_ack_negative"
                 t2 == Tel(ty, part, blank)
      <4>1. p2.ok /\ p2.t = t2 /\ p2.t.master.ack = Nak
        BY <3>6 DEF Goes, Tel, Sound, Made
      <4>2. bad # "seq_ok"
        OBVIOUS
      <4>3. p = [p2 EXCEPT !.t.master.state = bad, !.ok = FALSE]
        BY <3>1, <4>1 DEF MasterAgain
      <4> HIDE DEF bad
      <4>4. p.ok = FALSE /\ p.t = [p2.t EXCEPT !.master.state = bad]
        BY <3>6, <4>3 DEF Goes
      <4>5. p.t.master = [part EXCEPT !.state = bad]
        BY <4>1, <4>4 DEF Tel
      <4>6. p.t.master.state = bad
        BY <4>5 DEF Sound, Made
      <4>7. QED  BY <1>3, <4>2, <4>4, <4>6
    <3>7. CASE MasterToAll(s, h, p2, a, blank)
      <4>1. PICK b2, c2, off : p2 = Goes(Tel("broadcast", Sound(b2, c2, a), blank), off)
        BY <3>7 DEF MasterToAll
      <4> DEFINE all == "broadcast"
      <4>2. p2 = Goes(Tel(all, Sound(b2, c2, Nak), blank), off)
        BY <3>3, <4>1
      <4> HIDE DEF all
      <4>3. ~IsValid(Parsed(s, p))
        BY <3>6, <4>2
      <4>4. ~MasterAnswered(s)
        BY <3>4, <3>7 DEF MasterToAll, Onward
      <4>5. QED  BY <2>6, <4>3, <4>4
    <3>8. CASE MasterTaken(s, h, p2, blank)
      <4> DEFINE type == TypeOf(s[h + 1])
      <4>1. s[h + 1] # Broad
        BY <3>8 DEF MasterTaken
      <4>2. PICK k \in Nat :
              /\ MasterPartAt(s, h, k) /\ IsAnswered(s, k)
              /\ \E b2, c2 : p2 = Goes(Tel(type, Sound(b2, c2, s[k + 1]), blank), k + 1)
        BY <3>8 DEF MasterTaken
      <4>3. PICK b2, c2 : p2 = Goes(Tel(type, Sound(b2, c2, s[k + 1]), blank), k + 1)
        BY <4>2
      <4>4. \A m \in Nat : MasterPartAt(s, h, m) => m = k
        BY <4>2, PartEnds
      <4>5. CASE IsNaked(s, k)
        <5>1. s[k + 1] = Nak
          BY <4>5, Answers
        <5> HIDE DEF type
        <5>2. ~IsValid(Parsed(s, p))
          BY <3>6, <4>3, <5>1
        <5>3. ~MasterAnswered(s)
          BY <3>4, <4>4, <4>5, Answers
        <5>4. QED  BY <2>6, <5>2, <5>3
      <4>6. CASE IsAcked(s, k)
        <5> DEFINE e == k + 1
                   ack == s[k + 1]
                   zero == 0
        <5>1. p2.t.master.ack = s[k + 1]
          BY <4>3 DEF Goes, Tel, Sound, Made
        <5>2. p = p2
          BY <3>1, <4>6, <5>1, Answers DEF MasterAgain
        <5>3. p = Goes(Tel(TypeOf(s[h + 1]), Sound(b2, c2, ack), Made(none, zero, zero, empty)),
                       e)
          BY <4>3, <5>2 DEF blank
        <5>4. e \in Nat
          OBVIOUS
        <5>5. IsValid(Parsed(s, p)) <=> Onward(s, h, e)
          <6> HIDE DEF e, ack, zero, none, empty
          <6> QED  BY ONLY <4>1, <5>3, <5>4, GoesOnward, s \in Seq(Byte)
        <5>6. MasterAnswered(s) <=> Onward(s, h, k + 1)
          BY <3>4, <4>2, <4>4, <4>6
        <5>7. QED  BY <2>6, <5>5, <5>6
      <4>7. QED  BY <4>2, <4>5, <4>6, Answers
    <3>9. QED  BY <3>2, <3>5, <3>7, <3>8
  <2>9. QED  BY <2>2, <2>7, <2>8, Answers
<1>7. QED  BY <1>2, <1>4, <1>5, <1>6

\* Of what comes in on the wire.
LEMMA ParseIsExact ==
  ASSUME NEW w \in Seq(Byte)
  PROVE  With(MakeTelegram(w), IsValid) <=> With(Reduce(Extended(w)).s, Exchange)
<1> DEFINE s == Reduce(Extended(w)).s
           p == MasterParts(s)
<1>1. s \in Seq(Byte)
  BY ReduceType
<1>2. MakeTelegram(w) = Parsed(s, p)
  BY DEF MakeTelegram, Parse, With, Parsed
<1> HIDE DEF s, p
<1>3. IsValid(Parsed(s, p)) <=> ToAll(s) \/ MasterAnswered(s)
  BY <1>1, ParsesExactly DEF p
<1>4. Exchange(s) <=> ToAll(s) \/ MasterAnswered(s)
  BY <1>1, ExchangeIs
<1> DEFINE t == MakeTelegram(w)
<1>5. IsValid(t) <=> Exchange(s)
  BY <1>2, <1>3, <1>4
<1> HIDE DEF t
<1>6. With(t, IsValid) = IsValid(t) /\ With(s, Exchange) = Exchange(s)
  BY DEF With
<1>7. QED  BY <1>5, <1>6 DEF s, t

\* The input of the parser is a sequence of bytes.
TelegramInv ==
  unit = "telegram" => x \in [pieces : Nat, wire : Seq(Byte), cut : BOOLEAN]

\* ParseExact (telegram.hpp: parse) for wire bytes of every length.
THEOREM ParseExactSpec == PlainSpec => []ParseExact
<1>1. PlainInit => TelegramInv
  <2>1. << >> \in Seq(Byte)
    OBVIOUS
  <2>2. [pieces |-> 0, wire |-> << >>, cut |-> FALSE]
          \in [pieces : Nat, wire : Seq(Byte), cut : BOOLEAN]
    BY <2>1
  <2>3. QED  BY <2>2 DEF PlainInit, TelegramInv
<1>2. TelegramInv => ParseExact
  <2>1. SUFFICES ASSUME x \in [pieces : Nat, wire : Seq(Byte), cut : BOOLEAN]
                 PROVE  With(MakeTelegram(x.wire), IsValid)
                          <=> With(Reduce(Extended(x.wire)).s, Exchange)
    BY DEF TelegramInv, ParseExact
  <2> DEFINE w == x.wire
  <2>2. w \in Seq(Byte)
    BY <2>1
  <2> HIDE DEF w
  <2>3. With(MakeTelegram(w), IsValid) <=> With(Reduce(Extended(w)).s, Exchange)
    BY <2>2, ParseIsExact
  <2>4. QED  BY <2>3 DEF w
<1>3. ASSUME TelegramInv, [PlainNext]_vars PROVE TelegramInv'
  <2> DEFINE Inputs == [pieces : Nat, wire : Seq(Byte), cut : BOOLEAN]
  <2>1. CASE UNCHANGED vars
    BY <1>3, <2>1 DEF TelegramInv, vars
  <2>2. SUFFICES ASSUME PlainNext, unit = "telegram", unit' = unit, x \in Inputs
                 PROVE  x' \in Inputs
    BY <1>3, <2>1, Zenon
       DEF TelegramInv, PlainNext, MoreBytes, MoreExchange, CutExchange, MoreData, Send,
           FlushSome, Wait, Fetch, ResetAll, ReadWire, Expire, WriteSyn, Transmit, Configure,
           PassByteTime, Of
  <2>3. MoreExchange \/ CutExchange
    BY <2>2
       DEF PlainNext, MoreBytes, MoreData, Send, FlushSome, Wait, Fetch, ResetAll, ReadWire,
           Expire, WriteSyn, Transmit, Configure, PassByteTime, Of
  <2> DEFINE w == x.wire
  <2>4. w \in Seq(Byte) /\ x.pieces + 1 \in Nat
    BY <2>2
  <2>5. CASE MoreExchange
    <3>1. PICK piece \in IF x.pieces % 2 = 0 THEN Parts ELSE {<< Ack >>, << Nak >>} :
            x' = [x EXCEPT !.pieces = @ + 1, !.wire = @ \o piece]
      BY <2>5 DEF MoreExchange
    <3>2. piece \in Seq(Byte)
      <4>1. Ack \in Byte /\ Nak \in Byte
        BY DEF Ack, Nak, Byte
      <4>2. << Ack >> \in Seq(Byte) /\ << Nak >> \in Seq(Byte)
        BY <4>1
      <4>3. QED  BY <3>1, <4>2, UnitsAssumption
    <3>3. w \o piece \in Seq(Byte)
      BY <2>4, <3>2
    <3>4. QED  BY <2>2, <2>4, <3>1, <3>3
  <2>6. CASE CutExchange
    <3>1. x' = [x EXCEPT !.wire = SubSeq(w, 1, Len(w) - 1), !.cut = TRUE]
      BY <2>6 DEF CutExchange
    <3>2. SubSeq(w, 1, Len(w) - 1) \in Seq(Byte)
      <4> HIDE DEF w
      <4> QED  BY <2>4
    <3>3. QED  BY <2>2, <3>1, <3>2
  <2>7. QED  BY <2>3, <2>5, <2>6
<1>4. QED  BY <1>1, <1>2, <1>3, PTL DEF PlainSpec
=============================================================================
