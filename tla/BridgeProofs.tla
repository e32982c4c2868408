---------------------------- MODULE BridgeProofs ----------------------------
(***************************************************************************)
(* Proofs about the network bridge, for any clients, any chunks they send, *)
(* any bytes on the bus and any bounds.                                    *)
(*                                                                         *)
(* CutTelegramDisconnects is not inductive alone: a connection that is     *)
(* still to be made could belong to a client with a telegram on the bus,   *)
(* and would come up without a session.  NotYetConnected excludes it, and  *)
(* TakesFromClient says that a thread that pops a byte has a client to pop *)
(* it from, without which the types are not kept.                          *)
(***************************************************************************)
EXTENDS Bridge, RequestProofs, WellFoundedInduction

-----------------------------------------------------------------------------
(***************************************************************************)
(* What the methods of a client keep, for every chunk of bytes the socket  *)
(* delivers.  handleIncomingStream is a fold over the chunk, so the first  *)
(* part is an induction: over the naturals, in the form of a set that      *)
(* holds 0 and each successor, from the well-foundedness of < ; then over  *)
(* the sets of indices by which FoldLeft is defined.                       *)
(***************************************************************************)
\* Induction: a set of naturals that holds 0 and successors holds them all.
LEMMA NatSets ==
  ASSUME NEW T \in SUBSET Nat, 0 \in T, \A n \in T : n + 1 \in T
  PROVE  T = Nat
  <1> DEFINE R == OpToRel(<, Nat)
             U == Nat \ T
  <1>1. ASSUME U # {} PROVE FALSE
    <2>1. IsWellFoundedOn(R, Nat)
      BY NatLessThanWellFounded
    <2>2. U \subseteq Nat
      OBVIOUS
    <2>3. PICK x \in U : \A y \in U : ~(<<y, x>> \in R)
      <3> HIDE DEF R, U
      <3> QED  BY <1>1, <2>1, <2>2, WFMin
    <2>4. x \in Nat /\ x # 0 /\ x - 1 \in Nat /\ x \notin T
      OBVIOUS
    <2>5. <<x - 1, x>> \in R
      BY <2>4 DEF OpToRel
    <2>6. x - 1 \in T
      BY <2>3, <2>4, <2>5
    <2>7. (x - 1) + 1 \in T
      BY <2>6
    <2> QED  BY <2>4, <2>7
  <1> QED  BY <1>1

\* Max of a nonempty set of indices is its greatest element.
LEMMA MaxFacts ==
  ASSUME NEW n \in Nat
  PROVE  \A s \in SUBSET (1..n) : s # {} =>
           Max(s) \in s /\ \A y \in s : y <= Max(s)
  <1> DEFINE T == {m \in Nat : \A s \in SUBSET (1..m) : s # {} => \E x \in s : \A y \in s : x >= y}
  <1>1. 0 \in T
    <2>1. \A s \in SUBSET (1..0) : s = {}
      OBVIOUS
    <2> QED  BY <2>1
  <1>2. ASSUME NEW m \in T PROVE m + 1 \in T
    <2>1. m \in Nat /\ m + 1 \in Nat
      OBVIOUS
    <2>2. ASSUME NEW s \in SUBSET (1..(m+1)), s # {}
          PROVE  \E x \in s : \A y \in s : x >= y
      <3>1. CASE m + 1 \in s
        BY <2>1, <2>2, <3>1
      <3>2. CASE m + 1 \notin s
        <4>1. s \in SUBSET (1..m)
          BY <2>1, <2>2, <3>2
        <4> QED  BY <2>2, <4>1
      <3> QED  BY <3>1, <3>2
    <2> QED  BY <2>1, <2>2
  <1>3. T = Nat
    <2>1. T \in SUBSET Nat
      OBVIOUS
    <2> HIDE DEF T
    <2> QED  BY <1>1, <1>2, <2>1, NatSets
  <1>4. \A s \in SUBSET (1..n) : s # {} => \E x \in s : \A y \in s : x >= y
    BY <1>3
  <1>5. ASSUME NEW s \in SUBSET (1..n), s # {}
        PROVE  Max(s) \in s /\ \A y \in s : y <= Max(s)
    <2>1. Max(s) \in s /\ \A y \in s : Max(s) >= y
      BY <1>4, <1>5 DEF Max
    <2> QED  BY <2>1
  <1> QED  BY <1>5

\* What every step of a fold keeps, the fold keeps.
LEMMA FoldKeeps ==
  ASSUME NEW n \in Nat, NEW A, NEW g, g[{}] \in A,
         \A s \in SUBSET (1..n) : s # {} /\ g[s \ {Max(s)}] \in A => g[s] \in A
  PROVE  \A s \in SUBSET (1..n) : g[s] \in A
  <1> DEFINE T == {m \in Nat : m <= n => \A s \in SUBSET (1..m) : g[s] \in A}
  <1>1. 0 \in T
    <2>1. \A s \in SUBSET (1..0) : s = {}
      OBVIOUS
    <2> QED  BY <2>1
  <1>2. ASSUME NEW m \in T PROVE m + 1 \in T
    <2>1. m \in Nat /\ m + 1 \in Nat
      OBVIOUS
    <2>2. ASSUME m + 1 <= n, NEW s \in SUBSET (1..(m+1)) PROVE g[s] \in A
      <3>1. s \in SUBSET (1..n)
        BY <2>1, <2>2
      <3>2. CASE s = {}
        BY <3>2
      <3>3. CASE s # {}
        <4>1. Max(s) \in s /\ \A y \in s : y <= Max(s)
          BY <3>1, <3>3, MaxFacts
        <4>2. s \ {Max(s)} \in SUBSET (1..m)
          <5> DEFINE x == Max(s)
          <5>1. x \in s /\ \A y \in s : y <= x
            BY <4>1
          <5> HIDE DEF x
          <5>2. x \in 1..(m+1)
            BY <5>1
          <5>3. \A y \in s : y # x => y \in 1..m
            BY <2>1, <5>1, <5>2
          <5> QED  BY <5>3 DEF x
        <4>3. g[s \ {Max(s)}] \in A
          <5>1. m <= n
            BY <2>1, <2>2
          <5> QED  BY <4>2, <5>1
        <4> QED  BY <3>1, <3>3, <4>3
      <3> QED  BY <3>2, <3>3
    <2> QED  BY <2>1, <2>2
  <1>3. T = Nat
    <2>1. T \in SUBSET Nat
      OBVIOUS
    <2> HIDE DEF T
    <2> QED  BY <1>1, <1>2, <2>1, NatSets
  <1>4. n \in T
    BY <1>3
  <1> QED  BY <1>4

\* g is the function by which FoldLeft folds the first m elements of f.
IsFold(g, m, base, G, f) ==
  g = [s \in SUBSET (1..m) |->
         IF s = {} THEN base ELSE G[<<g[s \ {Max(s)}], f[Max(s)]>>]]

\* To be it, g only needs the values of it.
LEMMA FoldIntro ==
  ASSUME NEW g, NEW m, NEW base, NEW G, NEW f,
         g = [s \in SUBSET (1..m) |-> g[s]],
         \A s \in SUBSET (1..m) :
           g[s] = IF s = {} THEN base ELSE G[<<g[s \ {Max(s)}], f[Max(s)]>>]
  PROVE  IsFold(g, m, base, G, f)
  <1> DEFINE v(x) == IF x = {} THEN base ELSE G[<<g[x \ {Max(x)}], f[Max(x)]>>]
  <1>1. \A s \in SUBSET (1..m) : g[s] = v(s)
    OBVIOUS
  <1>2. g = [s \in SUBSET (1..m) |-> v(s)]
    <2> HIDE DEF v
    <2> QED  BY <1>1
  <1> QED  BY <1>2 DEF IsFold

\* A fold is defined for every length.
LEMMA FoldExists ==
  ASSUME NEW n \in Nat, NEW base, NEW G, NEW f
  PROVE  \E g : IsFold(g, n, base, G, f)
  <1> DEFINE P(m) == \E g : IsFold(g, m, base, G, f)
             T == {m \in Nat : P(m)}
  <1>1. P(0)
    <2> DEFINE g == [s \in SUBSET (1..0) |-> base]
    <2>1. \A s \in SUBSET (1..0) : s = {}
      OBVIOUS
    <2>2. g = [s \in SUBSET (1..0) |-> g[s]] /\ \A s \in SUBSET (1..0) : g[s] = base
      OBVIOUS
    <2> HIDE DEF g
    <2>3. IsFold(g, 0, base, G, f)
      BY <2>1, <2>2, FoldIntro
    <2> QED  BY <2>3
  <1>2. ASSUME NEW m \in Nat, P(m) PROVE P(m + 1)
    <2>1. PICK g : IsFold(g, m, base, G, f)
      BY <1>2
    <2> DEFINE k == [s \in SUBSET (1..(m+1)) |->
                      IF m + 1 \in s THEN G[<<g[s \ {m+1}], f[m+1]>>] ELSE g[s]]
    <2>2. ASSUME NEW s \in SUBSET (1..(m+1))
          PROVE  k[s] = IF s = {} THEN base ELSE G[<<k[s \ {Max(s)}], f[Max(s)]>>]
      <3>1. CASE m + 1 \in s
        <4>1. Max(s) = m + 1
          <5> DEFINE x == Max(s)
          <5>1. m + 1 \in Nat /\ s # {}
            BY <3>1
          <5>2. x \in s /\ \A y \in s : y <= x
            BY <5>1, MaxFacts
          <5> HIDE DEF x
          <5>3. x \in 1..(m+1) /\ m + 1 <= x
            BY <3>1, <5>2
          <5>4. x = m + 1
            BY <5>3
          <5> QED  BY <5>4 DEF x
        <4>2. s \ {m+1} \in SUBSET (1..m) /\ s \ {m+1} \in SUBSET (1..(m+1))
                /\ m + 1 \notin s \ {m+1}
          OBVIOUS
        <4>3. k[s \ {m+1}] = g[s \ {m+1}]
          BY <4>2
        <4>4. k[s] = G[<<g[s \ {m+1}], f[m+1]>>]
          BY <3>1
        <4> HIDE DEF k
        <4> QED  BY <3>1, <4>1, <4>3, <4>4
      <3>2. CASE m + 1 \notin s
        <4>1. s \in SUBSET (1..m)
          BY <3>2
        <4>2. k[s] = g[s]
          BY <3>2
        <4>3. g[s] = IF s = {} THEN base ELSE G[<<g[s \ {Max(s)}], f[Max(s)]>>]
          <5> HIDE DEF k
          <5>1. \A x \in SUBSET (1..m) :
                  g[x] = IF x = {} THEN base ELSE G[<<g[x \ {Max(x)}], f[Max(x)]>>]
            <6> DEFINE v(x) == IF x = {} THEN base ELSE G[<<g[x \ {Max(x)}], f[Max(x)]>>]
            <6>1. g = [x \in SUBSET (1..m) |-> v(x)]
              BY ONLY <2>1 DEF IsFold
            <6>2. \A x \in SUBSET (1..m) : g[x] = v(x)
              <7> HIDE DEF v
              <7> QED  BY ONLY <6>1
            <6> QED  BY ONLY <6>2
          <5> QED  BY <4>1, <5>1
        <4>5. s \ {Max(s)} \in SUBSET (1..(m+1)) /\ m + 1 \notin s \ {Max(s)}
          BY <3>2
        <4>6. k[s \ {Max(s)}] = g[s \ {Max(s)}]
          BY <4>5
        <4> HIDE DEF k
        <4> QED  BY <4>2, <4>3, <4>6
      <3> QED  BY <3>1, <3>2
    <2>3. k = [s \in SUBSET (1..(m+1)) |-> k[s]]
      OBVIOUS
    <2> HIDE DEF k
    <2>4. IsFold(k, m + 1, base, G, f)
      BY <2>2, <2>3, FoldIntro
    <2> QED  BY <2>4
  <1> HIDE DEF P
  <1>3. T = Nat
    <2>1. T \in SUBSET Nat /\ 0 \in T /\ \A m \in T : m + 1 \in T
      BY <1>1, <1>2
    <2> HIDE DEF T
    <2> QED  BY <2>1, NatSets
  <1>4. P(n)
    BY <1>3
  <1> QED  BY <1>4 DEF P

-----------------------------------------------------------------------------
\* What every Queued keeps, FoldLeft with Queued keeps: its function is the one of
\* FoldExists for Queued as a function on A and the bytes.
LEMMA QueuedFold ==
  ASSUME NEW A, NEW start \in A, NEW data \in Seq(Byte),
         \A a \in A, b \in Byte : Queued(a, b) \in A
  PROVE  FoldLeft(Queued, start, data) \in A
  <1> DEFINE n == Len(data)
             G == [p \in A \X Byte |-> Queued(p[1], p[2])]
             step(g, s) == IF s = {} THEN start
                           ELSE Queued(g[s \ {Max(s)}], data[Max(s)])
             good(g) == g = [s \in SUBSET (1..n) |-> step(g, s)]
             it == CHOOSE g : good(g)
  <1>1. n \in Nat /\ DOMAIN data = 1..n /\ \A i \in 1..n : data[i] \in Byte
    OBVIOUS
  <1>2. \A s \in SUBSET (1..n) : s # {} => data[Max(s)] \in Byte
    <2> HIDE DEF n
    <2>1. \A s \in SUBSET (1..n) : s # {} => Max(s) \in s
      BY <1>1, MaxFacts
    <2> QED  BY <1>1, <2>1
  <1>3. \A a \in A, b \in Byte : G[<<a, b>>] = Queued(a, b)
    OBVIOUS
  <1>4. PICK k : IsFold(k, n, start, G, data)
    <2> HIDE DEF n, G
    <2> QED  BY <1>1, FoldExists
  <1>5. /\ k = [s \in SUBSET (1..n) |-> k[s]]
        /\ \A s \in SUBSET (1..n) :
             k[s] = IF s = {} THEN start ELSE G[<<k[s \ {Max(s)}], data[Max(s)]>>]
    <2> HIDE DEF n, G
    <2> DEFINE v(s) == IF s = {} THEN start ELSE G[<<k[s \ {Max(s)}], data[Max(s)]>>]
    <2>1. k = [s \in SUBSET (1..n) |-> v(s)]
      BY ONLY <1>4 DEF IsFold
    <2>2. k = [s \in SUBSET (1..n) |-> k[s]] /\ \A s \in SUBSET (1..n) : k[s] = v(s)
      <3> HIDE DEF v
      <3> QED  BY ONLY <2>1
    <2> QED  BY ONLY <2>2
  <1>6. \A s \in SUBSET (1..n) : k[s] \in A
    <2> HIDE DEF n, G
    <2>1. k[{}] \in A
      BY <1>5
    <2>2. \A s \in SUBSET (1..n) : s # {} /\ k[s \ {Max(s)}] \in A => k[s] \in A
      <3> SUFFICES ASSUME NEW s \in SUBSET (1..n), s # {}, k[s \ {Max(s)}] \in A
                   PROVE  k[s] \in A
        OBVIOUS
      <3>1. data[Max(s)] \in Byte
        BY <1>2
      <3>2. G[<<k[s \ {Max(s)}], data[Max(s)]>>] \in A
        BY <1>3, <3>1
      <3> QED  BY <1>5, <3>2
    <2> QED  BY ONLY <1>1, <2>1, <2>2, FoldKeeps
  <1>7. good(k)
    <2> HIDE DEF n, G
    <2>1. ASSUME NEW s \in SUBSET (1..n) PROVE k[s] = step(k, s)
      <3>1. s \ {Max(s)} \in SUBSET (1..n)
        OBVIOUS
      <3>2. k[s \ {Max(s)}] \in A
        BY <1>6, <3>1
      <3> QED  BY <1>2, <1>3, <1>5, <3>2
    <2> HIDE DEF step
    <2> QED  BY <1>5, <2>1
  <1>8. good(it)
    <2> HIDE DEF good
    <2> QED  BY <1>7
  <1>9. \A s \in SUBSET (1..n) : it[s] = step(it, s)
    <2> HIDE DEF it, n, step
    <2> QED  BY ONLY <1>8
  <1>10. \A s \in SUBSET (1..n) : it[s] \in A
    <2> HIDE DEF it, n, G
    <2>1. it[{}] \in A
      BY <1>9
    <2>2. \A s \in SUBSET (1..n) : s # {} /\ it[s \ {Max(s)}] \in A => it[s] \in A
      BY <1>2, <1>9
    <2> QED  BY ONLY <1>1, <2>1, <2>2, FoldKeeps
  <1>11. FoldLeft(Queued, start, data) =
           (CHOOSE g : g = [s \in SUBSET (DOMAIN data) |->
               IF s = {} THEN start
               ELSE Queued(g[s \ {Max(s)}], data[Max(s)])])[DOMAIN data]
    BY ONLY Zenon DEF FoldLeft, MapThenFoldSet
  <1>12. FoldLeft(Queued, start, data) = it[1..n]
    <2> HIDE DEF n
    <2> QED  BY ONLY <1>1, <1>11
  <1> QED
    <2> HIDE DEF it, n
    <2> QED  BY <1>10, <1>12

\* What every EnhancedByte keeps, FoldLeft with EnhancedByte keeps: its function is the one of
\* FoldExists for EnhancedByte as a function on A and the bytes.
LEMMA EnhancedByteFold ==
  ASSUME NEW A, NEW start \in A, NEW data \in Seq(Byte),
         \A a \in A, b \in Byte : EnhancedByte(a, b) \in A
  PROVE  FoldLeft(EnhancedByte, start, data) \in A
  <1> DEFINE n == Len(data)
             G == [p \in A \X Byte |-> EnhancedByte(p[1], p[2])]
             step(g, s) == IF s = {} THEN start
                           ELSE EnhancedByte(g[s \ {Max(s)}], data[Max(s)])
             good(g) == g = [s \in SUBSET (1..n) |-> step(g, s)]
             it == CHOOSE g : good(g)
  <1>1. n \in Nat /\ DOMAIN data = 1..n /\ \A i \in 1..n : data[i] \in Byte
    OBVIOUS
  <1>2. \A s \in SUBSET (1..n) : s # {} => data[Max(s)] \in Byte
    <2> HIDE DEF n
    <2>1. \A s \in SUBSET (1..n) : s # {} => Max(s) \in s
      BY <1>1, MaxFacts
    <2> QED  BY <1>1, <2>1
  <1>3. \A a \in A, b \in Byte : G[<<a, b>>] = EnhancedByte(a, b)
    OBVIOUS
  <1>4. PICK k : IsFold(k, n, start, G, data)
    <2> HIDE DEF n, G
    <2> QED  BY <1>1, FoldExists
  <1>5. /\ k = [s \in SUBSET (1..n) |-> k[s]]
        /\ \A s \in SUBSET (1..n) :
             k[s] = IF s = {} THEN start ELSE G[<<k[s \ {Max(s)}], data[Max(s)]>>]
    <2> HIDE DEF n, G
    <2> DEFINE v(s) == IF s = {} THEN start ELSE G[<<k[s \ {Max(s)}], data[Max(s)]>>]
    <2>1. k = [s \in SUBSET (1..n) |-> v(s)]
      BY ONLY <1>4 DEF IsFold
    <2>2. k = [s \in SUBSET (1..n) |-> k[s]] /\ \A s \in SUBSET (1..n) : k[s] = v(s)
      <3> HIDE DEF v
      <3> QED  BY ONLY <2>1
    <2> QED  BY ONLY <2>2
  <1>6. \A s \in SUBSET (1..n) : k[s] \in A
    <2> HIDE DEF n, G
    <2>1. k[{}] \in A
      BY <1>5
    <2>2. \A s \in SUBSET (1..n) : s # {} /\ k[s \ {Max(s)}] \in A => k[s] \in A
      <3> SUFFICES ASSUME NEW s \in SUBSET (1..n), s # {}, k[s \ {Max(s)}] \in A
                   PROVE  k[s] \in A
        OBVIOUS
      <3>1. data[Max(s)] \in Byte
        BY <1>2
      <3>2. G[<<k[s \ {Max(s)}], data[Max(s)]>>] \in A
        BY <1>3, <3>1
      <3> QED  BY <1>5, <3>2
    <2> QED  BY ONLY <1>1, <2>1, <2>2, FoldKeeps
  <1>7. good(k)
    <2> HIDE DEF n, G
    <2>1. ASSUME NEW s \in SUBSET (1..n) PROVE k[s] = step(k, s)
      <3>1. s \ {Max(s)} \in SUBSET (1..n)
        OBVIOUS
      <3>2. k[s \ {Max(s)}] \in A
        BY <1>6, <3>1
      <3> QED  BY <1>2, <1>3, <1>5, <3>2
    <2> HIDE DEF step
    <2> QED  BY <1>5, <2>1
  <1>8. good(it)
    <2> HIDE DEF good
    <2> QED  BY <1>7
  <1>9. \A s \in SUBSET (1..n) : it[s] = step(it, s)
    <2> HIDE DEF it, n, step
    <2> QED  BY ONLY <1>8
  <1>10. \A s \in SUBSET (1..n) : it[s] \in A
    <2> HIDE DEF it, n, G
    <2>1. it[{}] \in A
      BY <1>9
    <2>2. \A s \in SUBSET (1..n) : s # {} /\ it[s \ {Max(s)}] \in A => it[s] \in A
      BY <1>2, <1>9
    <2> QED  BY ONLY <1>1, <2>1, <2>2, FoldKeeps
  <1>11. FoldLeft(EnhancedByte, start, data) =
           (CHOOSE g : g = [s \in SUBSET (DOMAIN data) |->
               IF s = {} THEN start
               ELSE EnhancedByte(g[s \ {Max(s)}], data[Max(s)])])[DOMAIN data]
    BY ONLY Zenon DEF FoldLeft, MapThenFoldSet
  <1>12. FoldLeft(EnhancedByte, start, data) = it[1..n]
    <2> HIDE DEF n
    <2> QED  BY ONLY <1>1, <1>11
  <1> QED
    <2> HIDE DEF it, n
    <2> QED  BY <1>10, <1>12

-----------------------------------------------------------------------------
\* A client in its type with its queue within its capacity.
ClientOK(c) == c \in ClientType /\ Len(c.inb) <= InCap

\* createClient.
LEMMA NewClientOK ==
  ASSUME NEW kind \in Kinds
  PROVE  ClientOK(NewClient(kind)) /\ ClientOK(Close(NewClient(kind)))
  <1>1. << >> \in Seq(Byte) /\ Len(<< >>) <= InCap
    BY InCapAssumption
  <1>2. NoByte \in Byte \cup {NoByte} /\ 0 \in Byte
    BY DEF Byte
  <1> QED  BY <1>1, <1>2 DEF NewClient, Close, ClientOK, ClientType

\* AbstractClient::stop keeps all but the socket.
LEMMA CloseOK ==
  ASSUME NEW c, ClientOK(c)
  PROVE  ClientOK(Close(c)) /\ Close(c).up = FALSE
  BY DEF ClientOK, ClientType, Close

\* popPendingIncomingData takes a byte.
LEMMA PopOK ==
  ASSUME NEW c, ClientOK(c), HasPending(c)
  PROVE  ClientOK(Pop(c)) /\ Pop(c).up = c.up /\ Head(c.inb) \in Byte
  <1>1. c.inb \in Seq(Byte) /\ c.inb # << >> /\ Len(c.inb) <= InCap
    BY DEF ClientOK, ClientType, HasPending
  <1>2. Head(c.inb) \in Byte /\ Tail(c.inb) \in Seq(Byte) /\ Len(Tail(c.inb)) <= InCap
    BY <1>1, InCapAssumption
  <1>3. Pop(c) = [c EXCEPT !.inb = Tail(c.inb), !.last = Head(c.inb)]
    BY DEF Pop
  <1> QED  BY <1>2, <1>3 DEF ClientOK, ClientType

\* onSessionStart drops half a sequence and no more.
LEMMA OnSessionStartOK ==
  ASSUME NEW c, ClientOK(c)
  PROVE  ClientOK(OnSessionStart(c)) /\ OnSessionStart(c).up = c.up
  BY DEF ClientOK, ClientType, OnSessionStart

-----------------------------------------------------------------------------
\* What handleIncomingStream may be at with client c: a queue that is stuck
\* is full, the kind stays, and a closed client stays closed.
Streams(c) ==
  {a \in [c : ClientType, reset : BOOLEAN, stuck : BOOLEAN] :
     /\ Len(a.c.inb) <= InCap
     /\ a.stuck => Len(a.c.inb) = InCap
     /\ a.c.kind = c.kind
     /\ a.c.up => c.up}

\* Queued keeps it.
LEMMA QueuedStreams ==
  ASSUME NEW c, NEW a \in Streams(c), NEW b \in Byte
  PROVE  Queued(a, b) \in Streams(c)
  <1>1. /\ a \in [c : ClientType, reset : BOOLEAN, stuck : BOOLEAN]
        /\ a.c \in ClientType
        /\ a.c.inb \in Seq(Byte) /\ Len(a.c.inb) \in Nat /\ Len(a.c.inb) <= InCap
    BY DEF Streams, ClientType
  <1>2. CASE Len(a.c.inb) < InCap
    <2>1. Queued(a, b) = [a EXCEPT !.c = [a.c EXCEPT !.inb = Append(a.c.inb, b)]]
      BY <1>1, <1>2 DEF Queued
    <2>2. Append(a.c.inb, b) \in Seq(Byte) /\ Len(Append(a.c.inb, b)) = Len(a.c.inb) + 1
      BY <1>1
    <2>3. [a.c EXCEPT !.inb = Append(a.c.inb, b)] \in ClientType
      BY <1>1, <2>2 DEF ClientType
    <2>4. ~a.stuck
      BY <1>1, <1>2, InCapAssumption DEF Streams
    <2>5. Len(a.c.inb) + 1 <= InCap
      BY <1>1, <1>2, InCapAssumption
    <2> DEFINE d == [a.c EXCEPT !.inb = Append(a.c.inb, b)]
    <2>6. d.kind = a.c.kind /\ d.up = a.c.up /\ d.inb = Append(a.c.inb, b)
      BY <1>1 DEF ClientType
    <2> HIDE DEF d
    <2>7. Queued(a, b) = [a EXCEPT !.c = d] /\ d \in ClientType
      BY <2>1, <2>3 DEF d
    <2> QED  BY <1>1, <2>2, <2>4, <2>5, <2>6, <2>7 DEF Streams
  <1>3. CASE ~(Len(a.c.inb) < InCap)
    <2>1. Queued(a, b) = [a EXCEPT !.stuck = TRUE]
      BY <1>3 DEF Queued
    <2>2. Len(a.c.inb) = InCap
      BY <1>1, <1>3, InCapAssumption
    <2> QED  BY <1>1, <2>1, <2>2 DEF Streams
  <1> QED  BY <1>2, <1>3

\* So does every byte of an enhanced client.
LEMMA EnhancedByteStreams ==
  ASSUME NEW c, NEW a \in Streams(c), NEW b \in Byte
  PROVE  EnhancedByte(a, b) \in Streams(c)
  <1>1. /\ a \in [c : ClientType, reset : BOOLEAN, stuck : BOOLEAN]
        /\ a.c \in ClientType
    BY DEF Streams
  <1>2. ASSUME NEW v \in Byte \cup {NoByte}
        PROVE  [a EXCEPT !.c.half = v] \in Streams(c)
    BY <1>1 DEF Streams, ClientType
  <1>3. ASSUME NEW x \in Streams(c), NEW v \in Byte PROVE Sent(x, v) \in Streams(c)
    <2>1. Queued(x, v) \in Streams(c)
      BY QueuedStreams
    <2> DEFINE q == Queued(x, v)
    <2> HIDE DEF q
    <2>2. [q EXCEPT !.c.last = v] \in Streams(c)
      BY <2>1 DEF q, Streams, ClientType
    <2> QED  BY <2>2 DEF q, Sent
  <1>4. NoByte \in Byte \cup {NoByte}
    OBVIOUS
  <1> DEFINE a1 == [a EXCEPT !.c.half = NoByte]
  <1>5. a1 \in Streams(c)
    BY <1>2, <1>4
  <1> HIDE DEF a1
  <1>6. [a1 EXCEPT !.c = Close(@)] \in Streams(c)
    BY <1>5 DEF Close, Streams, ClientType
  <1>7. [a1 EXCEPT !.reset = TRUE] \in Streams(c)
    BY <1>5 DEF Streams
  <1>8. ASSUME NEW h \in Byte PROVE DecodeVal(h, b) \in Byte
    BY DEF DecodeVal, Byte
  <1>9. ASSUME NEW cmd, NEW v \in Byte PROVE Commanded(a1, cmd, v) \in Streams(c)
    BY <1>3, <1>5, <1>7 DEF Commanded
  <1>10. a.c.half = NoByte \/ a.c.half \in Byte
    BY <1>1 DEF ClientType
  <1>11. Queued(a, b) \in Streams(c)
    BY QueuedStreams
  <1>12. b \in Byte \cup {NoByte}
    OBVIOUS
  <1>13. [a EXCEPT !.c.half = b] \in Streams(c)
    BY <1>2, <1>12
  <1>14. a.c.half \in Byte =>
           Commanded(a1, DecodeCmd(a.c.half), DecodeVal(a.c.half, b)) \in Streams(c)
    BY <1>8, <1>9
  <1> QED  BY <1>6, <1>10, <1>11, <1>13, <1>14 DEF EnhancedByte, a1

\* handleIncomingStream, for every chunk of bytes: the queue never grows past
\* its capacity, push is stuck only on a full queue, and a client that was
\* closed is not connected again.
LEMMA StreamOK ==
  ASSUME NEW c, ClientOK(c), NEW data \in Seq(Byte)
  PROVE  /\ HandleIncomingStream(c, data) \in Streams(c)
         /\ ClientOK(HandleIncomingStream(c, data).c)
         /\ HandleIncomingStream(c, data).c.up => c.up
  <1> DEFINE start == [c |-> c, reset |-> FALSE, stuck |-> FALSE]
             in == HandleIncomingStream(c, data)
  <1>1. start \in Streams(c)
    BY DEF ClientOK, Streams
  <1> HIDE DEF start
  <1>2. FoldLeft(Queued, start, data) \in Streams(c)
    BY <1>1, QueuedStreams, QueuedFold
  <1>3. FoldLeft(EnhancedByte, start, data) \in Streams(c)
    BY <1>1, EnhancedByteStreams, EnhancedByteFold
  <1>4. c.kind \in Kinds
    BY DEF ClientOK, ClientType
  <1>5. in \in Streams(c)
    BY <1>1, <1>2, <1>3, <1>4 DEF HandleIncomingStream, Kinds, start
  <1> HIDE DEF in
  <1>6. ClientOK(in.c) /\ (in.c.up => c.up)
    BY <1>5 DEF Streams, ClientOK
  <1> QED  BY <1>5, <1>6 DEF in

-----------------------------------------------------------------------------
(* The bridge.                                                             *)

\* Where a thread pops a byte from its client, has popped one, or asks it.
Holding == {"take", "request", "write", "echo"}

\* A thread there holds a client.
TakesFromClient ==
  \A t \in Threads : th[t].pc \in Holding => th[t].c \in Clients

\* A connection still to be made has no socket, no session, no telegram.
NotYetConnected ==
  \A c \in coming : ~cl[c].up /\ sender # c /\ c \notin mid

\* The inductive invariant.
IInv ==
  /\ TypeOK
  /\ TakesFromClient
  /\ NotYetConnected
  /\ CutTelegramDisconnects

-----------------------------------------------------------------------------
\* What a thread is, after its record has been replaced.
LEMMA ThreadSet ==
  ASSUME th \in [Threads -> ThreadType], NEW t \in Threads, NEW r \in ThreadType,
         th' = [th EXCEPT ![t] = r]
  PROVE  /\ th' \in [Threads -> ThreadType]
         /\ th'[t] = r
         /\ \A u \in Threads : u # t => th'[u] = th[u]
  OBVIOUS

\* Where a thread is when it has returned from its calls.
Places == {"idle", "off", "after", "forward", "gone", "sweep", "select", "serve"}

\* Idle is a thread.
LEMMA IdleType ==
  ASSUME NEW pc \in Places
  PROVE  /\ Idle(pc) \in ThreadType
         /\ Idle(pc).pc = pc /\ Idle(pc).c = NoClient
  <1>1. 0 \in Byte
    BY DEF Byte
  <1> QED  BY <1>1 DEF Idle, ThreadType, Places

\* A thread that returns is idle where its call was made.
LEMMA DoneEffect ==
  ASSUME th \in [Threads -> ThreadType], NEW t \in Threads,
         NEW pc \in Places, Done(t, pc)
  PROVE  /\ th' \in [Threads -> ThreadType]
         /\ th'[t].pc = pc /\ th'[t].c = NoClient
         /\ \A u \in Threads : u # t => th'[u] = th[u]
  <1>1. th' = [th EXCEPT ![t] = Idle(pc)]
    BY DEF Done
  <1> DEFINE r == Idle(pc)
  <1>2. r \in ThreadType /\ r.pc = pc /\ r.c = NoClient
    BY IdleType
  <1> HIDE DEF r
  <1>3. th' = [th EXCEPT ![t] = r]
    BY <1>1 DEF r
  <1> QED  BY <1>2, <1>3, ThreadSet

\* A step of thread t, which is not about to close a client, keeps
\* CutTelegramDisconnects when each client with an open telegram that is
\* connected afterwards owns the session, was neither owner nor closed
\* before, or is the one that t is about to close.
LEMMA CutKept ==
  ASSUME CutTelegramDisconnects, NEW t \in Threads, th[t].pc # "close",
         \A u \in Threads : u # t => th'[u] = th[u],
         \A c \in mid' : cl'[c].up =>
           \/ sender' = c
           \/ c \in mid /\ cl[c].up /\ sender # c
           \/ th'[t].pc = "close" /\ th'[t].c = c
  PROVE  CutTelegramDisconnects'
  <1> SUFFICES ASSUME NEW c \in mid', cl'[c].up, sender' # c
               PROVE  \E u \in Threads : th'[u].pc = "close" /\ th'[u].c = c
    BY DEF CutTelegramDisconnects, Closing, At
  <1>1. CASE th'[t].pc = "close" /\ th'[t].c = c
    BY <1>1
  <1>2. CASE c \in mid /\ cl[c].up /\ sender # c
    <2>1. PICK u \in Threads : th[u].pc = "close" /\ th[u].c = c
      BY <1>2 DEF CutTelegramDisconnects, Closing, At
    <2>2. u # t
      BY <2>1
    <2> QED  BY <2>1, <2>2
  <1> QED  BY <1>1, <1>2

\* The same for a step of thread t on the session alone.
LEMMA ThreadKept ==
  ASSUME IInv, NEW t \in Threads, th[t].pc # "close",
         \A u \in Threads : u # t => th'[u] = th[u],
         th'[t].pc \in Holding => th'[t].c \in Clients,
         UNCHANGED <<cl, sender, coming, mid>>
  PROVE  TakesFromClient' /\ NotYetConnected' /\ CutTelegramDisconnects'
  <1>1. TakesFromClient'
    BY DEF IInv, TakesFromClient
  <1>2. NotYetConnected'
    BY DEF IInv, NotYetConnected
  <1>3. CutTelegramDisconnects'
    BY CutKept DEF IInv
  <1> QED  BY <1>1, <1>2, <1>3

-----------------------------------------------------------------------------
\* The invariant holds when the manager is constructed.
LEMMA InitHolds == Init => IInv
  <1> SUFFICES ASSUME Init PROVE IInv
    OBVIOUS
  <1> USE DEF Init
  <1>1. \A c \in Clients : ClientOK(cl[c]) /\ cl[c].up = FALSE
    BY BridgeAssumption, NewClientOK DEF Close, NewClient
  <1>2. cl \in [Clients -> ClientType] /\ \A c \in Clients : Len(cl[c].inb) <= InCap
    <2>1. cl = [c \in Clients |-> cl[c]]
      OBVIOUS
    <2> QED  BY ONLY <1>1, <2>1 DEF ClientOK
  <1>3. th \in [Threads -> ThreadType]
    BY IdleType DEF Places
  <1>4. req \in RequestType
    BY NewEffect, BridgeAssumption
  <1>5. info \in [byte : Byte, result : Results]
    BY ResultFacts DEF NoInfo, Byte
  <1>6. TypeOK
    BY <1>2, <1>3, <1>4, <1>5 DEF TypeOK
  <1>7. \A t \in Threads : th[t].pc \in {"idle", "off"}
    BY DEF Idle
  <1>8. NotYetConnected
    BY <1>1, BridgeAssumption DEF NotYetConnected
  <1> QED  BY <1>6, <1>7, <1>8 DEF IInv, TakesFromClient, Holding, CutTelegramDisconnects

-----------------------------------------------------------------------------
\* Each action keeps the invariant.  First the steps of a session.

\* An update of one client by a step of it that keeps it sound and does not
\* connect it.
LEMMA ClientSet ==
  ASSUME IInv, NEW c \in Clients, NEW d, ClientOK(d), d.up => cl[c].up,
         cl' = [cl EXCEPT ![c] = d]
  PROVE  /\ cl' \in [Clients -> ClientType]
         /\ \A e \in Clients : Len(cl'[e].inb) <= InCap
         /\ cl'[c] = d
         /\ \A e \in Clients : cl'[e].up => cl[e].up
  BY DEF IInv, TypeOK, ClientOK

\* A call returns to such a place.
LEMMA RetPlace ==
  ASSUME IInv, NEW t \in Threads
  PROVE  th[t].ret \in Places
  BY DEF IInv, TypeOK, ThreadType, Places

\* stopActiveSession under mutex_: the sender becomes the client to close.
LEMMA StopSessionStep ==
  ASSUME IInv, NEW t \in Threads, StopSession(t)
  PROVE  IInv'
  <1> USE DEF StopSession, At
  <1>1. CASE sender = NoClient
    <2>1. Done(t, th[t].ret) /\ UNCHANGED <<session, sender, late>>
      BY <1>1
    <2>2. th[t].ret \in Places
      BY RetPlace
    <2>3. /\ th' \in [Threads -> ThreadType]
          /\ th'[t].pc = th[t].ret
          /\ \A u \in Threads : u # t => th'[u] = th[u]
      BY <2>1, <2>2, DoneEffect DEF IInv, TypeOK
    <2>4. TypeOK'
      BY <2>1, <2>3 DEF IInv, TypeOK, bus_vars, env
    <2>5. th'[t].pc \notin Holding
      BY <2>2, <2>3 DEF Places, Holding
    <2>6. TakesFromClient' /\ NotYetConnected' /\ CutTelegramDisconnects'
      BY <2>1, <2>3, <2>5, ThreadKept DEF env
    <2> QED  BY <2>4, <2>6 DEF IInv
  <1>2. CASE sender # NoClient
    <2>1. /\ th' = [th EXCEPT ![t].pc = "close", ![t].c = sender]
          /\ sender' = NoClient /\ session' = "idle" /\ late' = FALSE
      BY <1>2
    <2>2. /\ th' \in [Threads -> ThreadType]
          /\ th'[t].pc = "close" /\ th'[t].c = sender
          /\ \A u \in Threads : u # t => th'[u] = th[u]
      <3> DEFINE r == [th[t] EXCEPT !.pc = "close", !.c = sender]
      <3>1. r \in ThreadType /\ r.pc = "close" /\ r.c = sender
        BY DEF IInv, TypeOK, ThreadType
      <3>2. th' = [th EXCEPT ![t] = r]
        BY <2>1
      <3> HIDE DEF r
      <3> QED  BY <3>1, <3>2, ThreadSet DEF IInv, TypeOK
    <2>3. TypeOK'
      BY <2>1, <2>2 DEF IInv, TypeOK, bus_vars, env
    <2>4. TakesFromClient'
      BY <2>2 DEF IInv, TakesFromClient, Holding
    <2>5. NotYetConnected'
      <3>1. NoClient \notin coming
        BY BridgeAssumption DEF IInv, TypeOK
      <3> QED  BY <2>1, <3>1 DEF IInv, NotYetConnected, env
    <2>6. CutTelegramDisconnects'
      <3>1. \A c \in mid' : cl'[c].up =>
              (c \in mid /\ cl[c].up /\ sender # c) \/ th'[t].c = c
        BY <2>2
      <3> QED  BY <2>2, <3>1, CutKept DEF IInv
    <2> QED  BY <2>3, <2>4, <2>5, <2>6 DEF IInv
  <1> QED  BY <1>1, <1>2

\* stopActiveSession after the unlock: the client to close is closed, and what
\* other threads are about to close stays so.
LEMMA CloseSenderStep ==
  ASSUME IInv, NEW t \in Threads, CloseSender(t)
  PROVE  IInv'
  <1> USE DEF CloseSender, At
  <1>1. th[t].ret \in Places
    BY RetPlace
  <1>2. /\ th' \in [Threads -> ThreadType]
        /\ th'[t].pc = th[t].ret
        /\ \A u \in Threads : u # t => th'[u] = th[u]
    BY <1>1, DoneEffect DEF IInv, TypeOK
  <1>3. /\ cl' \in [Clients -> ClientType]
        /\ \A e \in Clients : Len(cl'[e].inb) <= InCap
        /\ \A e \in Clients : cl'[e].up => cl[e].up /\ e # th[t].c
    <2>1. CASE th[t].c \in Clients
      <3> DEFINE c == th[t].c
                 d == Close(cl[c])
      <3>1. ClientOK(cl[c])
        BY <2>1 DEF IInv, TypeOK, ClientOK
      <3>2. ClientOK(d) /\ d.up = FALSE
        BY <3>1, CloseOK
      <3>3. cl' = [cl EXCEPT ![c] = d]
        OBVIOUS
      <3> HIDE DEF d
      <3> QED  BY <2>1, <3>2, <3>3, ClientSet
    <2>2. CASE th[t].c \notin Clients
      BY <2>2 DEF IInv, TypeOK
    <2> QED  BY <2>1, <2>2
  <1>4. req' \in RequestType
    BY ResetEffect DEF IInv, TypeOK
  <1>5. TypeOK'
    BY <1>2, <1>3, <1>4 DEF IInv, TypeOK, env
  <1>6. TakesFromClient'
    BY <1>1, <1>2 DEF IInv, TakesFromClient, Places, Holding
  <1>7. NotYetConnected'
    BY <1>3 DEF IInv, TypeOK, NotYetConnected, env
  <1>8. CutTelegramDisconnects'
    <2> SUFFICES ASSUME NEW c \in mid, cl'[c].up, sender # c
                 PROVE  \E u \in Threads : th'[u].pc = "close" /\ th'[u].c = c
      BY DEF CutTelegramDisconnects, Closing
    <2>1. c \in Clients
      BY DEF IInv, TypeOK
    <2>2. cl[c].up /\ c # th[t].c
      BY <1>3, <2>1
    <2>3. PICK u \in Threads : th[u].pc = "close" /\ th[u].c = c
      BY <2>2 DEF IInv, CutTelegramDisconnects, Closing
    <2> QED  BY <1>2, <2>2, <2>3
  <1> QED  BY <1>5, <1>6, <1>7, <1>8 DEF IInv

\* trySendNextByte takes a byte.
LEMMA SendPopStep ==
  ASSUME IInv, NEW t \in Threads, SendPop(t)
  PROVE  IInv'
  <1> USE DEF SendPop, At
  <1> DEFINE c == th[t].c
  <1>1. CASE Connected(c) /\ HasPending(cl[c])
    <2> DEFINE d == Pop(cl[c])
               b == Head(cl[c].inb)
    <2>1. c \in Clients /\ ClientOK(cl[c])
      BY <1>1 DEF IInv, TypeOK, ThreadType, Connected, ClientOK
    <2>2. ClientOK(d) /\ d.up = cl[c].up /\ b \in Byte
      BY <1>1, <2>1, PopOK
    <2>3. cl' = [cl EXCEPT ![c] = d] /\ th' = [th EXCEPT ![t].pc = "write", ![t].byte = b]
      BY <1>1
    <2> HIDE DEF d, b
    <2>4. /\ cl' \in [Clients -> ClientType]
          /\ \A e \in Clients : Len(cl'[e].inb) <= InCap
          /\ \A e \in Clients : cl'[e].up => cl[e].up
      BY <2>1, <2>2, <2>3, ClientSet
    <2>5. /\ th' \in [Threads -> ThreadType]
          /\ th'[t].pc = "write" /\ th'[t].c = c
          /\ \A u \in Threads : u # t => th'[u] = th[u]
      BY <2>2, <2>3 DEF IInv, TypeOK, ThreadType
    <2>6. TypeOK'
      BY <2>4, <2>5 DEF IInv, TypeOK, bus_vars, env
    <2>7. TakesFromClient'
      BY <2>1, <2>5 DEF IInv, TakesFromClient
    <2>8. NotYetConnected'
      BY <2>4 DEF IInv, TypeOK, NotYetConnected, env
    <2>9. CutTelegramDisconnects'
      <3>1. \A e \in mid' : cl'[e].up => sender' = e \/ (e \in mid /\ cl[e].up /\ sender # e)
        BY <2>4 DEF IInv, TypeOK
      <3> QED  BY <2>5, <3>1, CutKept DEF IInv
    <2> QED  BY <2>6, <2>7, <2>8, <2>9 DEF IInv
  <1>2. CASE ~(Connected(c) /\ HasPending(cl[c]))
    <2>1. Done(t, th[t].ret) /\ cl' = cl
      BY <1>2
    <2>2. th[t].ret \in Places
      BY RetPlace
    <2>3. /\ th' \in [Threads -> ThreadType]
          /\ th'[t].pc = th[t].ret
          /\ \A u \in Threads : u # t => th'[u] = th[u]
      BY <2>1, <2>2, DoneEffect DEF IInv, TypeOK
    <2>4. TypeOK'
      BY <2>1, <2>3 DEF IInv, TypeOK, bus_vars, env
    <2>5. th'[t].pc \notin Holding
      BY <2>2, <2>3 DEF Places, Holding
    <2>6. TakesFromClient' /\ NotYetConnected' /\ CutTelegramDisconnects'
      BY <2>1, <2>3, <2>5, ThreadKept DEF env
    <2> QED  BY <2>4, <2>6 DEF IInv
  <1> QED  BY <1>1, <1>2

\* trySendNextByte writes it: the telegram that a SYN ends is the one of the
\* session, and only the session can begin one.
LEMMA SendWriteStep ==
  ASSUME IInv, NEW t \in Threads, SendWrite(t)
  PROVE  IInv'
  <1> USE DEF SendWrite, At
  <1>1. th[t].ret \in Places
    BY RetPlace
  <1>2. /\ th' \in [Threads -> ThreadType]
        /\ th'[t].pc = th[t].ret
        /\ \A u \in Threads : u # t => th'[u] = th[u]
    BY <1>1, DoneEffect DEF IInv, TypeOK
  <1>3. /\ session' \in {"idle", "request", "response", "transmit"} /\ late' = FALSE
        /\ sender' \in Clients \cup {NoClient}
        /\ mid' \subseteq mid \cup ({sender} \cap Clients)
    <2>1. sender \in Clients \cup {NoClient} /\ th[t].c \in Clients
      BY DEF IInv, TypeOK, TakesFromClient, Holding
    <2>2. CASE th[t].byte = Syn
      BY <2>1, <2>2 DEF Transit
    <2>3. CASE th[t].byte # Syn
      BY <2>1, <2>3 DEF Transit
    <2> QED  BY <2>2, <2>3
  <1>4. TypeOK'
    BY <1>2, <1>3 DEF IInv, TypeOK, bus_vars, env
  <1>5. TakesFromClient'
    BY <1>1, <1>2 DEF IInv, TakesFromClient, Places, Holding
  <1>6. NotYetConnected'
    <2>1. NoClient \notin coming
      BY BridgeAssumption DEF IInv, TypeOK
    <2> QED  BY <2>1 DEF IInv, NotYetConnected, env
  <1>7. CutTelegramDisconnects'
    <2>1. \A c \in mid' : cl'[c].up =>
            sender' = c \/ (c \in mid /\ cl[c].up /\ sender # c)
      OBVIOUS
    <2> QED  BY <1>2, <2>1, CutKept DEF IInv
  <1> QED  BY <1>4, <1>5, <1>6, <1>7 DEF IInv

\* handleBusAvailableForSession takes the first byte, or ends the session.
LEMMA AvailPopStep ==
  ASSUME IInv, NEW t \in Threads, AvailPop(t)
  PROVE  IInv'
  <1> USE DEF AvailPop, At
  <1> DEFINE c == th[t].c
  <1>1. CASE ~BusAvailable(req)
    <2>1. Done(t, th[t].ret) /\ cl' = cl
      BY <1>1
    <2>2. th[t].ret \in Places
      BY RetPlace
    <2>3. /\ th' \in [Threads -> ThreadType]
          /\ th'[t].pc = th[t].ret
          /\ \A u \in Threads : u # t => th'[u] = th[u]
      BY <2>1, <2>2, DoneEffect DEF IInv, TypeOK
    <2>4. TypeOK'
      BY <2>1, <2>3 DEF IInv, TypeOK, bus_vars, env
    <2>5. th'[t].pc \notin Holding
      BY <2>2, <2>3 DEF Places, Holding
    <2>6. TakesFromClient' /\ NotYetConnected' /\ CutTelegramDisconnects'
      BY <2>1, <2>3, <2>5, ThreadKept DEF env
    <2> QED  BY <2>4, <2>6 DEF IInv
  <1>2. CASE BusAvailable(req) /\ HasPending(cl[c])
    <2> DEFINE d == Pop(cl[c])
               b == Head(cl[c].inb)
    <2>1. c \in Clients /\ ClientOK(cl[c])
      BY DEF IInv, TypeOK, TakesFromClient, Holding, ClientOK
    <2>2. ClientOK(d) /\ d.up = cl[c].up /\ b \in Byte
      BY <1>2, <2>1, PopOK
    <2>3. cl' = [cl EXCEPT ![c] = d] /\ th' = [th EXCEPT ![t].pc = "request", ![t].byte = b]
      BY <1>2
    <2> HIDE DEF d, b
    <2>4. /\ cl' \in [Clients -> ClientType]
          /\ \A e \in Clients : Len(cl'[e].inb) <= InCap
          /\ \A e \in Clients : cl'[e].up => cl[e].up
      BY <2>1, <2>2, <2>3, ClientSet
    <2>5. /\ th' \in [Threads -> ThreadType]
          /\ th'[t].pc = "request" /\ th'[t].c = c
          /\ \A u \in Threads : u # t => th'[u] = th[u]
      BY <2>2, <2>3 DEF IInv, TypeOK, ThreadType
    <2>6. TypeOK'
      BY <2>4, <2>5 DEF IInv, TypeOK, bus_vars, env
    <2>7. TakesFromClient'
      BY <2>1, <2>5 DEF IInv, TakesFromClient
    <2>8. NotYetConnected'
      BY <2>4 DEF IInv, TypeOK, NotYetConnected, env
    <2>9. CutTelegramDisconnects'
      <3>1. \A e \in mid' : cl'[e].up => sender' = e \/ (e \in mid /\ cl[e].up /\ sender # e)
        BY <2>4 DEF IInv, TypeOK
      <3> QED  BY <2>5, <3>1, CutKept DEF IInv
    <2> QED  BY <2>6, <2>7, <2>8, <2>9 DEF IInv
  <1>3. CASE BusAvailable(req) /\ ~HasPending(cl[c])
    <2>1. th' = [th EXCEPT ![t].pc = "stop"] /\ cl' = cl
      BY <1>3 DEF Goto
    <2>2. /\ th' \in [Threads -> ThreadType]
          /\ th'[t].pc = "stop"
          /\ \A u \in Threads : u # t => th'[u] = th[u]
      BY <2>1 DEF IInv, TypeOK, ThreadType
    <2>3. TypeOK'
      BY <2>1, <2>2 DEF IInv, TypeOK, bus_vars, env
    <2>4. TakesFromClient' /\ NotYetConnected' /\ CutTelegramDisconnects'
      BY <2>1, <2>2, ThreadKept DEF env, Holding
    <2> QED  BY <2>3, <2>4 DEF IInv
  <1> QED  BY <1>1, <1>2, <1>3

\* handleBusAvailableForSession requests the bus: a telegram begins, and its
\* client owns the session.
LEMMA AvailRequestStep ==
  ASSUME IInv, NEW t \in Threads, AvailRequest(t)
  PROVE  IInv'
  <1> USE DEF AvailRequest, At
  <1>1. th[t].ret \in Places
    BY RetPlace
  <1>2. /\ th' \in [Threads -> ThreadType]
        /\ th'[t].pc = th[t].ret
        /\ \A u \in Threads : u # t => th'[u] = th[u]
    BY <1>1, DoneEffect DEF IInv, TypeOK
  <1>3. req' \in RequestType
    <2> DEFINE x == TRUE
    <2>1. x \in BOOLEAN
      OBVIOUS
    <2>2. RequestBus(req, th[t].byte, x) \in RequestType
      <3> HIDE DEF x
      <3>1. req \in RequestType /\ th[t].byte \in Byte
        BY DEF IInv, TypeOK, ThreadType
      <3> QED  BY <2>1, <3>1, RequestBusEffect
    <2> QED  BY <2>2 DEF IInv, TypeOK
  <1>4. /\ session' \in {"idle", "request", "response", "transmit"} /\ late' \in BOOLEAN
        /\ mid' \subseteq mid \cup ({sender} \cap Clients)
    <2>1. /\ th[t].c \in Clients /\ late \in BOOLEAN
          /\ session \in {"idle", "request", "response", "transmit"}
      BY DEF IInv, TypeOK, TakesFromClient, Holding
    <2>2. CASE session = "request" /\ sender = th[t].c
      BY <2>1, <2>2 DEF Transit
    <2>3. CASE ~(session = "request" /\ sender = th[t].c)
      BY <2>1, <2>3
    <2> QED  BY <2>2, <2>3
  <1>5. TypeOK'
    BY <1>2, <1>3, <1>4 DEF IInv, TypeOK, bus_vars, env
  <1>6. TakesFromClient'
    BY <1>1, <1>2 DEF IInv, TakesFromClient, Places, Holding
  <1>7. NotYetConnected'
    BY <1>4 DEF IInv, NotYetConnected, env
  <1>8. CutTelegramDisconnects'
    <2>1. \A c \in mid' : cl'[c].up =>
            sender' = c \/ (c \in mid /\ cl[c].up /\ sender # c)
      BY <1>4
    <2> QED  BY <1>2, <2>1, CutKept DEF IInv
  <1> QED  BY <1>5, <1>6, <1>7, <1>8 DEF IInv

-----------------------------------------------------------------------------
\* The bus thread.

\* A byte of the bus, through busRequestCompleted and run.
LEMMA ReceiveStep ==
  ASSUME IInv, NEW b \in BusBytes, Receive(b)
  PROVE  IInv'
  <1> USE DEF Receive, At
  <1>1. b \in Byte /\ req \in RequestType /\ "bus" \in Threads
    BY BridgeAssumption DEF IInv, TypeOK, Threads
  <1>2. CASE b = Syn /\ req.bus_request
    <2>1. flag' = TRUE /\ UNCHANGED <<req, session, late, info, th>>
      BY <1>2
    <2>2. TypeOK'
      BY <2>1 DEF IInv, TypeOK, env
    <2>3. TakesFromClient' /\ NotYetConnected' /\ CutTelegramDisconnects'
      BY <2>1 DEF IInv, TakesFromClient, NotYetConnected, CutTelegramDisconnects,
                  Closing, env
    <2> QED  BY <2>2, <2>3 DEF IInv
  <1>3. CASE ~(b = Syn /\ req.bus_request)
    <2> DEFINE q == IF flag THEN BusRequestCompleted(req) ELSE req
               r == Run(q, b)
    <2>1. /\ flag' = FALSE
          /\ req' = r /\ info' = [byte |-> b, result |-> r.result]
          /\ IF flag THEN OnBusRequested ELSE UNCHANGED <<session, late>>
          /\ Goto("bus", "info")
      BY <1>3
    <2>2. q \in RequestType
      BY <1>1, CompletedEffect
    <2> HIDE DEF q
    <2>3. r \in RequestType
      BY <1>1, <2>2, RunFacts DEF RunEffect
    <2>4. r.result \in Results
      BY <2>3 DEF RequestType
    <2> HIDE DEF r
    <2>5. /\ session' \in {"idle", "request", "response", "transmit"}
          /\ late' \in BOOLEAN
      BY <2>1 DEF IInv, TypeOK, OnBusRequested, Transit
    <2>6. /\ th' \in [Threads -> ThreadType]
          /\ th'["bus"].pc = "info"
          /\ \A u \in Threads : u # "bus" => th'[u] = th[u]
      BY <1>1, <2>1 DEF IInv, TypeOK, ThreadType, Goto
    <2>7. TypeOK'
      BY <1>1, <2>1, <2>3, <2>4, <2>5, <2>6 DEF IInv, TypeOK, env
    <2>8. TakesFromClient' /\ NotYetConnected' /\ CutTelegramDisconnects'
      BY <1>1, <2>6, ThreadKept DEF env, Holding
    <2> QED  BY <2>7, <2>8 DEF IInv
  <1> QED  BY <1>2, <1>3

\* onBusEventInfo takes its snapshot.
LEMMA SnapshotStep ==
  ASSUME IInv, Snapshot
  PROVE  IInv'
  <1> USE DEF Snapshot, At
  <1>0. "bus" \in Threads
    BY DEF Threads
  <1>1. CASE running
    <2> DEFINE r == [th["bus"] EXCEPT !.c = sender,
                       !.pc = IF Connected(sender) THEN "echo" ELSE "forward"]
    <2>1. /\ th' = [th EXCEPT !["bus"] = r]
          /\ seen' \subseteq slots /\ late' = FALSE /\ info' = info
      BY <1>0, <1>1
    <2>2. r \in ThreadType /\ r.pc \in {"echo", "forward"} /\ r.c = sender
      BY <1>0 DEF IInv, TypeOK, ThreadType
    <2>3. r.pc = "echo" => r.c \in Clients
      BY <1>0 DEF IInv, TypeOK, ThreadType, Connected
    <2> HIDE DEF r
    <2>4. /\ th' \in [Threads -> ThreadType]
          /\ th'["bus"] = r
          /\ \A u \in Threads : u # "bus" => th'[u] = th[u]
      BY <1>0, <2>1, <2>2, ThreadSet DEF IInv, TypeOK
    <2>5. TypeOK'
      BY <2>1, <2>4 DEF IInv, TypeOK, env
    <2>6. TakesFromClient' /\ NotYetConnected' /\ CutTelegramDisconnects'
      BY <1>0, <2>2, <2>3, <2>4, ThreadKept DEF env, Holding
    <2> QED  BY <2>5, <2>6 DEF IInv
  <1>2. CASE ~running
    <2>1. Done("bus", "idle") /\ info' = NoInfo /\ UNCHANGED <<seen, late>>
      BY <1>2
    <2>2. "idle" \in Places
      BY DEF Places
    <2>3. /\ th' \in [Threads -> ThreadType]
          /\ th'["bus"].pc = "idle"
          /\ \A u \in Threads : u # "bus" => th'[u] = th[u]
      BY <1>0, <2>1, <2>2, DoneEffect DEF IInv, TypeOK
    <2>4. NoInfo \in [byte : Byte, result : Results]
      BY ResultFacts DEF NoInfo, Byte
    <2>5. TypeOK'
      BY <2>1, <2>3, <2>4 DEF IInv, TypeOK, env
    <2>6. TakesFromClient' /\ NotYetConnected' /\ CutTelegramDisconnects'
      BY <1>0, <2>3, ThreadKept DEF env, Holding
    <2> QED  BY <2>5, <2>6 DEF IInv
  <1> QED  BY <1>1, <1>2

\* onBusByte of the sender.
LEMMA SenderByteStep ==
  ASSUME IInv, SenderByte
  PROVE  IInv'
  <1> DEFINE c == th["bus"].c
             action == OnBusByte(cl[c], info.byte, info.result)
             p == CASE action = "stop_session" -> "stop"
                    [] action = "bypass_wait"  -> "bypass"
                    [] action = "keep_active"  -> "after"
             r == [th["bus"] EXCEPT !.ret = "after", !.pc = p]
  <1>1. "bus" \in Threads /\ th["bus"].pc = "echo"
    BY DEF Threads, SenderByte, At
  <1>2. action \in {"stop_session", "bypass_wait", "keep_active"}
    BY DEF OnBusByte, RegularOnBusByte, EnhancedOnBusByte
  <1>3. th' = [th EXCEPT !["bus"] = r]
    <2>1. th' = [th EXCEPT !["bus"].ret = "after", !["bus"].pc = p]
      BY Zenon DEF SenderByte
    <2> HIDE DEF p
    <2> QED  BY <1>1, <2>1
  <1>4. UNCHANGED <<bus_vars, session, sender, late, running, cl, slots,
                    closing, env, mid>>
    BY DEF SenderByte
  <1> HIDE DEF action
  <1>5. p \in {"stop", "bypass", "after"}
    BY <1>2
  <1> HIDE DEF p
  <1>6. r \in ThreadType /\ r.pc \in {"stop", "bypass", "after"}
    BY <1>1, <1>5 DEF IInv, TypeOK, ThreadType
  <1> HIDE DEF r
  <1>7. /\ th' \in [Threads -> ThreadType]
        /\ th'["bus"] = r
        /\ \A u \in Threads : u # "bus" => th'[u] = th[u]
    BY <1>1, <1>3, <1>6, ThreadSet DEF IInv, TypeOK
  <1>8. TypeOK'
    BY <1>4, <1>7 DEF IInv, TypeOK, bus_vars, env
  <1>9. TakesFromClient' /\ NotYetConnected' /\ CutTelegramDisconnects'
    BY <1>1, <1>4, <1>6, <1>7, ThreadKept DEF env, Holding
  <1> QED  BY <1>8, <1>9 DEF IInv

\* bypass_wait.
LEMMA BypassStep ==
  ASSUME IInv, Bypass
  PROVE  IInv'
  <1> USE DEF Bypass, At
  <1>1. "bus" \in Threads
    BY DEF Threads
  <1>2. /\ th' \in [Threads -> ThreadType]
        /\ th'["bus"].pc = "send"
        /\ \A u \in Threads : u # "bus" => th'[u] = th[u]
    BY <1>1, SMTT(40) DEF IInv, TypeOK, ThreadType, Goto
  <1>3. TypeOK'
    BY <1>2 DEF IInv, TypeOK, Transit, bus_vars, env
  <1>4. TakesFromClient' /\ NotYetConnected' /\ CutTelegramDisconnects'
    BY <1>1, <1>2, ThreadKept DEF env, Holding
  <1> QED  BY <1>3, <1>4 DEF IInv

\* The snapshot of handleBusAvailableForSession.
LEMMA AvailEffect ==
  ASSUME IInv, NEW t \in Threads, NEW pc \in {"forward", "select"},
         AvailSnapshot(t, pc)
  PROVE  /\ th' \in [Threads -> ThreadType]
         /\ th'[t].pc \in {"take", pc}
         /\ th'[t].pc = "take" => th'[t].c \in Clients
         /\ \A u \in Threads : u # t => th'[u] = th[u]
  <1> DEFINE r == IF session = "request" /\ Connected(sender)
                  THEN [pc |-> "take", c |-> sender, byte |-> 0, ret |-> pc]
                  ELSE Idle(pc)
  <1>1. th' = [th EXCEPT ![t] = r]
    BY DEF AvailSnapshot
  <1>2. Idle(pc) \in ThreadType /\ Idle(pc).pc = pc
    BY IdleType DEF Places
  <1>3. 0 \in Byte /\ (Connected(sender) => sender \in Clients)
    BY DEF Byte, IInv, TypeOK, Connected
  <1>4. r \in ThreadType /\ r.pc \in {"take", pc} /\ (r.pc = "take" => r.c \in Clients)
    BY <1>2, <1>3 DEF ThreadType
  <1> HIDE DEF r
  <1> QED  BY <1>1, <1>4, ThreadSet DEF IInv, TypeOK

\* The bus thread tries to get the bus for a session in request.
LEMMA AfterSenderStep ==
  ASSUME IInv, AfterSender
  PROVE  IInv'
  <1> USE DEF AfterSender, At
  <1>1. "bus" \in Threads
    BY DEF Threads
  <1>2. /\ th' \in [Threads -> ThreadType]
        /\ th'["bus"].pc \in {"take", "forward"}
        /\ th'["bus"].pc = "take" => th'["bus"].c \in Clients
        /\ \A u \in Threads : u # "bus" => th'[u] = th[u]
    BY <1>1, AvailEffect
  <1>3. TypeOK'
    BY <1>2 DEF IInv, TypeOK, bus_vars, env
  <1>4. TakesFromClient' /\ NotYetConnected' /\ CutTelegramDisconnects'
    BY <1>1, <1>2, ThreadKept DEF env, Holding
  <1> QED  BY <1>3, <1>4 DEF IInv

\* The byte goes to the other clients.
LEMMA ForwardStep ==
  ASSUME IInv, Forward
  PROVE  IInv'
  <1> USE DEF Forward, At
  <1>1. "bus" \in Threads /\ "idle" \in Places
    BY DEF Threads, Places
  <1>2. /\ th' \in [Threads -> ThreadType]
        /\ th'["bus"].pc = "idle"
        /\ \A u \in Threads : u # "bus" => th'[u] = th[u]
    BY <1>1, DoneEffect DEF IInv, TypeOK
  <1>3. NoInfo \in [byte : Byte, result : Results]
    BY ResultFacts DEF NoInfo, Byte
  <1>4. TypeOK'
    BY <1>2, <1>3 DEF IInv, TypeOK, env
  <1>5. TakesFromClient' /\ NotYetConnected' /\ CutTelegramDisconnects'
    BY <1>1, <1>2, ThreadKept DEF env, Holding
  <1> QED  BY <1>4, <1>5 DEF IInv

-----------------------------------------------------------------------------
\* The I/O thread and the user.

\* checkSessionTimeout.
LEMMA CheckTimeoutStep ==
  ASSUME IInv, CheckTimeout
  PROVE  IInv'
  <1> USE DEF CheckTimeout, Selecting, At
  <1> DEFINE p == IF sender # NoClient /\ late THEN "stop" ELSE "gone"
             r == [th["io"] EXCEPT !.ret = "gone", !.pc = p]
  <1>1. "io" \in Threads
    BY DEF Threads
  <1>2. th' = [th EXCEPT !["io"] = r]
    BY <1>1
  <1>3. r \in ThreadType /\ r.pc \in {"stop", "gone"}
    BY <1>1 DEF IInv, TypeOK, ThreadType
  <1> HIDE DEF r
  <1>4. /\ th' \in [Threads -> ThreadType]
        /\ th'["io"] = r
        /\ \A u \in Threads : u # "io" => th'[u] = th[u]
    BY <1>1, <1>2, <1>3, ThreadSet DEF IInv, TypeOK
  <1>5. TypeOK'
    BY <1>4 DEF IInv, TypeOK, bus_vars, env
  <1>6. TakesFromClient' /\ NotYetConnected' /\ CutTelegramDisconnects'
    BY <1>1, <1>3, <1>4, ThreadKept DEF env, Holding
  <1> QED  BY <1>5, <1>6 DEF IInv

\* handleActiveSenderDisconnected: the sender it closes is not connected.
LEMMA SenderGoneStep ==
  ASSUME IInv, SenderGone
  PROVE  IInv'
  <1> USE DEF SenderGone, At
  <1>0. "io" \in Threads /\ "sweep" \in Places
    BY DEF Threads, Places
  <1>1. CASE sender # NoClient /\ ~cl[sender].up
    <2> DEFINE r == [th["io"] EXCEPT !.pc = "close", !.c = sender, !.ret = "sweep"]
    <2>1. /\ th' = [th EXCEPT !["io"] = r]
          /\ sender' = NoClient /\ session' = "idle" /\ late' = FALSE
      BY <1>0, <1>1
    <2>2. r \in ThreadType /\ r.pc = "close" /\ r.c = sender
      BY <1>0, ZenonT(60) DEF IInv, TypeOK, ThreadType
    <2> HIDE DEF r
    <2>3. /\ th' \in [Threads -> ThreadType]
          /\ th'["io"].pc = "close" /\ th'["io"].c = sender
          /\ \A u \in Threads : u # "io" => th'[u] = th[u]
      BY <1>0, <2>1, <2>2, ThreadSet DEF IInv, TypeOK
    <2>4. TypeOK'
      BY <2>1, <2>3 DEF IInv, TypeOK, bus_vars, env
    <2>5. TakesFromClient'
      BY <2>3 DEF IInv, TakesFromClient, Holding
    <2>6. NotYetConnected'
      <3>1. NoClient \notin coming
        BY BridgeAssumption DEF IInv, TypeOK
      <3> QED  BY <2>1, <3>1 DEF IInv, NotYetConnected, env
    <2>7. CutTelegramDisconnects'
      <3>1. \A c \in mid' : cl'[c].up => c \in mid /\ cl[c].up /\ sender # c
        BY <1>1
      <3> QED  BY <1>0, <2>3, <3>1, CutKept DEF IInv
    <2> QED  BY <2>4, <2>5, <2>6, <2>7 DEF IInv
  <1>2. CASE ~(sender # NoClient /\ ~cl[sender].up)
    <2>1. Done("io", "sweep") /\ UNCHANGED <<session, sender, late>>
      BY <1>2
    <2>2. /\ th' \in [Threads -> ThreadType]
          /\ th'["io"].pc = "sweep"
          /\ \A u \in Threads : u # "io" => th'[u] = th[u]
      BY <1>0, <2>1, DoneEffect DEF IInv, TypeOK
    <2>3. TypeOK'
      BY <2>1, <2>2 DEF IInv, TypeOK, bus_vars, env
    <2>4. TakesFromClient' /\ NotYetConnected' /\ CutTelegramDisconnects'
      BY <1>0, <2>1, <2>2, ThreadKept DEF env, Holding
    <2> QED  BY <2>3, <2>4 DEF IInv
  <1> QED  BY <1>1, <1>2

\* removeDisconnectedClients and the fallback of the I/O thread.
LEMMA SweepStep ==
  ASSUME IInv, Sweep
  PROVE  IInv'
  <1> USE DEF Sweep, At
  <1>1. "io" \in Threads
    BY DEF Threads
  <1>2. /\ th' \in [Threads -> ThreadType]
        /\ th'["io"].pc \in {"take", "select"}
        /\ th'["io"].pc = "take" => th'["io"].c \in Clients
        /\ \A u \in Threads : u # "io" => th'[u] = th[u]
    BY <1>1, AvailEffect
  <1>3. TypeOK'
    BY <1>2 DEF IInv, TypeOK, bus_vars, env
  <1>4. TakesFromClient' /\ NotYetConnected' /\ CutTelegramDisconnects'
    BY <1>1, <1>2, ThreadKept DEF env, Holding
  <1> QED  BY <1>3, <1>4 DEF IInv

\* The I/O thread is not about to close a client when it serves the sockets.
LEMMA ServingIo ==
  ASSUME Serving \/ At("io", "input")
  PROVE  "io" \in Threads /\ th["io"].pc # "close" /\ {"serve", "select", "off"} \subseteq Places
  BY DEF Serving, Selecting, At, Threads, Places

\* acceptNewConnections: the client that comes up has no telegram.
LEMMA AcceptStep ==
  ASSUME IInv, NEW c \in Clients, Accept(c)
  PROVE  IInv'
  <1> USE DEF Accept, AddClient
  <1>1. "io" \in Threads /\ th["io"].pc # "close" /\ "serve" \in Places
    BY ServingIo
  <1>2. /\ th' \in [Threads -> ThreadType]
        /\ th'["io"].pc = "serve"
        /\ \A u \in Threads : u # "io" => th'[u] = th[u]
    BY <1>1, DoneEffect DEF IInv, TypeOK
  <1> DEFINE d == NewClient(KindOf[c])
  <1>3. ClientOK(d)
    BY BridgeAssumption, NewClientOK
  <1>4. cl' = [cl EXCEPT ![c] = d] \/ cl' = cl
    OBVIOUS
  <1> HIDE DEF d
  <1>5. /\ cl' \in [Clients -> ClientType]
        /\ \A e \in Clients : Len(cl'[e].inb) <= InCap
        /\ \A e \in Clients : e # c => cl'[e] = cl[e]
    BY <1>3, <1>4 DEF IInv, TypeOK, ClientOK
  <1>6. slots' \subseteq Clients /\ coming' = coming \ {c} /\ c \in coming
    BY DEF IInv, TypeOK
  <1>7. UNCHANGED <<bus_vars, session, sender, late, running, closing, todo,
                    stops, mid>>
    OBVIOUS
  <1>8. TypeOK'
    BY <1>2, <1>5, <1>6, <1>7 DEF IInv, TypeOK, bus_vars
  <1>9. TakesFromClient'
    BY <1>2 DEF IInv, TakesFromClient, Holding
  <1>10. NotYetConnected'
    BY <1>5, <1>6, <1>7 DEF IInv, TypeOK, NotYetConnected
  <1>11. CutTelegramDisconnects'
    <2>1. \A e \in mid' : e \in Clients /\ e # c
      BY <1>6, <1>7 DEF IInv, TypeOK, NotYetConnected
    <2>2. \A e \in mid' : cl'[e].up => sender' = e \/ (e \in mid /\ cl[e].up /\ sender # e)
      BY <1>5, <1>7, <2>1
    <2> QED  BY <1>1, <1>2, <2>2, CutKept DEF IInv
  <1> QED  BY <1>8, <1>9, <1>10, <1>11 DEF IInv

\* handleSocketInput reads a chunk.
LEMMA ReadStep ==
  ASSUME IInv, NEW c \in Clients, NEW data \in ChunksOf[c], Read(c, data)
  PROVE  IInv'
  <1> DEFINE in == HandleIncomingStream(cl[c], data)
             d == in.c
             p == IF in.stuck THEN "push" ELSE "input"
             r == [th["io"] EXCEPT !.c = c, !.pc = p]
  <1>1. "io" \in Threads /\ th["io"].pc # "close"
    BY ServingIo DEF Read
  <1>2. ClientOK(cl[c]) /\ data \in Seq(Byte)
    BY BridgeAssumption DEF IInv, TypeOK, ClientOK
  <1>3. ClientOK(d) /\ (d.up => cl[c].up)
    BY <1>2, StreamOK
  <1>4. /\ cl' = [cl EXCEPT ![c] = d]
        /\ req' \in {Reset(req), req}
        /\ th' = [th EXCEPT !["io"].c = c, !["io"].pc = p]
        /\ UNCHANGED <<flag, bytes, info, seen, session, sender, late, running,
                       slots, closing, coming, stops, mid>>
    BY DEF Read
  <1> HIDE DEF d, p
  <1>5. req' \in RequestType
    BY <1>4, ResetEffect DEF IInv, TypeOK
  <1>6. p \in {"push", "input"}
    BY DEF p
  <1>7. r \in ThreadType /\ r.pc \in {"push", "input"}
    BY <1>1, <1>6, ZenonT(60) DEF IInv, TypeOK, ThreadType
  <1>8. th' = [th EXCEPT !["io"] = r]
    BY <1>1, <1>4
  <1> HIDE DEF r
  <1>9. /\ th' \in [Threads -> ThreadType]
        /\ th'["io"] = r
        /\ \A u \in Threads : u # "io" => th'[u] = th[u]
    BY <1>1, <1>7, <1>8, ThreadSet DEF IInv, TypeOK
  <1>10. /\ cl' \in [Clients -> ClientType]
         /\ \A e \in Clients : Len(cl'[e].inb) <= InCap
         /\ \A e \in Clients : cl'[e].up => cl[e].up
    BY <1>3, <1>4, ClientSet
  <1>11. TypeOK'
    BY <1>4, <1>5, <1>9, <1>10 DEF IInv, TypeOK
  <1>12. TakesFromClient'
    BY <1>7, <1>9 DEF IInv, TakesFromClient, Holding
  <1>13. NotYetConnected'
    BY <1>4, <1>10 DEF IInv, TypeOK, NotYetConnected
  <1>14. CutTelegramDisconnects'
    <2>1. \A e \in mid' : cl'[e].up => sender' = e \/ (e \in mid /\ cl[e].up /\ sender # e)
      BY <1>4, <1>10 DEF IInv, TypeOK
    <2> QED  BY <1>1, <1>9, <2>1, CutKept DEF IInv
  <1> QED  BY <1>11, <1>12, <1>13, <1>14 DEF IInv

\* handleSocketInput goes on: a new session is one of a client that is up.
LEMMA InputStep ==
  ASSUME IInv, Input
  PROVE  IInv'
  <1> DEFINE c == th["io"].c
  <1>1. "io" \in Threads /\ th["io"].pc # "close" /\ "serve" \in Places
    BY ServingIo DEF Input
  <1>2. UNCHANGED <<bus_vars, running, slots, closing, env, mid>>
    BY DEF Input
  <1>3. CASE sender = c /\ session = "transmit"
    <2>1. /\ th' = [th EXCEPT !["io"].pc = "send", !["io"].ret = "serve"]
          /\ UNCHANGED <<session, sender, late, cl>>
      BY <1>3 DEF Input
    <2> DEFINE r == [th["io"] EXCEPT !.pc = "send", !.ret = "serve"]
    <2>2. r \in ThreadType /\ r.pc = "send"
      BY <1>1, ZenonT(60) DEF IInv, TypeOK, ThreadType
    <2>3. th' = [th EXCEPT !["io"] = r]
      BY <1>1, <2>1
    <2> HIDE DEF r
    <2>4. /\ th' \in [Threads -> ThreadType]
          /\ th'["io"].pc = "send"
          /\ \A u \in Threads : u # "io" => th'[u] = th[u]
      BY <1>1, <2>2, <2>3, ThreadSet DEF IInv, TypeOK
    <2>5. TypeOK'
      BY <1>2, <2>1, <2>4 DEF IInv, TypeOK, bus_vars, env
    <2>6. TakesFromClient' /\ NotYetConnected' /\ CutTelegramDisconnects'
      BY <1>1, <1>2, <2>1, <2>4, ThreadKept DEF env, Holding
    <2> QED  BY <2>5, <2>6 DEF IInv
  <1>4. CASE ~(sender = c /\ session = "transmit")
    <2>1. Done("io", "serve")
      BY <1>4 DEF Input
    <2>2. /\ th' \in [Threads -> ThreadType]
          /\ th'["io"].pc = "serve"
          /\ \A u \in Threads : u # "io" => th'[u] = th[u]
      BY <1>1, <2>1, DoneEffect DEF IInv, TypeOK
    <2>3. CASE CanStart(c)
      <3> DEFINE d == OnSessionStart(cl[c])
      <3>1. /\ sender' = c /\ session' = "request" /\ late' = FALSE
            /\ cl' = [cl EXCEPT ![c] = d]
        BY <1>4, <2>3 DEF Input, Transit
      <3>2. c \in Clients /\ cl[c].up /\ sender = NoClient /\ ClientOK(cl[c])
        BY <1>1, <2>3 DEF CanStart, Connected, IInv, TypeOK, ThreadType, ClientOK
      <3>3. ClientOK(d) /\ d.up = cl[c].up
        BY <3>2, OnSessionStartOK
      <3> HIDE DEF d
      <3>4. /\ cl' \in [Clients -> ClientType]
            /\ \A e \in Clients : Len(cl'[e].inb) <= InCap
            /\ \A e \in Clients : cl'[e].up => cl[e].up
        BY <3>1, <3>2, <3>3, ClientSet
      <3>5. TypeOK'
        BY <1>2, <2>2, <3>1, <3>2, <3>4 DEF IInv, TypeOK, bus_vars, env
      <3>6. TakesFromClient'
        BY <2>2 DEF IInv, TakesFromClient, Holding
      <3>7. NotYetConnected'
        BY <1>2, <3>1, <3>2, <3>4 DEF IInv, TypeOK, NotYetConnected, env
      <3>8. CutTelegramDisconnects'
        <4>1. NoClient \notin mid
          BY BridgeAssumption DEF IInv, TypeOK
        <4>2. \A e \in mid' : cl'[e].up => e \in mid /\ cl[e].up /\ sender # e
          BY <1>2, <3>2, <3>4, <4>1 DEF IInv, TypeOK
        <4> QED  BY <1>1, <2>2, <4>2, CutKept DEF IInv
      <3> QED  BY <3>5, <3>6, <3>7, <3>8 DEF IInv
    <2>4. CASE ~CanStart(c)
      <3>1. UNCHANGED <<session, sender, late, cl>>
        BY <1>4, <2>4 DEF Input
      <3>2. TypeOK'
        BY <1>2, <2>2, <3>1 DEF IInv, TypeOK, bus_vars, env
      <3>3. TakesFromClient' /\ NotYetConnected' /\ CutTelegramDisconnects'
        BY <1>1, <1>2, <2>2, <3>1, ThreadKept DEF env, Holding
      <3> QED  BY <3>2, <3>3 DEF IInv
    <2> QED  BY <2>3, <2>4
  <1> QED  BY <1>3, <1>4

\* A connection ends.
LEMMA HangupStep ==
  ASSUME IInv, NEW c \in Clients, Hangup(c)
  PROVE  IInv'
  <1> USE DEF Hangup
  <1>1. "io" \in Threads /\ th["io"].pc # "close" /\ "serve" \in Places
    BY ServingIo
  <1>2. /\ th' \in [Threads -> ThreadType]
        /\ th'["io"].pc = "serve"
        /\ \A u \in Threads : u # "io" => th'[u] = th[u]
    BY <1>1, DoneEffect DEF IInv, TypeOK
  <1>3. TypeOK'
    BY <1>2 DEF IInv, TypeOK, bus_vars, env
  <1>4. TakesFromClient' /\ NotYetConnected' /\ CutTelegramDisconnects'
    BY <1>1, <1>2, ThreadKept DEF env, Holding
  <1> QED  BY <1>3, <1>4 DEF IInv

\* A client that is closed by whoever serves it.
LEMMA ClosedClient ==
  ASSUME IInv, NEW c \in Clients, cl' = [cl EXCEPT ![c] = Close(@)]
  PROVE  /\ cl' \in [Clients -> ClientType]
         /\ \A e \in Clients : Len(cl'[e].inb) <= InCap
         /\ \A e \in Clients : cl'[e].up => cl[e].up
  <1> DEFINE d == Close(cl[c])
  <1>1. ClientOK(cl[c])
    BY DEF IInv, TypeOK, ClientOK
  <1>2. ClientOK(d) /\ d.up = FALSE
    BY <1>1, CloseOK
  <1>3. cl' = [cl EXCEPT ![c] = d]
    OBVIOUS
  <1> HIDE DEF d
  <1> QED  BY <1>2, <1>3, ClientSet

\* A write to a socket fails.
LEMMA BrokenOutputStep ==
  ASSUME IInv, NEW c \in Clients, BrokenOutput(c)
  PROVE  IInv'
  <1> USE DEF BrokenOutput
  <1>1. "io" \in Threads /\ th["io"].pc # "close" /\ "serve" \in Places
    BY ServingIo
  <1>2. /\ th' \in [Threads -> ThreadType]
        /\ th'["io"].pc = "serve"
        /\ \A u \in Threads : u # "io" => th'[u] = th[u]
    BY <1>1, DoneEffect DEF IInv, TypeOK
  <1>3. /\ cl' \in [Clients -> ClientType]
        /\ \A e \in Clients : Len(cl'[e].inb) <= InCap
        /\ \A e \in Clients : cl'[e].up => cl[e].up
    BY ClosedClient
  <1>4. TypeOK'
    BY <1>2, <1>3 DEF IInv, TypeOK, bus_vars, env
  <1>5. TakesFromClient'
    BY <1>2 DEF IInv, TakesFromClient, Holding
  <1>6. NotYetConnected'
    BY <1>3 DEF IInv, TypeOK, NotYetConnected, env
  <1>7. CutTelegramDisconnects'
    <2>1. \A e \in mid' : cl'[e].up => sender' = e \/ (e \in mid /\ cl[e].up /\ sender # e)
      BY <1>3 DEF IInv, TypeOK
    <2> QED  BY <1>1, <1>2, <2>1, CutKept DEF IInv
  <1> QED  BY <1>4, <1>5, <1>6, <1>7 DEF IInv

\* The end of handleClientIO.
LEMMA CleanupStep ==
  ASSUME IInv, Cleanup
  PROVE  IInv'
  <1> USE DEF Cleanup
  <1>1. "io" \in Threads /\ th["io"].pc # "close" /\ "select" \in Places
    BY DEF Threads, Places, Selecting, At
  <1>2. /\ th' \in [Threads -> ThreadType]
        /\ th'["io"].pc = "select"
        /\ \A u \in Threads : u # "io" => th'[u] = th[u]
    BY <1>1, DoneEffect DEF IInv, TypeOK
  <1>3. ASSUME NEW e \in Clients
        PROVE  ClientOK(cl'[e]) /\ (cl'[e].up => cl[e].up)
    <2>1. ClientOK(cl[e])
      BY DEF IInv, TypeOK, ClientOK
    <2>2. cl'[e] = IF e \in closing THEN Close(cl[e]) ELSE cl[e]
      OBVIOUS
    <2> QED  BY <2>1, <2>2, CloseOK
  <1>4. cl' = [e \in Clients |-> cl'[e]]
    OBVIOUS
  <1>5. /\ cl' \in [Clients -> ClientType]
        /\ \A e \in Clients : Len(cl'[e].inb) <= InCap
        /\ \A e \in Clients : cl'[e].up => cl[e].up
    BY ONLY <1>3, <1>4 DEF ClientOK
  <1>6. slots' \subseteq slots /\ closing' = {}
    OBVIOUS
  <1>7. UNCHANGED <<bus_vars, session, sender, late, running, env, mid>>
    OBVIOUS
  <1>8. TypeOK'
    BY ONLY <1>2, <1>5, <1>6, <1>7, IInv DEF IInv, TypeOK, bus_vars, env
  <1>9. TakesFromClient'
    BY <1>2 DEF IInv, TakesFromClient, Holding
  <1>10. NotYetConnected'
    BY <1>5, <1>7 DEF IInv, TypeOK, NotYetConnected, env
  <1>11. CutTelegramDisconnects'
    <2>1. \A e \in mid' : cl'[e].up => sender' = e \/ (e \in mid /\ cl[e].up /\ sender # e)
      BY <1>5, <1>7 DEF IInv, TypeOK
    <2> QED  BY <1>1, <1>2, <2>1, CutKept DEF IInv
  <1> QED  BY <1>8, <1>9, <1>10, <1>11 DEF IInv

\* The I/O thread ends.
LEMMA IoExitStep ==
  ASSUME IInv, IoExit
  PROVE  IInv'
  <1> USE DEF IoExit, At
  <1>1. "io" \in Threads /\ "off" \in Places
    BY DEF Threads, Places
  <1>2. /\ th' \in [Threads -> ThreadType]
        /\ th'["io"].pc = "off"
        /\ \A u \in Threads : u # "io" => th'[u] = th[u]
    BY <1>1, DoneEffect DEF IInv, TypeOK
  <1>3. TypeOK'
    BY <1>2 DEF IInv, TypeOK, bus_vars, env
  <1>4. TakesFromClient' /\ NotYetConnected' /\ CutTelegramDisconnects'
    BY <1>1, <1>2, ThreadKept DEF env, Holding
  <1> QED  BY <1>3, <1>4 DEF IInv

\* start.
LEMMA StartStep ==
  ASSUME IInv, Start
  PROVE  IInv'
  <1> USE DEF Start, At
  <1>1. "io" \in Threads /\ "select" \in Places
    BY DEF Threads, Places
  <1>2. /\ th' \in [Threads -> ThreadType]
        /\ th'["io"].pc = "select"
        /\ \A u \in Threads : u # "io" => th'[u] = th[u]
    BY <1>1, DoneEffect DEF IInv, TypeOK
  <1>3. TypeOK'
    BY <1>2 DEF IInv, TypeOK, bus_vars, env
  <1>4. TakesFromClient' /\ NotYetConnected' /\ CutTelegramDisconnects'
    BY <1>1, <1>2, ThreadKept DEF env, Holding
  <1> QED  BY <1>3, <1>4 DEF IInv

\* stop sets the flag.
LEMMA StopStep ==
  ASSUME IInv, Stop
  PROVE  IInv'
  <1> USE DEF Stop, At
  <1>1. "user" \in Threads
    BY DEF Threads
  <1>2. /\ th' \in [Threads -> ThreadType]
        /\ th'["user"].pc = "join"
        /\ \A u \in Threads : u # "user" => th'[u] = th[u]
    BY <1>1 DEF IInv, TypeOK, ThreadType, Goto
  <1>3. TypeOK'
    BY <1>2 DEF IInv, TypeOK, bus_vars
  <1>4. TakesFromClient' /\ NotYetConnected' /\ CutTelegramDisconnects'
    BY <1>1, <1>2, ThreadKept DEF Holding
  <1> QED  BY <1>3, <1>4 DEF IInv

\* stop has joined the I/O thread.
LEMMA JoinedStep ==
  ASSUME IInv, Joined
  PROVE  IInv'
  <1> USE DEF Joined, At
  <1>1. "user" \in Threads
    BY DEF Threads
  <1>2. /\ th' \in [Threads -> ThreadType]
        /\ th'["user"].pc = "stop"
        /\ \A u \in Threads : u # "user" => th'[u] = th[u]
    <2> DEFINE r == [th["user"] EXCEPT !.pc = "stop", !.ret = "idle"]
    <2>1. r \in ThreadType /\ r.pc = "stop"
      BY <1>1 DEF IInv, TypeOK, ThreadType
    <2>2. th' = [th EXCEPT !["user"] = r]
      BY <1>1
    <2> HIDE DEF r
    <2> QED  BY <1>1, <2>1, <2>2, ThreadSet DEF IInv, TypeOK
  <1>3. TypeOK'
    BY <1>2 DEF IInv, TypeOK, bus_vars, env
  <1>4. TakesFromClient' /\ NotYetConnected' /\ CutTelegramDisconnects'
    BY <1>1, <1>2, ThreadKept DEF env, Holding
  <1> QED  BY <1>3, <1>4 DEF IInv

\* removeClient.
LEMMA RemoveClientStep ==
  ASSUME IInv, NEW c \in Clients, RemoveClient(c)
  PROVE  IInv'
  <1> USE DEF RemoveClient, At
  <1>1. /\ cl' \in [Clients -> ClientType]
        /\ \A e \in Clients : Len(cl'[e].inb) <= InCap
        /\ \A e \in Clients : cl'[e].up => cl[e].up
    BY ClosedClient
  <1>2. "user" \in Threads
    BY DEF Threads
  <1>3. TypeOK'
    BY <1>1 DEF IInv, TypeOK, bus_vars, env
  <1>4. TakesFromClient'
    BY DEF IInv, TakesFromClient
  <1>5. NotYetConnected'
    BY <1>1 DEF IInv, TypeOK, NotYetConnected, env
  <1>6. CutTelegramDisconnects'
    <2>1. \A e \in mid' : cl'[e].up => sender' = e \/ (e \in mid /\ cl[e].up /\ sender # e)
      BY <1>1 DEF IInv, TypeOK
    <2> QED  BY <1>2, <2>1, CutKept DEF IInv
  <1> QED  BY <1>3, <1>4, <1>5, <1>6 DEF IInv

\* The session timeout passes.
LEMMA TimePassesStep ==
  ASSUME IInv, TimePasses
  PROVE  IInv'
  <1> USE DEF TimePasses
  <1>1. TypeOK'
    BY DEF IInv, TypeOK, bus_vars, env
  <1>2. TakesFromClient' /\ NotYetConnected' /\ CutTelegramDisconnects'
    BY DEF IInv, TakesFromClient, NotYetConnected, CutTelegramDisconnects,
           Closing, At, env
  <1> QED  BY <1>1, <1>2 DEF IInv

-----------------------------------------------------------------------------
\* The inductive invariant holds in every state, whatever the clients send
\* and however the three threads interleave between the locks of
\* client_manager.cpp.
THEOREM Invariant == Spec => []IInv
  <1>1. Init => IInv
    BY InitHolds
  <1>2. IInv /\ [Next]_vars => IInv'
    <2> SUFFICES ASSUME IInv, [Next]_vars PROVE IInv'
      OBVIOUS
    <2>1. ASSUME NEW t \in Threads, Session(t) PROVE IInv'
      BY <2>1, StopSessionStep, CloseSenderStep, SendPopStep, SendWriteStep,
         AvailPopStep, AvailRequestStep DEF Session
    <2>2. ASSUME NEW b \in BusBytes, Receive(b) PROVE IInv'
      BY <2>2, ReceiveStep
    <2>3. CASE BusStep
      BY <2>3, SnapshotStep, SenderByteStep, BypassStep, AfterSenderStep,
         ForwardStep DEF BusStep
    <2>4. CASE CheckTimeout
      BY <2>4, CheckTimeoutStep
    <2>5. CASE SenderGone
      BY <2>5, SenderGoneStep
    <2>6. CASE Sweep
      BY <2>6, SweepStep
    <2>7. CASE Served
      <3> PICK c \in Clients :
            \/ Accept(c)
            \/ \E data \in ChunksOf[c] : Read(c, data)
            \/ c \in Quitters /\ (Hangup(c) \/ BrokenOutput(c))
        BY <2>7 DEF Served
      <3> QED  BY AcceptStep, ReadStep, HangupStep, BrokenOutputStep
    <2>8. CASE Input
      BY <2>8, InputStep
    <2>9. CASE Cleanup
      BY <2>9, CleanupStep
    <2>10. CASE IoExit
      BY <2>10, IoExitStep
    <2>11. CASE Start
      BY <2>11, StartStep
    <2>12. CASE Stop
      BY <2>12, StopStep
    <2>13. CASE Joined
      BY <2>13, JoinedStep
    <2>14. ASSUME NEW c \in Quitters, RemoveClient(c) PROVE IInv'
      BY <2>14, RemoveClientStep, BridgeAssumption
    <2>15. CASE TimePasses
      BY <2>15, TimePassesStep
    <2>16. CASE UNCHANGED vars
      BY <2>16 DEF vars, IInv, TypeOK, TakesFromClient, NotYetConnected,
                   CutTelegramDisconnects, Closing, At
    <2> QED  BY <2>1, <2>2, <2>3, <2>4, <2>5, <2>6, <2>7, <2>8, <2>9, <2>10,
                <2>11, <2>12, <2>13, <2>14, <2>15, <2>16 DEF Next
  <1> QED  BY <1>1, <1>2, PTL DEF Spec

\* Every variable keeps its type and inbound_buffer_ its capacity, for every
\* chunk a client may send.
THEOREM TypeCorrect == Spec => []TypeOK
  <1>1. IInv => TypeOK
    BY DEF IInv
  <1> QED  BY <1>1, Invariant, PTL

\* stopActiveSession, handleActiveSenderDisconnected and the timeouts of
\* client_manager.cpp leave no client connected whose telegram they cut.
THEOREM CutTelegramDisconnectsHolds == Spec => []CutTelegramDisconnects
  <1>1. IInv => CutTelegramDisconnects
    BY DEF IInv
  <1> QED  BY <1>1, Invariant, PTL
=============================================================================
