--------------------------- MODULE ReactorProofs ---------------------------
(***************************************************************************)
(* Proofs about the reactor with its poll manager and its device scanner:  *)
(* the invariants of module Reactor hold for every number of addresses,    *)
(* devices, poll items and places in the queues, and for any sequence of   *)
(* calls.                                                                  *)
(*                                                                         *)
(* The lemmas say what an operation of a queue, of the poll manager, of    *)
(* the inventory and of the scanner keeps; the last part is the invariant. *)
(***************************************************************************)
EXTENDS Reactor, FiniteSetTheorems, SequenceTheorems,
        WellFoundedInduction, TLAPS

----------------------------------------------------------------------------
(* The invariant.                                                          *)

\* A command that was taken from the scanner and not yet enqueued goes to a
\* slave.
ScanHasTarget == pc = "issue" => issued.to \in Addresses

\* The scanner passes over an address only when an error was reported for it
\* or it is identified: the failed and the quarantined ones are such.
BarredKnown == Barred(scanner) \subseteq mute \cup devices.ident

\* What became of a full scan's turn at address a.
Covered(a) == a \in probed \cup refused \cup devices.ident \cup mute

\* The addresses that the full scan has behind it are covered, but for the
\* one whose command is on its way to the scheduler.
Swept ==
  wanted => \A a \in Addresses \ OwnAddress :
    a < scanner.at => Covered(a) \/ (pc = "issue" /\ issued.to = a /\ issued.what = 0)

IInv == TypeOK /\ NoSelfPoll /\ ScanHasTarget /\ BarredKnown /\ Swept /\ FullScanCovers

----------------------------------------------------------------------------
(* Queues.                                                                 *)

\* The queues of at most n items of S.
QueueIn(S, n) == {q \in QueueOf(S, n) : Len(q.buf) <= n}

\* No operation of a queue exceeds its capacity.
LEMMA QueueKept ==
  ASSUME NEW S, NEW n \in Nat \ {0}, NEW q \in QueueIn(S, n), NEW x \in S
  PROVE  /\ TryPush(q, x) \in QueueIn(S, n)
         /\ PushNewest(q, x) \in QueueIn(S, n)
         /\ CanPop(q) => Popped(q) \in QueueIn(S, n) /\ Head(q.buf) \in S
         /\ Shutdown(q) \in QueueIn(S, n)
  <1>1. q \in [buf : Seq(S), cap : {n}, shut : BOOLEAN] /\ Len(q.buf) <= n
    BY DEF QueueIn, QueueOf
  <1>2. ASSUME NEW r \in QueueIn(S, n) PROVE TryPush(r, x) \in QueueIn(S, n)
    BY <1>2, SMTT(40) DEF QueueIn, QueueOf, TryPush, CanPush, Full
  <1>3. ASSUME CanPop(q) PROVE Popped(q) \in QueueIn(S, n) /\ Head(q.buf) \in S
    BY <1>1, <1>3, SMTT(40) DEF QueueIn, QueueOf, Popped, CanPop
  <1>4. Shutdown(q) \in QueueIn(S, n)
    BY <1>1 DEF QueueIn, QueueOf, Shutdown
  <1>5. Discard(q) \in QueueIn(S, n)
    BY <1>3 DEF Discard, CanTryPop
  <1>6. PushNewest(q, x) \in QueueIn(S, n)
    BY <1>2, <1>5 DEF PushNewest
  <1> QED  BY <1>2, <1>3, <1>4, <1>6

----------------------------------------------------------------------------
(* The poll manager.                                                       *)

\* Induction: a set of naturals that holds 0 and each successor holds all.
LEMMA EveryNat ==
  ASSUME NEW T \in SUBSET Nat, 0 \in T, \A n \in T : n + 1 \in T
  PROVE  Nat \subseteq T
  <1>0. \A z \in Nat : (z - 1) + 1 = z
    OBVIOUS
  <1>1. ASSUME NEW m \in Nat, m \notin T PROVE FALSE
    <2> DEFINE R == OpToRel(<, Nat)
    <2>1. IsWellFoundedOn(R, Nat)
      BY NatLessThanWellFounded
    <2>2. PICK x \in Nat \ T : \A y \in Nat \ T : ~(<<y, x>> \in R)
      <3> HIDE DEF R
      <3> QED  BY <1>1, <2>1, WFMin
    <2>3. x # 0 /\ x - 1 \in Nat /\ <<x - 1, x>> \in R
      BY <2>2 DEF OpToRel
    <2>4. x - 1 \in T
      BY <2>2, <2>3
    <2>5. (x - 1) + 1 \in T
      BY <2>4
    <2>6. (x - 1) + 1 = x
      BY <1>0, <2>2
    <2> QED  BY <2>2, <2>5, <2>6
  <1> QED  BY <1>1

\* A nonempty set of naturals has a least element.
LEMMA LeastExists ==
  ASSUME NEW S \in SUBSET Nat, S # {}
  PROVE  \E x \in S : \A y \in S : x <= y
  <1> DEFINE T == {n \in Nat : \A m \in 0..n : m \notin S}
  <1>1. SUFFICES ASSUME \A x \in S : \E y \in S : ~(x <= y)
                 PROVE  FALSE
    OBVIOUS
  <1>2. 0 \in T
    BY <1>1
  <1>3. ASSUME NEW n \in T PROVE n + 1 \in T
    <2>1. n \in Nat /\ \A m \in 0..n : m \notin S
      OBVIOUS
    <2>2. ASSUME n + 1 \in S PROVE FALSE
      BY <1>1, <2>1, <2>2
    <2> QED  BY <2>1, <2>2
  <1>4. Nat \subseteq T
    <2>1. T \in SUBSET Nat
      OBVIOUS
    <2> HIDE DEF T
    <2> QED  BY <1>2, <1>3, <2>1, EveryNat
  <1>5. PICK x \in S : TRUE
    OBVIOUS
  <1> QED  BY <1>4, <1>5

\* g is the function by which Others keeps the first n items of h.
IsKept(g, h, own, n) ==
  g = [i \in 0..n |-> IF i = 0 THEN <<>>
                      ELSE IF h[i].to = own THEN g[i - 1]
                      ELSE Append(g[i - 1], h[i])]

\* It is there for every length.
LEMMA KeptExists ==
  ASSUME NEW h, NEW own, NEW n \in Nat
  PROVE  \E g : IsKept(g, h, own, n)
  <1> DEFINE T == {m \in Nat : \E g : IsKept(g, h, own, m)}
  <1>1. 0 \in T
    <2> DEFINE g == [i \in 0..0 |-> <<>>]
    <2>1. IsKept(g, h, own, 0)
      BY DEF IsKept
    <2> QED  BY <2>1
  <1>2. ASSUME NEW m \in T PROVE m + 1 \in T
    <2>1. m \in Nat /\ m + 1 \in Nat /\ m + 1 \notin 0..m
      OBVIOUS
    <2>2. PICK g : IsKept(g, h, own, m)
      OBVIOUS
    <2> DEFINE v(f, i) == IF i = 0 THEN <<>>
                          ELSE IF h[i].to = own THEN f[i - 1]
                          ELSE Append(f[i - 1], h[i])
               k == [i \in 0..(m + 1) |-> IF i = m + 1 THEN v(g, i) ELSE g[i]]
    <2>3. \A i \in 0..m : g[i] = v(g, i)
      <3>1. g = [i \in 0..m |-> v(g, i)]
        BY <2>2 DEF IsKept
      <3> HIDE DEF v
      <3> QED  BY <3>1
    <2>4. ASSUME NEW i \in 0..(m + 1) PROVE k[i] = v(k, i)
      <3>1. CASE i = 0
        BY <2>1, <2>3, <3>1
      <3>2. CASE i # 0
        <4>1. i - 1 \in 0..m /\ i - 1 # m + 1
          BY <2>1, <3>2
        <4>2. k[i - 1] = g[i - 1]
          BY <4>1
        <4>3. v(k, i) = v(g, i)
          <5> HIDE DEF k
          <5> QED  BY <4>2
        <4>4. k[i] = v(g, i)
          BY <2>1, <2>3
        <4> HIDE DEF k, v
        <4> QED  BY <4>3, <4>4
      <3> QED  BY <3>1, <3>2
    <2>5. k = [i \in 0..(m + 1) |-> k[i]]
      OBVIOUS
    <2>6. k = [i \in 0..(m + 1) |-> v(k, i)]
      <3> HIDE DEF k, v
      <3> QED  BY <2>4, <2>5
    <2>7. IsKept(k, h, own, m + 1)
      <3> HIDE DEF k
      <3> QED  BY <2>6 DEF IsKept
    <2> QED  BY <2>1, <2>7
  <1>3. Nat \subseteq T
    <2>1. T \in SUBSET Nat
      OBVIOUS
    <2> HIDE DEF T
    <2> QED  BY <1>1, <1>2, <2>1, EveryNat
  <1> QED  BY <1>3

\* Others keeps items of h that poll another slave, and no more than h has.
LEMMA OthersKept ==
  ASSUME NEW R, NEW h \in Seq(R), NEW own
  PROVE  /\ Others(h, own) \in Seq({x \in R : x.to # own})
         /\ Len(Others(h, own)) <= Len(h)
  <1> DEFINE Q == {x \in R : x.to # own}
             n == Len(h)
             g == CHOOSE f : IsKept(f, h, own, n)
             v(i) == IF i = 0 THEN <<>>
                     ELSE IF h[i].to = own THEN g[i - 1]
                     ELSE Append(g[i - 1], h[i])
             T == {i \in Nat : i <= n => g[i] \in Seq(Q) /\ Len(g[i]) <= i}
  <1>1. n \in Nat /\ \A i \in 1..n : h[i] \in R
    OBVIOUS
  <1>2. IsKept(g, h, own, n)
    BY <1>1, KeptExists
  <1>3. Others(h, own) = g[n]
    BY DEF Others, IsKept
  <1>4. \A i \in 0..n : g[i] = v(i)
    <2>1. g = [i \in 0..n |-> v(i)]
      <3> HIDE DEF g
      <3> QED  BY <1>2 DEF IsKept
    <2> HIDE DEF v, g
    <2> QED  BY <2>1
  <1> HIDE DEF g, n
  <1>5. 0 \in T
    <2>1. g[0] = <<>>
      BY <1>1, <1>4
    <2>2. <<>> \in Seq(Q) /\ Len(<<>>) = 0
      <3> HIDE DEF Q
      <3> QED  OBVIOUS
    <2> HIDE DEF Q
    <2>3. g[0] \in Seq(Q) /\ Len(g[0]) <= 0
      BY <2>1, <2>2
    <2> QED  BY <2>3
  <1>6. ASSUME NEW i \in T PROVE i + 1 \in T
    <2>1. i \in Nat /\ i + 1 \in Nat /\ (i + 1) - 1 = i /\ i + 1 # 0
      OBVIOUS
    <2>2. ASSUME i + 1 <= n PROVE g[i + 1] \in Seq(Q) /\ Len(g[i + 1]) <= i + 1
      <3>1. g[i] \in Seq(Q) /\ Len(g[i]) <= i
        BY <1>1, <2>1, <2>2
      <3>2. i + 1 \in 1..n /\ i + 1 \in 0..n
        BY <1>1, <2>1, <2>2
      <3>3. g[i + 1] = IF h[i + 1].to = own THEN g[i] ELSE Append(g[i], h[i + 1])
        BY <1>4, <2>1, <3>2
      <3>4. h[i + 1] \in R
        BY <1>1, <3>2
      <3> QED  BY <2>1, <3>1, <3>3, <3>4
    <2> QED  BY <2>1, <2>2
  <1>7. n \in T
    <2>1. T \in SUBSET Nat
      OBVIOUS
    <2> HIDE DEF T
    <2>2. Nat \subseteq T
      BY <1>5, <1>6, <2>1, EveryNat
    <2> QED  BY <1>1, <2>2
  <1>8. g[n] \in Seq(Q) /\ Len(g[n]) <= n
    BY <1>1, <1>7
  <1> QED  BY <1>3, <1>8 DEF n

\* The heap functions only move items about, along any path.
LEMMA RisenKept ==
  ASSUME NEW R, NEW n \in Nat, NEW h \in [1..n -> R], NEW path \in SUBSET (1..n), NEW v \in R
  PROVE  Risen(h, path, v) \in [1..n -> R]
  <1> DEFINE filled == {p \in path \ {1} : \A q \in path : p <= q => Greater(h[q \div 2], v)}
             w(i) == IF i \in filled THEN h[i \div 2]
                     ELSE IF i \in path /\ path \cap {2 * i, 2 * i + 1} \subseteq filled THEN v
                     ELSE h[i]
  <1>1. Risen(h, path, v) = [i \in 1..n |-> w(i)]
    BY DEF Risen
  <1>2. ASSUME NEW i \in 1..n PROVE w(i) \in R
    <2>1. i \in filled => i \div 2 \in 1..n
      <3>1. i \in filled => i # 1
        OBVIOUS
      <3> HIDE DEF filled
      <3> QED  BY <3>1
    <2> HIDE DEF filled
    <2> QED  BY <2>1
  <1> HIDE DEF w
  <1> QED  BY <1>1, <1>2

\* std::push_heap keeps the items and their number.
LEMMA PushHeapKept ==
  ASSUME NEW R, NEW h \in Seq(R), h # <<>>
  PROVE  push_heap(h) \in Seq(R) /\ Len(push_heap(h)) = Len(h)
  <1> DEFINE n == Len(h)
  <1>1. n \in Nat /\ h \in [1..n -> R] /\ h[n] \in R
    OBVIOUS
  <1>2. Path(n) \in SUBSET (1..n)
    BY DEF Path
  <1>3. push_heap(h) = Risen(h, Path(n), h[n])
    BY DEF push_heap
  <1> HIDE DEF n
  <1>4. push_heap(h) \in [1..n -> R]
    <2> DEFINE path == Path(n)
               x == h[n]
    <2>1. path \in SUBSET (1..n) /\ x \in R
      BY <1>1, <1>2
    <2> HIDE DEF path, x
    <2>2. Risen(h, path, x) \in [1..n -> R]
      BY ONLY <1>1, <2>1, RisenKept
    <2> QED  BY <1>3, <2>2 DEF path, x
  <1>5. push_heap(h) \in Seq(R) /\ Len(push_heap(h)) = n
    BY <1>1, <1>4
  <1> QED  BY <1>5 DEF n

\* std::pop_heap leaves all items but one.
LEMMA RestKept ==
  ASSUME NEW R, NEW h \in Seq(R), h # <<>>
  PROVE  Rest(h) \in Seq(R) /\ Len(Rest(h)) = Len(h) - 1
  <1> DEFINE m == Len(h) - 1
             path == Holes(h, m)
             sunk == Sunk(h, m, path)
  <1>1. m \in Nat /\ m + 1 \in 1..Len(h) /\ \A i \in 1..(m + 1) : h[i] \in R
    OBVIOUS
  <1>2. path \in SUBSET (1..m)
    BY DEF Holes
  <1>3. CASE m = 0
    BY <1>1, <1>3 DEF Rest
  <1>4. CASE m # 0
    <2>1. Rest(h) = Risen(sunk, path, h[m + 1])
      <3> DEFINE F(x) == Risen(Sunk(h, m, x), x, h[m + 1])
      <3>1. Rest(h) = CHOOSE y \in {F(x) : x \in {path}} : TRUE
        BY <1>4 DEF Rest, With
      <3>2. {F(x) : x \in {path}} = {F(path)}
        <4> HIDE DEF F
        <4> QED  OBVIOUS
      <3>3. Rest(h) = F(path)
        <4> HIDE DEF F, path
        <4> QED  BY <3>1, <3>2
      <3> QED  BY <3>3
    <2>2. sunk \in [1..m -> R]
      <3>1. sunk = [i \in 1..m |-> IF 2 * i \in path THEN h[2 * i]
                                   ELSE IF 2 * i + 1 \in path THEN h[2 * i + 1]
                                   ELSE h[i]]
        BY DEF Sunk
      <3> HIDE DEF sunk, path, m
      <3> QED  BY <1>1, <1>2, <3>1
    <2>3. h[m + 1] \in R
      BY <1>1
    <2> HIDE DEF sunk, path, m
    <2>4. Rest(h) \in [1..m -> R]
      <3> DEFINE x == h[m + 1]
      <3>1. x \in R
        BY <2>3
      <3> HIDE DEF x
      <3>2. Risen(sunk, path, x) \in [1..m -> R]
        BY ONLY <1>1, <1>2, <2>2, <3>1, RisenKept
      <3> QED  BY <2>1, <3>2 DEF x
    <2>5. Rest(h) \in Seq(R) /\ Len(Rest(h)) = m
      BY <1>1, <2>4
    <2> QED  BY <2>5 DEF m
  <1> QED  BY <1>3, <1>4

\* What every item satisfies, and a poll manager of such items.
PollItems(own) == {x \in Item : x.due <= x.every /\ x.to # own}
PollsOK(p) ==
  p \in PollManagers /\ p.items \in Seq(PollItems(p.own)) /\ Len(p.items) <= MaxPolls

\* The items may be any that satisfy it.
LEMMA PollsOKItems ==
  ASSUME NEW p, PollsOK(p), NEW h, h \in Seq(PollItems(p.own)), Len(h) <= MaxPolls
  PROVE  PollsOK([p EXCEPT !.items = h])
  <1>1. h \in Seq(Item)
    BY DEF PollItems
  <1> QED  BY <1>1 DEF PollsOK, PollManagers

\* setOwnAddress drops the items that poll the new address.
LEMMA SetOwnAddressOK ==
  ASSUME NEW p, PollsOK(p), NEW own \in OwnAddress
  PROVE  PollsOK(SetOwnAddress(p, own))
  <1> DEFINE R == {x \in Item : x.due <= x.every}
             h == Others(p.items, own)
  <1>1. p \in PollManagers /\ p.items \in Seq(PollItems(p.own)) /\ Len(p.items) <= MaxPolls
    BY DEF PollsOK
  <1>2. p.items \in Seq(R)
    BY <1>1 DEF PollItems
  <1>3. h \in Seq({x \in R : x.to # own}) /\ Len(h) <= Len(p.items)
    <2> HIDE DEF R
    <2> QED  BY <1>2, OthersKept
  <1>4. {x \in R : x.to # own} = PollItems(own)
    BY DEF PollItems
  <1>5. h \in Seq(PollItems(own)) /\ Len(h) <= MaxPolls
    <2>1. Len(p.items) \in Nat /\ Len(h) \in Nat /\ MaxPolls \in Nat
      <3> HIDE DEF R, h
      <3> QED  BY <1>1, <1>3, PollAssumption
    <2> HIDE DEF R, h
    <2> QED  BY <1>1, <1>3, <1>4, <2>1
  <1>6. SetOwnAddress(p, own) = [p EXCEPT !.own = own, !.items = h]
    BY DEF SetOwnAddress
  <1> HIDE DEF R, h
  <1>7. h \in Seq(Item)
    BY <1>5 DEF PollItems
  <1> QED  BY <1>1, <1>5, <1>6, <1>7 DEF PollsOK, PollManagers

\* addPollItem takes an item for another slave, while there is room.
LEMMA AddPollItemOK ==
  ASSUME NEW p, PollsOK(p), NEW to \in Addresses, NEW interval \in Nat, CanAdd(p, to)
  PROVE  PollsOK(AddPollItem(p, to, interval))
  <1> DEFINE item == [id |-> FreshId(p), to |-> to, due |-> 0,
                      every |-> IF interval = 0 THEN 1 ELSE interval]
             R == PollItems(p.own)
             h == Append(p.items, item)
             k == push_heap(h)
             next == Successor(FreshId(p))
  <1>1. p \in PollManagers /\ p.items \in Seq(R) /\ Len(p.items) < MaxPolls /\ p.own # to
    BY DEF PollsOK, CanAdd
  <1>2. FreshId(p) \in 0..MaxId /\ next \in 0..MaxId
    BY <1>1, PollAssumption DEF FreshId, Successor, PollManagers
  <1>3. item \in R
    BY <1>1, <1>2 DEF PollItems, Item
  <1>4. AddPollItem(p, to, interval) = [p EXCEPT !.items = k, !.next = next]
    BY DEF AddPollItem
  <1> HIDE DEF item, R
  <1>5. h \in Seq(R) /\ h # <<>> /\ Len(h) <= MaxPolls
    BY <1>1, <1>3, PollAssumption
  <1> HIDE DEF h, next
  <1>6. k \in Seq(R) /\ Len(k) <= MaxPolls
    BY <1>5, PushHeapKept
  <1> HIDE DEF k
  <1>7. k \in Seq(Item)
    BY <1>6 DEF R, PollItems
  <1> QED  BY <1>1, <1>2, <1>4, <1>6, <1>7 DEF R, PollsOK, PollManagers

\* removePollItem takes one item out, or none.
LEMMA RemovePollItemOK ==
  ASSUME NEW p, PollsOK(p), NEW id
  PROVE  PollsOK(RemovePollItem(p, id))
  <1> DEFINE at == {i \in DOMAIN p.items : p.items[i].id = id}
             i == CHOOSE i \in at : \A j \in at : i <= j
             R == PollItems(p.own)
  <1>1. p.items \in Seq(R) /\ Len(p.items) <= MaxPolls
    BY DEF PollsOK
  <1>2. CASE at = {}
    BY <1>2 DEF RemovePollItem
  <1>3. CASE at # {}
    <2>1. RemovePollItem(p, id) = [p EXCEPT !.items = Without(@, i)]
      BY <1>3 DEF RemovePollItem
    <2> DEFINE h == Without(p.items, i)
    <2>2. i \in 1..Len(p.items)
      <3>1. at \in SUBSET (1..Len(p.items))
        BY <1>1
      <3>2. \E x \in at : \A j \in at : x <= j
        <4> HIDE DEF at
        <4>1. PICK n \in Nat : n = Len(p.items)
          BY <1>1
        <4> QED  BY <1>3, <3>1, <4>1, LeastExists
      <3>3. i \in at
        BY <3>2
      <3> QED  BY <3>1, <3>3
    <2> HIDE DEF i, R
    <2>3. h \in Seq(R) /\ Len(h) = Len(p.items) - 1
      <3> DEFINE f == p.items
                 a == SubSeq(f, 1, i - 1)
                 b == SubSeq(f, i + 1, Len(f))
      <3>1. f \in Seq(R) /\ i \in 1..Len(f) /\ Len(f) \in Nat
        BY <1>1, <2>2
      <3>2. h = a \o b
        BY DEF Without
      <3> HIDE DEF f, h
      <3>3. a \in Seq(R) /\ Len(a) = i - 1
        BY ONLY <3>1
      <3>4. b \in Seq(R) /\ Len(b) = Len(f) - i
        BY ONLY <3>1
      <3> HIDE DEF a, b
      <3>5. h \in Seq(R) /\ Len(h) = Len(f) - 1
        <4>1. h \in Seq(R) /\ Len(h) = Len(a) + Len(b)
          BY ONLY <3>2, <3>3, <3>4, ConcatProperties
        <4> QED  BY ONLY <3>1, <3>3, <3>4, <4>1
      <3> QED  BY <3>5 DEF f
    <2> HIDE DEF h
    <2>4. Len(h) <= MaxPolls
      BY <1>1, <2>3, PollAssumption
    <2>5. PollsOK([p EXCEPT !.items = h])
      BY <2>3, <2>4, PollsOKItems DEF R
    <2> QED  BY <2>1, <2>5 DEF h
  <1> QED  BY <1>2, <1>3

\* An item that fires is put back, due after its interval.
LEMMA FiredOK ==
  ASSUME NEW p, PollsOK(p), FrontDue(p)
  PROVE  PollsOK(Fired(p))
  <1> DEFINE R == PollItems(p.own)
             again == [p.items[1] EXCEPT !.due = p.items[1].every]
             rest == Rest(p.items)
             h == Append(rest, again)
             k == push_heap(h)
  <1>1. p.items \in Seq(R) /\ Len(p.items) <= MaxPolls /\ p.items # <<>>
    BY DEF PollsOK, FrontDue
  <1>2. again \in R
    <2>1. p.items[1] \in R
      BY <1>1
    <2> QED  BY <2>1 DEF PollItems, Item
  <1>3. Fired(p) = [p EXCEPT !.items = k]
    <2> DEFINE F(x) == [p EXCEPT !.items = push_heap(x)]
    <2>1. Fired(p) = CHOOSE y \in {F(x) : x \in {h}} : TRUE
      BY DEF Fired, With
    <2>2. {F(x) : x \in {h}} = {F(h)}
      <3> HIDE DEF F
      <3> QED  OBVIOUS
    <2>3. Fired(p) = F(h)
      <3> HIDE DEF F, h
      <3> QED  BY <2>1, <2>2
    <2> QED  BY <2>3
  <1> HIDE DEF R, again
  <1>4. rest \in Seq(R) /\ Len(rest) = Len(p.items) - 1
    BY <1>1, RestKept
  <1> HIDE DEF rest
  <1>5. h \in Seq(R) /\ h # <<>> /\ Len(h) <= MaxPolls
    BY <1>1, <1>2, <1>4, PollAssumption
  <1> HIDE DEF h
  <1>6. k \in Seq(R) /\ Len(k) <= MaxPolls
    BY <1>5, PushHeapKept
  <1> HIDE DEF k
  <1>7. PollsOK([p EXCEPT !.items = k])
    BY <1>6, PollsOKItems DEF R
  <1> QED  BY <1>3, <1>7

\* The node's address stays.
LEMMA FiredOwn ==
  ASSUME NEW p \in PollManagers
  PROVE  Fired(p).own = p.own
  <1> DEFINE h == Append(Rest(p.items), [p.items[1] EXCEPT !.due = p.items[1].every])
             F(x) == [p EXCEPT !.items = push_heap(x)]
  <1>1. Fired(p) = CHOOSE y \in {F(x) : x \in {h}} : TRUE
    BY DEF Fired, With
  <1>2. {F(x) : x \in {h}} = {F(h)}
    <2> HIDE DEF F, h
    <2> QED  OBVIOUS
  <1>3. Fired(p) = F(h)
    <2> HIDE DEF F, h
    <2> QED  BY <1>1, <1>2
  <1> QED  BY <1>3 DEF PollManagers

\* Time makes no item due later.
LEMMA AgedOK ==
  ASSUME NEW p, PollsOK(p)
  PROVE  PollsOK(Aged(p))
  <1> DEFINE R == PollItems(p.own)
             h == [i \in DOMAIN p.items |-> Sooner(p.items[i])]
  <1>1. p.items \in Seq(R) /\ Len(p.items) <= MaxPolls
    BY DEF PollsOK
  <1>2. \A i \in DOMAIN p.items : Sooner(p.items[i]) \in R
    <2>1. \A x \in R : Sooner(x) \in R
      BY DEF PollItems, Item, Sooner
    <2> HIDE DEF R
    <2> QED  BY <1>1, <2>1
  <1>3. Aged(p) = [p EXCEPT !.items = h]
    BY DEF Aged
  <1> HIDE DEF R
  <1>4. h \in Seq(R) /\ Len(h) = Len(p.items)
    <2> DEFINE n == Len(p.items)
               x(i) == Sooner(p.items[i])
    <2>1. n \in Nat /\ DOMAIN p.items = 1..n
      BY <1>1
    <2>2. h = [i \in 1..n |-> x(i)] /\ \A i \in 1..n : x(i) \in R
      BY <1>2, <2>1
    <2> HIDE DEF h, x, n
    <2>3. h \in Seq(R) /\ Len(h) = n
      BY <2>1, <2>2
    <2> QED  BY <2>3 DEF n
  <1> HIDE DEF h
  <1>5. PollsOK([p EXCEPT !.items = h])
    <2>1. Len(h) <= MaxPolls
      BY <1>1, <1>4
    <2> QED  BY <1>4, <2>1, PollsOKItems DEF R
  <1> QED  BY <1>3, <1>5

\* clear leaves no item.
LEMMA ClearItemsOK ==
  ASSUME NEW p, PollsOK(p)
  PROVE  PollsOK(ClearItems(p))
  <1> DEFINE h == <<>>
  <1>1. h \in Seq(PollItems(p.own)) /\ Len(h) <= MaxPolls
    BY PollAssumption
  <1>2. ClearItems(p) = [p EXCEPT !.items = h]
    BY DEF ClearItems
  <1> HIDE DEF h
  <1>3. PollsOK([p EXCEPT !.items = h])
    BY <1>1, PollsOKItems
  <1> QED  BY <1>2, <1>3

----------------------------------------------------------------------------
(* The inventory.                                                          *)

\* An inventory within the pool that identifies only devices of the pool.
DevicesOK(d) ==
  d \in Inventories /\ d.ident \subseteq d.known /\ Cardinality(d.known) <= MaxDevices

\* A device enters while there is room.
LEMMA EnterOK ==
  ASSUME NEW d, DevicesOK(d), NEW a \in 0..Top, NEW own
  PROVE  DevicesOK(Enter(d, a, own)) /\ Enter(d, a, own).ident = d.ident
  <1> DEFINE known == d.known \cup {a}
  <1>1. CASE a \in d.known \cup {own, NoAddress} \/ Cardinality(d.known) >= MaxDevices
    BY <1>1 DEF Enter
  <1>2. CASE ~(a \in d.known \cup {own, NoAddress} \/ Cardinality(d.known) >= MaxDevices)
    <2>1. d.known \in SUBSET Addresses /\ a \in Addresses /\ a \notin d.known
      BY <1>2, ScannerAssumption DEF DevicesOK, Inventories, NoAddress, Addresses
    <2>2. IsFiniteSet(d.known)
      <3>1. IsFiniteSet(Addresses)
        BY FS_Interval, ScannerAssumption DEF Addresses
      <3> QED  BY <2>1, <3>1, FS_Subset
    <2>3. Cardinality(d.known) \in Nat
      BY <2>2, FS_CardinalityType
    <2>4. Cardinality(known) = Cardinality(d.known) + 1
      BY <2>1, <2>2, FS_AddElement
    <2>5. Cardinality(known) <= MaxDevices
      BY <1>2, <2>3, <2>4, ScannerAssumption
    <2>6. Enter(d, a, own) = [d EXCEPT !.known = known]
      BY <1>2 DEF Enter
    <2>7. known \subseteq Addresses /\ d.known \subseteq known
      BY <2>1
    <2> HIDE DEF known
    <2> QED  BY <2>5, <2>6, <2>7 DEF DevicesOK, Inventories
  <1> QED  BY <1>1, <1>2

\* What is stored belongs to a device of the pool.
LEMMA StoreOK ==
  ASSUME NEW d, DevicesOK(d), NEW a \in 0..Top, NEW what
  PROVE  DevicesOK(Store(d, a, what)) /\ d.ident \subseteq Store(d, a, what).ident
  <1>1. CASE a \notin d.known
    BY <1>1 DEF Store
  <1>2. CASE a \in d.known /\ what = 0
    <2>1. Store(d, a, what) = [d EXCEPT !.ident = @ \cup {a}]
      BY <1>2 DEF Store
    <2> QED  BY <1>2, <2>1 DEF DevicesOK, Inventories
  <1>3. CASE a \in d.known /\ what # 0 /\ what \in 1..Parts
    <2>1. Store(d, a, what) = [d EXCEPT !.parts[a] = @ \cup {what}]
      BY <1>3 DEF Store
    <2>2. d.parts \in [Addresses -> SUBSET (1..Parts)] /\ a \in Addresses
      BY <1>3 DEF DevicesOK, Inventories
    <2>3. [d.parts EXCEPT ![a] = @ \cup {what}] \in [Addresses -> SUBSET (1..Parts)]
      BY <1>3, <2>2
    <2> QED  BY <2>1, <2>3 DEF DevicesOK, Inventories
  <1>4. CASE a \in d.known /\ what # 0 /\ what \notin 1..Parts
    BY <1>4 DEF Store
  <1> QED  BY <1>1, <1>2, <1>3, <1>4

\* DeviceManager::update forgets no identification.
LEMMA UpdateOK ==
  ASSUME NEW d, DevicesOK(d), NEW from \in Addresses, NEW to \in 0..Top, NEW what, NEW own
  PROVE  /\ DevicesOK(Update(d, from, to, what, own))
         /\ d.ident \subseteq Update(d, from, to, what, own).ident
  <1> DEFINE met  == [d EXCEPT !.seen = @ \cup ({from, to} \ {NoAddress})]
             one  == Enter(met, from, own)
             both == Enter(one, to, own)
  <1>1. {from, to} \ {NoAddress} \subseteq Addresses /\ from \in 0..Top
    BY ScannerAssumption DEF Addresses, NoAddress
  <1>2. DevicesOK(met) /\ met.ident = d.ident
    BY <1>1 DEF DevicesOK, Inventories
  <1>3. Update(d, from, to, what, own) = IF to = own THEN both ELSE Store(both, to, what)
    BY DEF Update
  <1> HIDE DEF met
  <1>4. DevicesOK(one) /\ one.ident = d.ident
    BY <1>1, <1>2, EnterOK
  <1> HIDE DEF one
  <1>5. DevicesOK(both) /\ both.ident = d.ident
    BY <1>4, EnterOK
  <1> HIDE DEF both
  <1>6. DevicesOK(Store(both, to, what)) /\ d.ident \subseteq Store(both, to, what).ident
    BY <1>5, StoreOK
  <1> QED  BY <1>3, <1>5, <1>6

----------------------------------------------------------------------------
(* The scanner.                                                            *)

\* t follows s without a step of the full scan.
Steady(s, t) ==
  /\ t \in Scanners /\ Barred(t) \subseteq Barred(s)
  /\ t.at = s.at /\ t.full = s.full /\ t.own = s.own

\* Least is the least element, where there is one.
LEMMA LeastIs ==
  ASSUME NEW S \in SUBSET Nat, S # {}
  PROVE  Least(S) \in S /\ \A b \in S : Least(S) <= b
  BY LeastExists DEF Least

\* scanAddresses lets addresses wait, and bars none.
LEMMA ScanAddressesOK ==
  ASSUME NEW s \in Scanners, NEW A \in SUBSET Addresses
  PROVE  Steady(s, ScanAddresses(s, A))
  <1> DEFINE new == A \ (s.pend \cup {s.own})
  <1>1. new \subseteq Addresses
    OBVIOUS
  <1>2. ScanAddresses(s, A)
          = [s EXCEPT !.pend = @ \cup new, !.failed = @ \ new, !.quar = @ \ new]
    BY DEF ScanAddresses
  <1> HIDE DEF new
  <1> DEFINE t == ScanAddresses(s, A)
  <1>3. t \in Scanners
    BY <1>1, <1>2, ZenonT(60) DEF Scanners
  <1>4. /\ t.failed \subseteq s.failed /\ t.quar \subseteq s.quar
        /\ t.at = s.at /\ t.full = s.full /\ t.own = s.own
    BY <1>2 DEF Scanners
  <1> QED  BY <1>3, <1>4 DEF Steady, Barred

\* Steps 1 and 2 of nextCommand bar no address.
LEMMA AmnestyOK ==
  ASSUME NEW s \in Scanners
  PROVE  Steady(s, Amnesty(s))
  <1> DEFINE zero == [a \in 0..Top |-> 0]
  <1>1. zero \in [0..Top -> 0..ScanLimit - 1]
    BY ScannerAssumption
  <1>2. Amnesty(s) = IF s.attempt = "old"
                       THEN [s EXCEPT !.failed = {}, !.quar = {}, !.cnt = zero] ELSE s
    BY DEF Amnesty, CooldownOver
  <1> HIDE DEF zero
  <1> QED  BY <1>1, <1>2, ZenonT(60) DEF Scanners, Steady, Barred

\* A pass of the startup scan bars none either.
LEMMA StartupOK ==
  ASSUME NEW s \in Scanners, NEW d \in Inventories
  PROVE  Steady(s, Startup(s, d))
  <1> DEFINE A == Observed(d, s.own)
             t == ScanAddresses(s, A)
  <1>1. A \in SUBSET Addresses
    BY DEF Observed, Inventories
  <1>2. Startup(s, d) = IF s.count >= MaxStartup THEN [s EXCEPT !.on = FALSE]
                        ELSE [t EXCEPT !.count = @ + 1, !.due = FALSE]
    BY DEF Startup
  <1>3. t.count = s.count
    BY DEF ScanAddresses, Scanners
  <1> HIDE DEF A
  <1>4. Steady(s, t)
    BY <1>1, ScanAddressesOK
  <1> HIDE DEF t
  <1>5. CASE s.count >= MaxStartup
    BY <1>2, <1>5, ZenonT(60) DEF Scanners, Steady, Barred
  <1>6. CASE ~(s.count >= MaxStartup)
    <2>1. t.count + 1 \in 0..MaxStartup
      BY <1>3, <1>6, ScannerAssumption DEF Scanners
    <2> DEFINE u == Startup(s, d)
    <2>2. u = [t EXCEPT !.count = @ + 1, !.due = FALSE]
      BY <1>2, <1>6
    <2>3. t \in Scanners
      BY <1>4 DEF Steady
    <2>4. u \in Scanners
      BY <2>1, <2>2, <2>3 DEF Scanners
    <2>5. u.failed = t.failed /\ u.quar = t.quar /\ u.at = t.at /\ u.full = t.full
            /\ u.own = t.own
      BY <2>2, <2>3 DEF Scanners
    <2> HIDE DEF u
    <2>6. Steady(s, u)
      BY <1>4, <2>4, <2>5 DEF Steady, Barred
    <2> QED  BY <2>6 DEF u
  <1> QED  BY <1>5, <1>6

\* An attempt that is counted may bar its address, and keeps the counter
\* below the limit.
LEMMA CountedOK ==
  ASSUME NEW s \in Scanners, NEW a \in 0..Top, NEW more \in SUBSET Addresses
  PROVE  /\ Counted(s, a, more) \in Scanners
         /\ Barred(Counted(s, a, more)) \subseteq Barred(s) \cup {a}
         /\ Counted(s, a, more).at = s.at /\ Counted(s, a, more).full = s.full
         /\ Counted(s, a, more).own = s.own
  <1>1. s.cnt \in [0..Top -> 0..ScanLimit - 1]
    BY DEF Scanners
  <1>2. CASE s.cnt[a] + 1 >= ScanLimit
    <2> DEFINE cnt == [s.cnt EXCEPT ![a] = 0]
    <2>1. cnt \in [0..Top -> 0..ScanLimit - 1]
      BY <1>1, ScannerAssumption
    <2> DEFINE t == Counted(s, a, more)
               quar == s.quar \cup {a}
    <2>2. t = [s EXCEPT !.cnt = cnt, !.quar = quar]
      BY <1>2 DEF Counted, Scanners
    <2>3. quar \in SUBSET (0..Top)
      BY DEF Scanners
    <2> HIDE DEF cnt, quar, t
    <2>4. t \in Scanners
      BY <2>1, <2>2, <2>3 DEF Scanners
    <2>5. t.failed = s.failed /\ t.quar = quar /\ t.at = s.at
            /\ t.full = s.full /\ t.own = s.own
      BY <2>2 DEF Scanners
    <2> QED  BY <2>4, <2>5 DEF Barred, quar, t
  <1>3. CASE ~(s.cnt[a] + 1 >= ScanLimit)
    <2> DEFINE cnt == [s.cnt EXCEPT ![a] = @ + 1]
    <2>1. cnt \in [0..Top -> 0..ScanLimit - 1]
      BY <1>1, <1>3, ScannerAssumption
    <2> DEFINE t == Counted(s, a, more)
    <2>2. t = [s EXCEPT !.cnt = cnt, !.pend = @ \cup more]
      BY <1>3 DEF Counted, Scanners
    <2> HIDE DEF cnt
    <2>3. t \in Scanners
      BY <2>1, <2>2 DEF Scanners
    <2>4. t.failed = s.failed /\ t.quar = s.quar /\ t.at = s.at
            /\ t.full = s.full /\ t.own = s.own
      BY <2>2 DEF Scanners
    <2> QED  BY <2>3, <2>4 DEF Barred
  <1> QED  BY <1>2, <1>3

\* onScanResult bars an address only for an error, or when it is identified.
LEMMA OnScanResultOK ==
  ASSUME NEW s \in Scanners, NEW d \in Inventories, NEW a \in 0..Top, NEW ok \in BOOLEAN
  PROVE  LET t == OnScanResult(s, d, a, ok)
         IN /\ t \in Scanners
            /\ Barred(t) \subseteq Barred(s) \cup d.ident \cup (IF ok THEN {} ELSE {a})
            /\ t.at = s.at /\ t.full = s.full /\ t.own = s.own
  <1> DEFINE t == OnScanResult(s, d, a, ok)
  <1>1. CASE ~ok
    <2> DEFINE f == [s EXCEPT !.failed = @ \cup {a}]
               none == {}
    <2>1. f \in Scanners /\ Barred(f) \subseteq Barred(s) \cup {a} /\ f.at = s.at
            /\ f.full = s.full /\ f.own = s.own /\ none \in SUBSET Addresses
      BY DEF Scanners, Barred
    <2>2. t = Counted(f, a, none)
      BY <1>1 DEF OnScanResult
    <2> HIDE DEF f, none
    <2>3. /\ Counted(f, a, none) \in Scanners
          /\ Barred(Counted(f, a, none)) \subseteq Barred(f) \cup {a}
          /\ Counted(f, a, none).at = f.at /\ Counted(f, a, none).full = f.full
          /\ Counted(f, a, none).own = f.own
      BY <2>1, CountedOK
    <2> QED  BY <1>1, <2>1, <2>2, <2>3
  <1>2. CASE ok /\ NeedsDeepScan(d, a)
    <2> DEFINE f == [s EXCEPT !.failed = @ \ {a}]
               more == {a}
    <2>1. f \in Scanners /\ Barred(f) \subseteq Barred(s) /\ f.at = s.at
            /\ f.full = s.full /\ f.own = s.own
      BY DEF Scanners, Barred
    <2>2. t = Counted(f, a, more)
      BY <1>2 DEF OnScanResult
    <2>3. a \in d.ident /\ more \in SUBSET Addresses
      BY <1>2 DEF NeedsDeepScan, IsIdentified, Inventories
    <2> HIDE DEF f, more
    <2>4. /\ Counted(f, a, more) \in Scanners
          /\ Barred(Counted(f, a, more)) \subseteq Barred(f) \cup {a}
          /\ Counted(f, a, more).at = f.at /\ Counted(f, a, more).full = f.full
          /\ Counted(f, a, more).own = f.own
      BY <2>1, <2>3, CountedOK
    <2> QED  BY <1>2, <2>1, <2>2, <2>3, <2>4
  <1>3. CASE ok /\ ~NeedsDeepScan(d, a)
    <2> DEFINE cnt == [s.cnt EXCEPT ![a] = 0]
    <2>1. cnt \in [0..Top -> 0..ScanLimit - 1]
      BY ScannerAssumption DEF Scanners
    <2>2. t = [s EXCEPT !.failed = @ \ {a}, !.cnt = cnt]
      BY <1>3 DEF OnScanResult, Scanners
    <2> HIDE DEF cnt, t
    <2>3. t \in Scanners
      BY <2>1, <2>2 DEF Scanners
    <2>4. t.failed \subseteq s.failed /\ t.quar = s.quar /\ t.at = s.at
            /\ t.full = s.full /\ t.own = s.own
      BY <2>2 DEF Scanners
    <2>5. Barred(t) \subseteq Barred(s)
      BY <2>4 DEF Barred
    <2> QED  BY <2>3, <2>4, <2>5 DEF t
  <1> QED  BY <1>1, <1>2, <1>3

\* What a call of nextCommand leaves, r.s the scanner and r.cmd the command:
\* nothing more is barred, a command goes to a slave, and the full scan
\* passes over an address only if it is the node's own, barred, identified,
\* or the one the command asks.
Passes(s, d, r) ==
  /\ r.s \in Scanners /\ Barred(r.s) \subseteq Barred(s) /\ r.s.own = s.own
  /\ r.cmd \in Command /\ (r.cmd # NoCommand => r.cmd.to \in Addresses)
  /\ r.s.full => s.full
  /\ \A b \in Addresses :
       s.at <= b /\ (b < r.s.at \/ (s.full /\ ~r.s.full)) =>
         \/ b = s.own \/ b \in Barred(s) \/ b \in d.ident
         \/ r.cmd # NoCommand /\ r.cmd.to = b /\ r.cmd.what = 0 /\ r.s.full

\* Without a step of the full scan it passes over none.
LEMMA SteadyPasses ==
  ASSUME NEW s \in Scanners, NEW d, NEW t, Steady(s, t), NEW cmd \in Command,
         cmd # NoCommand => cmd.to \in Addresses
  PROVE  Passes(s, d, [s |-> t, cmd |-> cmd])
  <1>1. \A b \in Addresses : ~(s.at <= b /\ b < t.at)
    BY ScannerAssumption DEF Steady, Scanners, Addresses
  <1> QED  BY <1>1 DEF Steady, Passes

\* Steady steps follow each other.
LEMMA SteadyTrans ==
  ASSUME NEW s, NEW t, NEW u, Steady(s, t), Steady(t, u)
  PROVE  Steady(s, u)
  BY DEF Steady

\* A steady step may come first.
LEMMA PassesAfter ==
  ASSUME NEW s, NEW d, NEW t, NEW r, Steady(s, t), Passes(t, d, r)
  PROVE  Passes(s, d, r)
  BY DEF Steady, Passes

\* The deep scan asks slaves only, and the full scan stands still.
LEMMA DeepOK ==
  ASSUME NEW s \in Scanners, NEW d \in Inventories
  PROVE  \E t, cmd : /\ Deep(s, d) = [s |-> t, cmd |-> cmd] /\ Steady(s, t)
                     /\ cmd \in Command /\ (cmd # NoCommand => cmd.to \in Addresses)
  <1> DEFINE goOn   == s.cur # NoAddress /\ Asks(s, d, s.cur, s.cursor) # {}
             asking == IF goOn THEN {s.cur} ELSE {a \in s.pend : Asks(s, d, a, 0) # {}}
             pend(a) == IF goOn THEN s.pend ELSE {b \in s.pend : b > a}
             now(a, what) == [s EXCEPT !.pend    = pend(a),
                                       !.cur     = IF what = 0 THEN NoAddress ELSE a,
                                       !.cursor  = what,
                                       !.attempt = "recent"]
             cursor == IF goOn THEN s.cursor ELSE 0
             idle == [s EXCEPT !.pend = {}, !.cur = NoAddress, !.cursor = 0]
             Ask(a, what) == [s |-> now(a, what), cmd |-> [to |-> a, what |-> what]]
             a0 == Least(asking)
             W(a) == Asks(s, d, a, cursor)
             w0 == Least(W(a0))
  <1>1. asking \subseteq Addresses /\ \A a \in asking : W(a) # {}
    <2>1. s.cur \in 0..Top /\ s.pend \subseteq Addresses
      BY DEF Scanners
    <2> QED  BY <2>1, ScannerAssumption DEF NoAddress, Addresses
  <1>2. \A a \in Addresses : W(a) \subseteq 0..Parts
    BY ScannerAssumption DEF Asks, Missing
  <1>3. CASE asking = {}
    <2>1. Deep(s, d) = [s |-> idle, cmd |-> NoCommand]
      BY <1>3 DEF Deep
    <2>2. NoCommand \in Command
      BY ScannerAssumption DEF NoCommand, Command, NoAddress, Nothing
    <2>3. idle \in Scanners
      <3> DEFINE none == {}
                 zero == 0
      <3>1. none \in SUBSET Addresses /\ zero \in 0..Top /\ zero \in 0..Parts
        BY ScannerAssumption
      <3>2. idle = [s EXCEPT !.pend = none, !.cur = zero, !.cursor = zero]
        BY DEF NoAddress
      <3> HIDE DEF none, zero, idle
      <3> QED  BY <3>1, <3>2 DEF Scanners
    <2>4. idle.failed = s.failed /\ idle.quar = s.quar /\ idle.at = s.at
            /\ idle.full = s.full /\ idle.own = s.own
      BY DEF Scanners
    <2> HIDE DEF idle
    <2>5. Steady(s, idle)
      BY <2>3, <2>4 DEF Steady, Barred
    <2> QED  BY <2>1, <2>2, <2>5
  <1>4. CASE asking # {}
    <2>1. a0 \in asking
      <3>1. asking \in SUBSET Nat
        BY <1>1, ScannerAssumption DEF Addresses
      <3> HIDE DEF asking
      <3> QED  BY <1>4, <3>1, LeastIs
    <2>2. a0 \in Addresses /\ W(a0) # {}
      <3> HIDE DEF asking, W, a0
      <3> QED  BY <1>1, <2>1
    <2>3. w0 \in W(a0)
      <3> DEFINE S == W(a0)
      <3>1. S \in SUBSET Nat /\ S # {}
        <4> HIDE DEF W, a0
        <4> QED  BY <1>2, <2>2, ScannerAssumption
      <3> HIDE DEF S
      <3>2. Least(S) \in S
        BY <3>1, LeastIs
      <3> QED  BY <3>2 DEF S
    <2>4. w0 \in 0..Parts
      <3> HIDE DEF W, a0, w0
      <3> QED  BY <1>2, <2>2, <2>3
    <2>5. Deep(s, d) = Ask(a0, w0)
      <3> DEFINE F(a, w) == Ask(a, w)
                 G(a) == CHOOSE y \in {F(a, w) : w \in {Least(W(a))}} : TRUE
      <3>1. Deep(s, d) = CHOOSE y \in {G(a) : a \in {a0}} : TRUE
        BY <1>4 DEF Deep, With
      <3>2. {G(a) : a \in {a0}} = {G(a0)}
        <4> HIDE DEF G, a0
        <4> QED  OBVIOUS
      <3>3. Deep(s, d) = G(a0)
        <4> HIDE DEF G, a0
        <4> QED  BY <3>1, <3>2
      <3>4. {F(a0, w) : w \in {w0}} = {F(a0, w0)}
        <4> HIDE DEF F, a0, w0
        <4> QED  OBVIOUS
      <3>5. G(a0) = F(a0, w0)
        <4>1. G(a0) = CHOOSE y \in {F(a0, w) : w \in {w0}} : TRUE
          <5> HIDE DEF F, a0, W
          <5> QED  OBVIOUS
        <4> HIDE DEF F, G, a0, w0
        <4> QED  BY <3>4, <4>1
      <3> HIDE DEF G
      <3> QED  BY <3>3, <3>5
    <2> DEFINE t == now(a0, w0)
               cmd == [to |-> a0, what |-> w0]
               p0 == pend(a0)
               c0 == IF w0 = 0 THEN NoAddress ELSE a0
    <2>6. t = [s EXCEPT !.pend = p0, !.cur = c0, !.cursor = w0, !.attempt = "recent"]
      OBVIOUS
    <2>7. p0 \in SUBSET Addresses
      BY DEF Scanners
    <2>8. Deep(s, d) = [s |-> t, cmd |-> cmd]
      BY <2>5
    <2> HIDE DEF a0, w0, t, p0
    <2>9. c0 \in 0..Top
      BY <2>2, ScannerAssumption DEF NoAddress, Addresses
    <2>10. cmd \in Command /\ cmd.to \in Addresses
      BY <2>2, <2>4, ScannerAssumption DEF Command, Addresses, Nothing
    <2> HIDE DEF c0, cmd
    <2>11. t \in Scanners
      BY <2>4, <2>6, <2>7, <2>9 DEF Scanners
    <2>12. t.failed = s.failed /\ t.quar = s.quar /\ t.at = s.at
             /\ t.full = s.full /\ t.own = s.own
      BY <2>6 DEF Scanners
    <2>13. Steady(s, t)
      BY <2>11, <2>12 DEF Steady, Barred
    <2> QED  BY <2>8, <2>10, <2>13
  <1> QED  BY <1>3, <1>4

\* The full scan passes over the addresses that are not Left, and asks the
\* first that is.
LEMMA SurfaceOK ==
  ASSUME NEW s \in Scanners, NEW d \in Inventories, s.full
  PROVE  \E t, cmd : Surface(s, d) = [s |-> t, cmd |-> cmd]
                     /\ Passes(s, d, [s |-> t, cmd |-> cmd])
  <1> DEFINE left == Left(s, d)
             a0 == Least(left)
  <1>1. left \subseteq Addresses /\ s.at \in 1..Top + 1 /\ s.own \in OwnAddress
    BY ScannerAssumption DEF Left, Scanners, Addresses
  <1>2. \A b \in Addresses : s.at <= b /\ b \notin left =>
          b = s.own \/ b \in Barred(s) \/ b \in d.ident
    BY <1>1, ScannerAssumption DEF Left, IsIdentified, Addresses
  <1>3. CASE left = {}
    <2> DEFINE n == Top + 1
               off == FALSE
               t == [s EXCEPT !.full = off, !.at = n]
    <2>1. Surface(s, d) = [s |-> t, cmd |-> NoCommand]
      BY <1>3 DEF Surface
    <2>2. n \in 1..Top + 1 /\ off \in BOOLEAN /\ ~off
      BY ScannerAssumption
    <2>3. NoCommand \in Command
      BY ScannerAssumption DEF NoCommand, Command, NoAddress, Nothing
    <2> HIDE DEF n, off
    <2>4. t \in Scanners
      BY <2>2 DEF Scanners
    <2>5. t.failed = s.failed /\ t.quar = s.quar /\ t.own = s.own /\ t.full = off
      BY DEF Scanners
    <2> HIDE DEF t, left
    <2>6. Passes(s, d, [s |-> t, cmd |-> NoCommand])
      <3>1. Barred(t) = Barred(s) /\ ~t.full
        BY <2>2, <2>5 DEF Barred
      <3> QED  BY <1>2, <1>3, <2>3, <2>4, <2>5, <3>1 DEF Passes
    <2> QED  BY <2>1, <2>6
  <1>4. CASE left # {}
    <2>1. a0 \in left /\ \A b \in left : a0 <= b
      <3>1. left \in SUBSET Nat
        BY <1>1, ScannerAssumption DEF Addresses
      <3> HIDE DEF left
      <3> QED  BY <1>4, <3>1, LeastIs
    <2> DEFINE F(a) == [s   |-> [s EXCEPT !.at = a + 1, !.attempt = "recent"],
                        cmd |-> [to |-> a, what |-> 0]]
               n == a0 + 1
               t == [s EXCEPT !.at = n, !.attempt = "recent"]
               cmd == [to |-> a0, what |-> 0]
    <2>2. Surface(s, d) = F(a0)
      <3>1. Surface(s, d) = CHOOSE y \in {F(a) : a \in {a0}} : TRUE
        BY <1>4 DEF Surface, With
      <3>2. {F(a) : a \in {a0}} = {F(a0)}
        <4> HIDE DEF F, a0
        <4> QED  OBVIOUS
      <3> HIDE DEF F, a0
      <3> QED  BY <3>1, <3>2
    <2>3. Surface(s, d) = [s |-> t, cmd |-> cmd]
      BY <2>2
    <2> HIDE DEF F
    <2>4. a0 \in Addresses /\ n \in 1..Top + 1 /\ a0 < n
      <3> HIDE DEF a0, left
      <3> QED  BY <1>1, <2>1, ScannerAssumption DEF Addresses
    <2>5. cmd \in Command /\ cmd.to \in Addresses /\ cmd.to = a0 /\ cmd.what = 0 /\ cmd # NoCommand
      <3> HIDE DEF a0
      <3>1. cmd \in Command /\ cmd.to = a0 /\ cmd.what = 0
        BY <2>4, ScannerAssumption DEF Command, Addresses, Nothing
      <3>2. NoCommand.what # 0
        BY ScannerAssumption DEF NoCommand, Nothing
      <3> HIDE DEF cmd
      <3> QED  BY <2>4, <3>1, <3>2
    <2>6. \A b \in Addresses : b < n => b <= a0
      <3> HIDE DEF a0
      <3> QED  BY <2>4, ScannerAssumption DEF Addresses
    <2>7. \A b \in left : b \in Int
      BY <1>1, ScannerAssumption DEF Addresses
    <2> HIDE DEF n, cmd, a0, left
    <2>8. t \in Scanners
      BY <2>4 DEF Scanners
    <2>9. t.failed = s.failed /\ t.quar = s.quar /\ t.own = s.own /\ t.full = s.full /\ t.at = n
      BY DEF Scanners
    <2> HIDE DEF t
    <2>10. Passes(s, d, [s |-> t, cmd |-> cmd])
      <3>1. Barred(t) = Barred(s)
        BY <2>9 DEF Barred
      <3>2. ASSUME NEW b \in Addresses, s.at <= b, b < t.at
            PROVE  b = s.own \/ b \in Barred(s) \/ b \in d.ident \/ b = a0
        <4>1. CASE b \in left
          <5>1. b <= a0 /\ a0 <= b /\ a0 \in Int /\ b \in Int
            BY <2>1, <2>6, <2>7, <2>9, <3>2, <4>1
          <5> QED  BY <5>1
        <4>2. CASE b \notin left
          BY <1>2, <3>2, <4>2
        <4> QED  BY <4>1, <4>2
      <3> QED  BY <2>5, <2>8, <2>9, <3>1, <3>2 DEF Passes
    <2> QED  BY <2>3, <2>10
  <1> QED  BY <1>3, <1>4

\* A steady step may follow, if no command was found before.
LEMMA PassesThen ==
  ASSUME NEW s, NEW d, NEW t, NEW u, NEW cmd \in Command,
         Passes(s, d, [s |-> t, cmd |-> NoCommand]), Steady(t, u),
         cmd # NoCommand => cmd.to \in Addresses
  PROVE  Passes(s, d, [s |-> u, cmd |-> cmd])
  BY DEF Steady, Passes

\* The absence of a command is one for the types.
LEMMA NoCommandType == NoCommand \in Command
  BY ScannerAssumption DEF NoCommand, Command, NoAddress, Nothing

\* Priorities 2 and 3 of nextCommand, with the deep scan a startup pass may
\* lead to.
LEMMA BackgroundOK ==
  ASSUME NEW s \in Scanners, NEW d \in Inventories
  PROVE  Passes(s, d, Background(s, d))
  <1> DEFINE quiet == [s |-> s, cmd |-> NoCommand]
             first == IF s.full THEN Surface(s, d) ELSE quiet
             H(t, u) == IF Observed(d, s.own) # {} /\ u.on THEN Deep(u, d)
                        ELSE [s |-> u, cmd |-> NoCommand]
             L(t) == CHOOSE y \in {H(t, u) : u \in {Startup(t, d)}} : TRUE
             B(r) == IF r.cmd # NoCommand \/ ~(r.s.on /\ r.s.due) THEN r ELSE L(r.s)
  <1>1. Background(s, d) = B(first)
    <2>1. Background(s, d) = CHOOSE y \in {B(r) : r \in {first}} : TRUE
      BY DEF Background, With
    <2>2. {B(r) : r \in {first}} = {B(first)}
      <3> HIDE DEF B, first
      <3> QED  OBVIOUS
    <2> HIDE DEF B, first
    <2> QED  BY <2>1, <2>2
  <1>2. Steady(s, s)
    BY DEF Steady
  <1>3. PICK t, cmd : first = [s |-> t, cmd |-> cmd] /\ Passes(s, d, [s |-> t, cmd |-> cmd])
    <2>1. CASE s.full
      BY <2>1, SurfaceOK
    <2>2. CASE ~s.full
      <3> DEFINE none == NoCommand
      <3>1. none \in Command /\ (none # NoCommand => none.to \in Addresses)
        BY NoCommandType
      <3> HIDE DEF none
      <3>2. Passes(s, d, [s |-> s, cmd |-> none])
        BY <1>2, <3>1, SteadyPasses
      <3> QED  BY <2>2, <3>2 DEF none
    <2> QED  BY <2>1, <2>2
  <1> HIDE DEF first
  <1>4. CASE cmd # NoCommand \/ ~(t.on /\ t.due)
    <2>1. B(first) = first
      <3> HIDE DEF L
      <3> QED  BY <1>3, <1>4
    <2> HIDE DEF B
    <2> QED  BY <1>1, <1>3, <2>1
  <1>5. CASE ~(cmd # NoCommand \/ ~(t.on /\ t.due))
    <2> DEFINE u0 == Startup(t, d)
    <2>1. B(first) = L(t)
      <3> HIDE DEF L
      <3> QED  BY <1>3, <1>5
    <2>2. L(t) = H(t, u0)
      <3>1. {H(t, u) : u \in {u0}} = {H(t, u0)}
        <4> HIDE DEF H, u0
        <4> QED  OBVIOUS
      <3>2. L(t) = CHOOSE y \in {H(t, u) : u \in {u0}} : TRUE
        <4> HIDE DEF H
        <4> QED  OBVIOUS
      <3> HIDE DEF H, L, u0
      <3> QED  BY <3>1, <3>2
    <2>3. t \in Scanners /\ Passes(s, d, [s |-> t, cmd |-> NoCommand])
      BY <1>3, <1>5 DEF Passes
    <2>4. Steady(t, u0)
      BY <2>3, StartupOK
    <2> HIDE DEF B, L, u0
    <2>5. u0 \in Scanners
      BY <2>4 DEF Steady
    <2>6. CASE Observed(d, s.own) # {} /\ u0.on
      <3>1. PICK v, c : /\ Deep(u0, d) = [s |-> v, cmd |-> c] /\ Steady(u0, v)
                        /\ c \in Command /\ (c # NoCommand => c.to \in Addresses)
        BY <2>5, DeepOK
      <3>2. Steady(t, v)
        BY <2>4, <3>1, SteadyTrans
      <3>3. Passes(s, d, [s |-> v, cmd |-> c])
        BY <2>3, <3>1, <3>2, PassesThen
      <3>4. H(t, u0) = Deep(u0, d)
        BY <2>6
      <3> HIDE DEF H
      <3> QED  BY <1>1, <2>1, <2>2, <3>1, <3>3, <3>4
    <2>7. CASE ~(Observed(d, s.own) # {} /\ u0.on)
      <3> DEFINE none == NoCommand
      <3>1. none \in Command /\ (none # NoCommand => none.to \in Addresses)
        BY NoCommandType
      <3> HIDE DEF none
      <3>2. Passes(s, d, [s |-> u0, cmd |-> none])
        BY <2>3, <2>4, <3>1, PassesThen
      <3>3. H(t, u0) = [s |-> u0, cmd |-> none]
        BY <2>7 DEF none
      <3> HIDE DEF H
      <3> QED  BY <1>1, <2>1, <2>2, <3>2, <3>3
    <2> QED  BY <2>6, <2>7
  <1> QED  BY <1>4, <1>5

\* nextCommand, whichever priority finds the command.
LEMMA NextCommandOK ==
  ASSUME NEW s \in Scanners, NEW d \in Inventories, NEW busy
  PROVE  Passes(s, d, NextCommand(s, d, busy))
  <1> DEFINE H(r) == IF r.cmd # NoCommand \/ busy THEN r ELSE Background(r.s, d)
             G(f) == CHOOSE y \in {H(r) : r \in {Deep(f, d)}} : TRUE
             fresh == Amnesty(s)
             deep == Deep(fresh, d)
  <1>1. NextCommand(s, d, busy) = G(fresh)
    <2>1. NextCommand(s, d, busy) = CHOOSE y \in {G(f) : f \in {fresh}} : TRUE
      BY DEF NextCommand, With
    <2>2. {G(f) : f \in {fresh}} = {G(fresh)}
      <3> HIDE DEF G, fresh
      <3> QED  OBVIOUS
    <2> HIDE DEF G, fresh
    <2> QED  BY <2>1, <2>2
  <1>2. G(fresh) = H(deep)
    <2>1. {H(r) : r \in {deep}} = {H(deep)}
      <3> HIDE DEF H, deep
      <3> QED  OBVIOUS
    <2>2. G(fresh) = CHOOSE y \in {H(r) : r \in {deep}} : TRUE
      <3> HIDE DEF H, fresh
      <3> QED  OBVIOUS
    <2> HIDE DEF H, G, deep
    <2> QED  BY <2>1, <2>2
  <1>3. Steady(s, fresh) /\ fresh \in Scanners
    <2>1. Steady(s, fresh)
      BY AmnestyOK
    <2> QED  BY <2>1 DEF Steady
  <1> HIDE DEF G, fresh
  <1>4. PICK t, cmd : /\ deep = [s |-> t, cmd |-> cmd] /\ Steady(fresh, t)
                      /\ cmd \in Command /\ (cmd # NoCommand => cmd.to \in Addresses)
    BY <1>3, DeepOK
  <1> HIDE DEF deep
  <1>5. Steady(s, t) /\ t \in Scanners
    <2>1. Steady(s, t)
      BY <1>3, <1>4, SteadyTrans
    <2> QED  BY <2>1 DEF Steady
  <1>6. CASE cmd # NoCommand \/ busy
    <2>1. Passes(s, d, [s |-> t, cmd |-> cmd])
      BY <1>4, <1>5, SteadyPasses
    <2>2. H(deep) = deep
      BY <1>4, <1>6
    <2> HIDE DEF H
    <2> QED  BY <1>1, <1>2, <1>4, <2>1, <2>2
  <1>7. CASE ~(cmd # NoCommand \/ busy)
    <2> DEFINE r == Background(t, d)
    <2>1. H(deep) = r
      BY <1>4, <1>7
    <2>2. Passes(t, d, r)
      BY <1>5, BackgroundOK
    <2> HIDE DEF H, r
    <2>3. Passes(s, d, r)
      BY <1>5, <2>2, PassesAfter
    <2> QED  BY <1>1, <1>2, <2>1, <2>3
  <1> QED  BY <1>6, <1>7

----------------------------------------------------------------------------
(* Every step keeps the invariant.                                         *)

\* The type invariant and NoSelfPoll, by the parts that the actions leave
\* unchanged together.
LoopOK ==
  /\ pc \in {"off", "boot", "loop", "events", "polls", "issue", "wait", "drain",
             "again", "exit"}
  /\ running \in BOOLEAN /\ activity \in BOOLEAN /\ issued \in Command
Signals == {"wakeup", "shutdown"}
QueuesOK == signals \in QueueIn(Signals, SignalSize) /\ events \in QueueIn(Event, ProtocolSize)
ManagedOK ==
  PollsOK(polls) /\ scanner \in Scanners /\ scanner.own = polls.own /\ DevicesOK(devices)
SchedOK == sched \in Seq(Command) /\ Len(sched) <= MaxItems
BusOK == SchedOK /\ active \in Command /\ held \in Command
CallsOK == app \in {"idle", "shutdown", "flag", "join"} /\ budget \in [Calls -> Nat]
HistoryOK ==
  /\ probed \subseteq Addresses /\ refused \subseteq Addresses
  /\ wanted \in BOOLEAN /\ mute \subseteq 0..Top

Shape == LoopOK /\ QueuesOK /\ ManagedOK /\ BusOK /\ CallsOK /\ HistoryOK
ScanInv == ScanHasTarget /\ BarredKnown /\ Swept /\ FullScanCovers

\* The poll manager's part of TypeOK and NoSelfPoll, in one.
LEMMA PollsSplit ==
  ASSUME NEW p
  PROVE  PollsOK(p) <=>
           /\ p \in PollManagers /\ Len(p.items) <= MaxPolls
           /\ \A i \in DOMAIN p.items : p.items[i].due <= p.items[i].every
           /\ \A i \in DOMAIN p.items : p.items[i].to # p.own
  <1>1. ASSUME PollsOK(p), NEW i \in DOMAIN p.items
        PROVE  p.items[i].due <= p.items[i].every /\ p.items[i].to # p.own
    <2>1. p.items[i] \in PollItems(p.own)
      BY <1>1 DEF PollsOK
    <2> QED  BY <2>1 DEF PollItems
  <1>2. ASSUME p \in PollManagers,
               \A i \in DOMAIN p.items : p.items[i].due <= p.items[i].every,
               \A i \in DOMAIN p.items : p.items[i].to # p.own
        PROVE  p.items \in Seq(PollItems(p.own))
    <2> DEFINE n == Len(p.items)
               R == PollItems(p.own)
    <2>1. n \in Nat /\ DOMAIN p.items = 1..n /\ p.items \in Seq(Item)
      BY <1>2 DEF PollManagers
    <2>2. \A i \in 1..n : p.items[i] \in R
      BY <1>2, <2>1 DEF PollItems
    <2> HIDE DEF n, R
    <2>3. p.items \in Seq(R)
      BY <2>1, <2>2
    <2> QED  BY <2>3 DEF R
  <1> QED  BY <1>1, <1>2 DEF PollsOK

\* The parts make up the type invariant and NoSelfPoll, in a state ...
LEMMA ShapeSplit == Shape <=> TypeOK /\ NoSelfPoll
  <1>1. PollsOK(polls) <=>
           /\ polls \in PollManagers /\ Len(polls.items) <= MaxPolls
           /\ \A i \in DOMAIN polls.items : polls.items[i].due <= polls.items[i].every
           /\ \A i \in DOMAIN polls.items : polls.items[i].to # polls.own
    BY PollsSplit
  <1>2. QueuesOK <=> /\ signals \in QueueOf({"wakeup", "shutdown"}, SignalSize)
                     /\ events \in QueueOf(Event, ProtocolSize)
                     /\ Len(signals.buf) <= SignalSize /\ Len(events.buf) <= ProtocolSize
    BY DEF QueuesOK, QueueIn, Signals
  <1> QED  BY <1>1, <1>2 DEF Shape, LoopOK, ManagedOK, DevicesOK, BusOK, SchedOK,
                          CallsOK, HistoryOK, TypeOK, NoSelfPoll

\* ... and in the next one.
LEMMA ShapePrime == Shape' <=> TypeOK' /\ NoSelfPoll'
  <1> DEFINE p == polls'
  <1>1. PollsOK(p) <=>
           /\ p \in PollManagers /\ Len(p.items) <= MaxPolls
           /\ \A i \in DOMAIN p.items : p.items[i].due <= p.items[i].every
           /\ \A i \in DOMAIN p.items : p.items[i].to # p.own
    <2> HIDE DEF p
    <2> QED  BY PollsSplit
  <1>2. QueuesOK' <=> /\ signals' \in QueueOf({"wakeup", "shutdown"}, SignalSize)
                      /\ events' \in QueueOf(Event, ProtocolSize)
                      /\ Len(signals'.buf) <= SignalSize /\ Len(events'.buf) <= ProtocolSize
    BY DEF QueuesOK, QueueIn, Signals
  <1> QED  BY <1>1, <1>2 DEF Shape, LoopOK, ManagedOK, DevicesOK, BusOK, SchedOK,
                          CallsOK, HistoryOK, TypeOK, NoSelfPoll

\* A Controller that was just made.
LEMMA InitInv == Init => Shape /\ ScanInv
  <1> SUFFICES ASSUME Init PROVE Shape /\ ScanInv
    OBVIOUS
  <1> USE DEF Init
  <1>1. Own[1] \in OwnAddress /\ Own[1] \in Addresses
    BY ReactorAssumption DEF OwnAddress
  <1>2. LoopOK /\ BusOK
    <2>1. LoopOK
      BY NoCommandType DEF LoopOK
    <2>2. <<>> \in Seq(Command) /\ Len(<<>>) <= MaxItems
      BY ReactorAssumption
    <2> QED  BY <2>1, <2>2, NoCommandType DEF BusOK, SchedOK
  <1>3. QueuesOK
    BY ReactorAssumption DEF QueuesOK, QueueIn, QueueOf, NewQueue
  <1>4. ManagedOK
    <2>1. PollsOK(polls)
      BY <1>1, PollAssumption DEF PollsOK, PollManagers, NewPolls
    <2>2. scanner \in Scanners /\ scanner.own = polls.own
      <3> DEFINE own == Own[1]
      <3>1. own \in OwnAddress /\ [a \in 0..Top |-> 0] \in [0..Top -> 0..ScanLimit - 1]
        BY <1>1, ScannerAssumption
      <3> HIDE DEF own
      <3>2. NewScanner(own) \in Scanners /\ NewScanner(own).own = own
        BY <3>1, ScannerAssumption DEF NewScanner, Scanners, NoAddress
      <3> QED  BY <3>2 DEF own, NewPolls
    <2>3. DevicesOK(devices)
      BY FS_EmptySet, ScannerAssumption DEF DevicesOK, Inventories, NewInventory
    <2> QED  BY <2>1, <2>2, <2>3 DEF ManagedOK
  <1>5. CallsOK /\ HistoryOK
    BY ReactorAssumption DEF CallsOK, HistoryOK
  <1>6. ScanInv
    BY DEF ScanInv, ScanHasTarget, BarredKnown, Barred, Swept, FullScanCovers, NewScanner
  <1> QED  BY <1>2, <1>3, <1>4, <1>5, <1>6 DEF Shape

\* The scan's part of the invariant, for the steps that are not the full
\* scan's: more is identified or reported, an address is barred only then,
\* and no command is taken from the scanner or lost.
LEMMA ScanKept ==
  ASSUME ScanInv, UNCHANGED <<probed, refused, wanted>>,
         mute \subseteq mute', devices.ident \subseteq devices'.ident,
         Barred(scanner') \subseteq Barred(scanner) \cup mute' \cup devices'.ident,
         scanner'.at = scanner.at, scanner'.full = scanner.full,
         (pc = "issue") = (pc' = "issue"), pc = "issue" => issued' = issued
  PROVE  ScanInv'
  <1>1. ScanHasTarget'
    BY DEF ScanInv, ScanHasTarget
  <1>2. BarredKnown'
    BY DEF ScanInv, BarredKnown
  <1>3. Swept'
    BY DEF ScanInv, Swept, Covered
  <1>4. FullScanCovers'
    BY DEF ScanInv, FullScanCovers
  <1> QED  BY <1>1, <1>2, <1>3, <1>4 DEF ScanInv

\* In particular for the steps that leave the managers and the history alone.
LEMMA ScanAside ==
  ASSUME ScanInv, UNCHANGED <<scanner, devices, history>>,
         (pc = "issue") = (pc' = "issue"), pc = "issue" => issued' = issued
  PROVE  ScanInv'
  BY DEF ScanInv, ScanHasTarget, BarredKnown, Swept, Covered, FullScanCovers, history

\* Enqueuing keeps within the scheduler's capacity.
LEMMA EnqueuedOK ==
  ASSUME SchedOK, NEW cmd \in Command
  PROVE  Enqueued(sched, cmd) \in Seq(Command) /\ Len(Enqueued(sched, cmd)) <= MaxItems
  BY ReactorAssumption DEF SchedOK, Enqueued

\* An event that is posted has its type.
LEMMA PostOK ==
  ASSUME QueuesOK, NEW ok \in BOOLEAN, NEW from \in Addresses, NEW to \in 0..Top,
         NEW what \in 0..Nothing, Post(ok, from, to, what)
  PROVE  QueuesOK'
  <1> DEFINE e == [ok |-> ok, session |-> active # NoCommand, from |-> from, to |-> to,
                   what |-> what]
             w == "wakeup"
  <1>1. e \in Event /\ w \in Signals
    BY DEF Event, Signals
  <1>2. events' = PushNewest(events, e) /\ signals' = TryPush(signals, w)
    BY DEF Post
  <1> HIDE DEF e, w
  <1>3. PushNewest(events, e) \in QueueIn(Event, ProtocolSize)
    BY <1>1, QueueKept, ReactorAssumption DEF QueuesOK
  <1>4. TryPush(signals, w) \in QueueIn(Signals, SignalSize)
    BY <1>1, QueueKept, ReactorAssumption DEF QueuesOK
  <1> QED  BY <1>2, <1>3, <1>4 DEF QueuesOK

\* A call of the application takes from its budget and may wake the reactor.
LEMMA CallOK ==
  ASSUME QueuesOK, CallsOK, NEW b \in Calls, NEW wake, Call(b, wake)
  PROVE  QueuesOK' /\ CallsOK' /\ devices' = devices
  <1> DEFINE w == "wakeup"
  <1>1. w \in Signals
    BY DEF Signals
  <1>2. /\ signals' = signals \/ signals' = PushNewest(signals, w)
        /\ budget' = [budget EXCEPT ![b] = @ - 1] /\ budget[b] > 0
        /\ events' = events /\ app' = app /\ devices' = devices
    BY DEF Call
  <1> HIDE DEF w
  <1>3. PushNewest(signals, w) \in QueueIn(Signals, SignalSize)
    BY <1>1, QueueKept, ReactorAssumption DEF QueuesOK
  <1>4. QueuesOK'
    BY <1>2, <1>3 DEF QueuesOK
  <1>5. CallsOK'
    BY <1>2 DEF CallsOK
  <1> QED  BY <1>2, <1>4, <1>5

\* A signal that is taken out.
LEMMA SignalPopped ==
  ASSUME QueuesOK, CanPop(signals), signals' = Popped(signals), events' = events
  PROVE  QueuesOK'
  <1> DEFINE w == "wakeup"
  <1>1. w \in Signals
    BY DEF Signals
  <1> HIDE DEF w
  <1>2. Popped(signals) \in QueueIn(Signals, SignalSize)
    BY <1>1, QueueKept, ReactorAssumption DEF QueuesOK
  <1> QED  BY <1>2 DEF QueuesOK

\* The steps of the loop between the operations.
LEMMA LoopSteps ==
  ASSUME Shape, ScanInv, Enter_run \/ Leave_run \/ PopSignal \/ PopNothing \/ DrainSignal
  PROVE  Shape' /\ ScanInv'
  <1>1. /\ UNCHANGED <<managed, bus, app, budget, history, events, issued>>
        /\ pc # "issue" /\ pc' # "issue"
    BY DEF Enter_run, Leave_run, PopSignal, PopNothing, DrainSignal, AtLoop, Goto
  <1>2. LoopOK'
    BY DEF Shape, LoopOK, Enter_run, Leave_run, PopSignal, PopNothing, DrainSignal, Goto, Handled
  <1>3. QueuesOK'
    <2>1. CASE signals' = signals
      BY <1>1, <2>1 DEF Shape, QueuesOK
    <2>2. CASE CanPop(signals) /\ signals' = Popped(signals)
      BY <1>1, <2>2, SignalPopped DEF Shape
    <2> QED  BY <2>1, <2>2 DEF Enter_run, Leave_run, PopSignal, PopNothing, DrainSignal, CanTryPop
  <1>4. ManagedOK' /\ BusOK' /\ CallsOK' /\ HistoryOK'
    BY <1>1 DEF Shape, ManagedOK, BusOK, SchedOK, CallsOK, HistoryOK, managed, bus, history
  <1>5. ScanInv'
    BY <1>1, ScanAside DEF managed
  <1> QED  BY <1>2, <1>3, <1>4, <1>5 DEF Shape

\* The scheduler's tick takes the first message.
LEMMA TickInv ==
  ASSUME Shape, ScanInv, Tick
  PROVE  Shape' /\ ScanInv'
  <1>1. /\ UNCHANGED <<running, issued, signals, events, managed, app, budget, history>>
        /\ pc # "issue" /\ pc' = "events" /\ activity' \in BOOLEAN
    BY DEF Tick, AtLoop, Goto
  <1>2. LoopOK'
    BY <1>1 DEF Shape, LoopOK
  <1>3. BusOK'
    <2>1. SchedOK /\ active \in Command /\ held \in Command
      BY DEF Shape, BusOK
    <2>2. CASE active = NoCommand /\ held = NoCommand /\ sched # <<>>
      <3>1. active' = Head(sched) /\ held' = Head(sched) /\ sched' = Tail(sched)
        BY <2>2 DEF Tick
      <3>2. Head(sched) \in Command /\ Tail(sched) \in Seq(Command) /\ Len(Tail(sched)) <= MaxItems
        BY <2>1, <2>2, ReactorAssumption DEF SchedOK
      <3> QED  BY <3>1, <3>2 DEF BusOK, SchedOK
    <2>3. CASE ~(active = NoCommand /\ held = NoCommand /\ sched # <<>>)
      <3>1. active' \in {NoCommand, active} /\ held' = held /\ sched' = sched
        BY <2>3 DEF Tick
      <3> QED  BY <2>1, <3>1, NoCommandType DEF BusOK, SchedOK
    <2> QED  BY <2>2, <2>3
  <1>4. QueuesOK' /\ ManagedOK' /\ CallsOK' /\ HistoryOK'
    BY <1>1 DEF Shape, QueuesOK, ManagedOK, CallsOK, HistoryOK, managed, history
  <1>5. ScanInv'
    BY <1>1, ScanAside DEF managed
  <1> QED  BY <1>2, <1>3, <1>4, <1>5 DEF Shape

\* The event that is processed: what is reported becomes mute or identified
\* in the same step that may bar it.
LEMMA ProcessPublicEventInv ==
  ASSUME Shape, ScanInv, ProcessPublicEvent
  PROVE  Shape' /\ ScanInv'
  <1> DEFINE e      == Head(events.buf)
             known  == IF e.ok THEN Update(devices, e.from, e.to, e.what, polls.own)
                       ELSE devices
             result == e.session /\ ~(e.ok /\ e.to = NoAddress)
             t      == OnScanResult(scanner, known, e.to, e.ok)
  <1>1. /\ UNCHANGED <<running, activity, issued, signals, polls, held, app, budget,
                       probed, refused, wanted>>
        /\ pc # "issue" /\ pc' \in {"events", "again"} /\ CanPop(events)
        /\ events' = Popped(events)
        /\ active' = IF e.session THEN NoCommand ELSE active
        /\ devices' = known
        /\ scanner' = IF result THEN t ELSE scanner
        /\ sched' = sched \/ sched' = Enqueued(sched, SignOfLife)
        /\ mute' = IF result /\ ~e.ok THEN mute \cup {e.to} ELSE mute
    BY DEF ProcessPublicEvent, Goto, CanTryPop
  <1>2. e \in Event /\ Popped(events) \in QueueIn(Event, ProtocolSize)
    <2>1. e \in Event
      BY <1>1 DEF Shape, QueuesOK, QueueIn, QueueOf, CanPop
    <2> HIDE DEF e
    <2>2. Popped(events) \in QueueIn(Event, ProtocolSize)
      BY <1>1, <2>1, QueueKept, ReactorAssumption DEF Shape, QueuesOK
    <2> QED  BY <2>1, <2>2
  <1>3. e.ok \in BOOLEAN /\ e.session \in BOOLEAN /\ e.from \in Addresses /\ e.to \in 0..Top
    BY <1>2 DEF Event
  <1> HIDE DEF e
  <1>4. DevicesOK(known) /\ devices.ident \subseteq known.ident
    <2>1. DevicesOK(devices)
      BY DEF Shape, ManagedOK
    <2>2. CASE e.ok
      <3> DEFINE from == e.from
                 to == e.to
                 what == e.what
                 own == polls.own
      <3>1. from \in Addresses /\ to \in 0..Top
        BY <1>3
      <3> HIDE DEF from, to, what, own
      <3>2. /\ DevicesOK(Update(devices, from, to, what, own))
            /\ devices.ident \subseteq Update(devices, from, to, what, own).ident
        BY <2>1, <3>1, UpdateOK
      <3> QED  BY <2>2, <3>2 DEF from, to, what, own
    <2>3. CASE ~e.ok
      BY <2>1, <2>3
    <2> QED  BY <2>2, <2>3
  <1> HIDE DEF known
  <1>5. /\ t \in Scanners
        /\ Barred(t) \subseteq Barred(scanner) \cup known.ident
                                 \cup (IF e.ok THEN {} ELSE {e.to})
        /\ t.at = scanner.at /\ t.full = scanner.full /\ t.own = scanner.own
    <2> DEFINE a == e.to
               ok == e.ok
    <2>1. scanner \in Scanners /\ known \in Inventories /\ a \in 0..Top /\ ok \in BOOLEAN
      BY <1>3, <1>4 DEF Shape, ManagedOK, DevicesOK
    <2> HIDE DEF a, ok
    <2>2. LET u == OnScanResult(scanner, known, a, ok)
          IN /\ u \in Scanners
             /\ Barred(u) \subseteq Barred(scanner) \cup known.ident \cup (IF ok THEN {} ELSE {a})
             /\ u.at = scanner.at /\ u.full = scanner.full /\ u.own = scanner.own
      BY <2>1, OnScanResultOK
    <2> QED  BY <2>2 DEF a, ok
  <1> HIDE DEF t
  <1>6. LoopOK'
    BY <1>1 DEF Shape, LoopOK
  <1>7. QueuesOK'
    BY <1>1, <1>2 DEF Shape, QueuesOK
  <1>8. ManagedOK'
    BY <1>1, <1>4, <1>5 DEF Shape, ManagedOK
  <1>9. BusOK'
    <2> DEFINE cmd == SignOfLife
    <2>1. cmd \in Command
      BY ScannerAssumption DEF SignOfLife, Command, NoAddress, Other, Nothing
    <2>2. sched' = sched \/ sched' = Enqueued(sched, cmd)
      BY <1>1
    <2> HIDE DEF cmd
    <2>3. Enqueued(sched, cmd) \in Seq(Command) /\ Len(Enqueued(sched, cmd)) <= MaxItems
      BY <2>1, EnqueuedOK DEF Shape, BusOK
    <2> QED  BY <1>1, <2>2, <2>3, NoCommandType DEF Shape, BusOK, SchedOK
  <1>10. CallsOK' /\ HistoryOK'
    BY <1>1, <1>3 DEF Shape, CallsOK, HistoryOK
  <1>11. ScanInv'
    <2>1. mute \subseteq mute' /\ devices.ident \subseteq devices'.ident
      BY <1>1, <1>4
    <2>2. Barred(scanner') \subseteq Barred(scanner) \cup mute' \cup devices'.ident
      BY <1>1, <1>3, <1>5
    <2>3. scanner'.at = scanner.at /\ scanner'.full = scanner.full
      BY <1>1, <1>5
    <2>4. UNCHANGED <<probed, refused, wanted>> /\ (pc = "issue") = (pc' = "issue")
      BY <1>1
    <2> QED  BY <1>1, <2>1, <2>2, <2>3, <2>4, ScanKept
  <1> QED  BY <1>6, <1>7, <1>8, <1>9, <1>10, <1>11 DEF Shape

\* A poll that fires is enqueued.
LEMMA ProcessDueItemInv ==
  ASSUME Shape, ScanInv, ProcessDueItem
  PROVE  Shape' /\ ScanInv'
  <1> DEFINE cmd == [to |-> polls.items[1].to, what |-> Other]
  <1>1. /\ UNCHANGED <<running, issued, signals, events, scanner, devices, active, held,
                       app, budget, history>>
        /\ FrontDue(polls) /\ pc # "issue" /\ pc' = "polls" /\ activity' = TRUE
        /\ sched' = Enqueued(sched, cmd) /\ polls' = Fired(polls)
    BY DEF ProcessDueItem, AtPolls, PollsDue, Goto
  <1>2. LoopOK'
    BY <1>1 DEF Shape, LoopOK
  <1>3. cmd \in Command
    <2>1. polls.items[1] \in Item
      BY <1>1 DEF Shape, ManagedOK, PollsOK, PollManagers, FrontDue
    <2> QED  BY <2>1, ScannerAssumption DEF Item, Addresses, Command, Other, Nothing
  <1> HIDE DEF cmd
  <1>4. BusOK'
    <2>1. Enqueued(sched, cmd) \in Seq(Command) /\ Len(Enqueued(sched, cmd)) <= MaxItems
      BY <1>3, EnqueuedOK DEF Shape, BusOK
    <2> QED  BY <1>1, <2>1 DEF Shape, BusOK, SchedOK
  <1>5. ManagedOK'
    <2>1. PollsOK(Fired(polls))
      BY <1>1, FiredOK DEF Shape, ManagedOK
    <2>2. Fired(polls).own = polls.own
      <3> DEFINE p == polls
      <3>1. p \in PollManagers
        BY DEF Shape, ManagedOK, PollsOK
      <3> HIDE DEF p
      <3> QED  BY <3>1, FiredOwn DEF p
    <2> QED  BY <1>1, <2>1, <2>2 DEF Shape, ManagedOK
  <1>6. QueuesOK' /\ CallsOK' /\ HistoryOK'
    BY <1>1 DEF Shape, QueuesOK, CallsOK, HistoryOK, history
  <1>7. ScanInv'
    BY <1>1, ScanAside
  <1> QED  BY <1>2, <1>4, <1>5, <1>6, <1>7 DEF Shape

\* The step of the full scan: what it passes over is covered, but for the
\* address of the command that is now on its way.
LEMMA NextScanInv ==
  ASSUME Shape, ScanInv, NEW session \in BOOLEAN, NextScan(session)
  PROVE  Shape' /\ ScanInv'
  <1> DEFINE r == [s |-> scanner', cmd |-> issued']
  <1>1. /\ UNCHANGED <<running, activity, signals, events, polls, devices, bus, app, budget,
                       history>>
        /\ pc # "issue" /\ pc' = IF issued' = NoCommand THEN "wait" ELSE "issue"
    BY DEF NextScan, AtPolls, Goto
  <1>2. scanner \in Scanners /\ devices \in Inventories
    BY DEF Shape, ManagedOK, DevicesOK
  <1>3. Passes(scanner, devices, r)
    <2>1. CASE Len(sched) < Threshold
      <3> DEFINE busy == session \/ held # NoCommand
                 n == NextCommand(scanner, devices, busy)
      <3>1. scanner' = n.s /\ issued' = n.cmd
        BY <2>1 DEF NextScan
      <3> HIDE DEF busy
      <3>2. Passes(scanner, devices, n)
        BY <1>2, NextCommandOK
      <3> HIDE DEF n
      <3> QED  BY <3>1, <3>2 DEF Passes
    <2>2. CASE ~(Len(sched) < Threshold)
      <3> DEFINE none == NoCommand
      <3>1. scanner' = scanner /\ issued' = none
        BY <2>2 DEF NextScan
      <3>2. none \in Command /\ (none # NoCommand => none.to \in Addresses)
        BY NoCommandType
      <3>3. Steady(scanner, scanner)
        BY <1>2 DEF Steady
      <3> HIDE DEF none
      <3>4. Passes(scanner, devices, [s |-> scanner, cmd |-> none])
        BY <1>2, <3>2, <3>3, SteadyPasses
      <3> QED  BY <3>1, <3>4
    <2> QED  BY <2>1, <2>2
  <1>4. /\ scanner' \in Scanners /\ Barred(scanner') \subseteq Barred(scanner)
        /\ scanner'.own = scanner.own /\ issued' \in Command
        /\ issued' # NoCommand => issued'.to \in Addresses
        /\ scanner'.full => scanner.full
        /\ \A b \in Addresses :
             scanner.at <= b /\ (b < scanner'.at \/ (scanner.full /\ ~scanner'.full)) =>
               \/ b = scanner.own \/ b \in Barred(scanner) \/ b \in devices.ident
               \/ issued' # NoCommand /\ issued'.to = b /\ issued'.what = 0 /\ scanner'.full
    BY <1>3 DEF Passes
  <1>5. LoopOK'
    BY <1>1, <1>4 DEF Shape, LoopOK
  <1>6. ManagedOK'
    BY <1>1, <1>4 DEF Shape, ManagedOK
  <1>7. QueuesOK' /\ BusOK' /\ CallsOK' /\ HistoryOK'
    BY <1>1 DEF Shape, QueuesOK, BusOK, SchedOK, CallsOK, HistoryOK, bus, history
  <1>8. ScanInv'
    <2>1. ScanHasTarget'
      BY <1>1, <1>4 DEF ScanHasTarget
    <2>2. BarredKnown'
      BY <1>1, <1>4 DEF ScanInv, BarredKnown, history
    <2>3. scanner.own \in OwnAddress /\ scanner.at \in Int /\ scanner'.at \in Int
      BY <1>2, <1>4 DEF Scanners
    <2>4. ASSUME NEW b \in Addresses \ OwnAddress, wanted, b < scanner.at PROVE Covered(b)
      BY <1>1, <2>4 DEF ScanInv, Swept
    <2>5. \A b \in Addresses : b \in Barred(scanner) \/ b \in devices.ident => Covered(b)
      BY DEF ScanInv, BarredKnown, Covered
    <2>6. \A b \in Addresses : Covered(b) => Covered(b)'
      BY <1>1 DEF Covered, history
    <2>7. Addresses \subseteq Int
      BY DEF Addresses
    <2>8. Swept'
      <3> SUFFICES ASSUME wanted', NEW a \in Addresses \ OwnAddress, a < scanner'.at
                   PROVE  Covered(a)' \/ (pc' = "issue" /\ issued'.to = a /\ issued'.what = 0)
        BY DEF Swept
      <3>1. wanted
        BY <1>1 DEF history
      <3>2. CASE a < scanner.at
        BY <2>4, <2>6, <3>1, <3>2
      <3>3. CASE scanner.at <= a
        BY <1>1, <1>4, <2>3, <2>5, <2>6, <3>3
      <3> QED  BY <2>3, <2>7, <3>2, <3>3
    <2>9. FullScanCovers'
      <3> SUFFICES ASSUME wanted', ~scanner'.full, NEW a \in Addresses \ OwnAddress
                   PROVE  Covered(a)'
        BY DEF FullScanCovers, Covered
      <3>1. wanted
        BY <1>1 DEF history
      <3>2. CASE ~scanner.full
        BY <2>6, <3>1, <3>2 DEF ScanInv, FullScanCovers, Covered
      <3>3. CASE scanner.full /\ a < scanner.at
        BY <2>4, <2>6, <3>1, <3>3
      <3>4. CASE scanner.full /\ scanner.at <= a
        BY <1>4, <2>3, <2>5, <2>6, <3>4
      <3> QED  BY <2>3, <2>7, <3>2, <3>3, <3>4
    <2> QED  BY <2>1, <2>2, <2>8, <2>9 DEF ScanInv
  <1> QED  BY <1>5, <1>6, <1>7, <1>8 DEF Shape

\* The command is enqueued or refused: its address is covered either way.
LEMMA IssueScanInv ==
  ASSUME Shape, ScanInv, IssueScan
  PROVE  Shape' /\ ScanInv'
  <1> DEFINE asked == IF issued.what = 0 /\ wanted THEN {issued.to} ELSE {}
  <1>1. /\ UNCHANGED <<running, signals, events, managed, active, held, app, budget, wanted, mute>>
        /\ pc = "issue" /\ pc' = "wait" /\ issued' = NoCommand
        /\ activity' = (activity \/ ~SchedulerFull) /\ sched' = Enqueued(sched, issued)
        /\ IF SchedulerFull THEN refused' = refused \cup asked /\ probed' = probed
           ELSE probed' = probed \cup asked /\ refused' = refused
    BY DEF IssueScan, Goto
  <1>2. LoopOK'
    <2>1. activity' \in BOOLEAN
      BY <1>1
    <2> QED  BY <1>1, <2>1, NoCommandType DEF Shape, LoopOK
  <1>3. BusOK'
    <2>1. Enqueued(sched, issued) \in Seq(Command) /\ Len(Enqueued(sched, issued)) <= MaxItems
      BY EnqueuedOK DEF Shape, BusOK, LoopOK
    <2> QED  BY <1>1, <2>1 DEF Shape, BusOK, SchedOK
  <1>4. QueuesOK' /\ ManagedOK' /\ CallsOK'
    BY <1>1 DEF Shape, QueuesOK, ManagedOK, CallsOK, managed
  <1>5. asked \subseteq Addresses
    BY <1>1 DEF ScanInv, ScanHasTarget
  <1>6. probed' \cup refused' = probed \cup refused \cup asked
    <2> HIDE DEF asked
    <2> QED  BY <1>1
  <1>7. HistoryOK'
    <2> HIDE DEF asked
    <2> QED  BY <1>1, <1>5 DEF Shape, HistoryOK
  <1>8. ScanInv'
    <2>1. \A a \in Addresses : Covered(a) => Covered(a)'
      BY <1>1, <1>6 DEF Covered, managed
    <2>2. \A a \in Addresses : wanted /\ issued.what = 0 /\ issued.to = a => Covered(a)'
      BY <1>1, <1>6 DEF Covered
    <2>3. BarredKnown'
      BY <1>1 DEF ScanInv, BarredKnown, managed
    <2>4. Swept'
      <3> SUFFICES ASSUME wanted', NEW a \in Addresses \ OwnAddress, a < scanner'.at
                   PROVE  Covered(a)' \/ (pc' = "issue" /\ issued'.to = a /\ issued'.what = 0)
        BY DEF Swept
      <3>1. wanted /\ a < scanner.at
        BY <1>1 DEF managed
      <3>2. Covered(a) \/ (issued.to = a /\ issued.what = 0)
        BY <3>1 DEF ScanInv, Swept
      <3> QED  BY <2>1, <2>2, <3>1, <3>2
    <2>5. FullScanCovers'
      <3> SUFFICES ASSUME wanted', ~scanner'.full, NEW a \in Addresses \ OwnAddress
                   PROVE  Covered(a)'
        BY DEF FullScanCovers, Covered
      <3>1. wanted /\ ~scanner.full
        BY <1>1 DEF managed
      <3>2. Covered(a)
        BY <3>1 DEF ScanInv, FullScanCovers, Covered
      <3> QED  BY <2>1, <3>2
    <2>6. ScanHasTarget'
      BY <1>1 DEF ScanHasTarget
    <2> QED  BY <2>3, <2>4, <2>5, <2>6 DEF ScanInv
  <1> QED  BY <1>2, <1>3, <1>4, <1>7, <1>8 DEF Shape

\* Time passes.
LEMMA SleepInv ==
  ASSUME Shape, ScanInv, NEW due \in BOOLEAN, NEW old \in BOOLEAN, Sleep(due, old)
  PROVE  Shape' /\ ScanInv'
  <1> DEFINE isDue == scanner.due \/ due
             at == IF old THEN "old" ELSE scanner.attempt
  <1>1. /\ UNCHANGED <<running, activity, issued, signals, events, devices, bus, app, budget,
                       history>>
        /\ pc # "issue" /\ pc' = "loop" /\ polls' = Aged(polls)
        /\ scanner' = [scanner EXCEPT !.due = isDue, !.attempt = at]
    BY DEF Sleep, Goto
  <1>2. scanner \in Scanners
    BY DEF Shape, ManagedOK
  <1>3. isDue \in BOOLEAN /\ at \in {"never", "recent", "old"}
    BY <1>2 DEF Scanners
  <1> HIDE DEF isDue, at
  <1>4. scanner' \in Scanners
    BY <1>1, <1>2, <1>3 DEF Scanners
  <1>5. scanner'.failed = scanner.failed /\ scanner'.quar = scanner.quar
          /\ scanner'.at = scanner.at /\ scanner'.full = scanner.full /\ scanner'.own = scanner.own
    BY <1>1, <1>2 DEF Scanners
  <1>6. LoopOK'
    BY <1>1 DEF Shape, LoopOK
  <1>7. ManagedOK'
    <2>1. PollsOK(Aged(polls))
      BY AgedOK DEF Shape, ManagedOK
    <2>2. Aged(polls).own = polls.own
      BY DEF Aged, Shape, ManagedOK, PollsOK, PollManagers
    <2> QED  BY <1>1, <1>4, <1>5, <2>1, <2>2 DEF Shape, ManagedOK
  <1>8. QueuesOK' /\ BusOK' /\ CallsOK' /\ HistoryOK'
    BY <1>1 DEF Shape, QueuesOK, BusOK, SchedOK, CallsOK, HistoryOK, bus, history
  <1>9. ScanInv'
    <2>1. Barred(scanner') \subseteq Barred(scanner) \cup mute' \cup devices'.ident
      BY <1>5 DEF Barred
    <2>2. mute \subseteq mute' /\ devices.ident \subseteq devices'.ident
            /\ UNCHANGED <<probed, refused, wanted>> /\ (pc = "issue") = (pc' = "issue")
      BY <1>1 DEF history
    <2> QED  BY <1>1, <1>5, <2>1, <2>2, ScanKept
  <1> QED  BY <1>6, <1>7, <1>8, <1>9 DEF Shape

\* The bus thread only posts events.
LEMMA BusStepInv ==
  ASSUME Shape, ScanInv, BusStep
  PROVE  Shape' /\ ScanInv'
  <1>1. polls.own \in Addresses
    BY ReactorAssumption DEF Shape, ManagedOK, PollsOK, PollManagers, OwnAddress
  <1>2. CASE \E ok \in BOOLEAN, junk \in 0..Top : Finish(ok, junk)
    <2>1. PICK ok \in BOOLEAN, junk \in 0..Top : Finish(ok, junk)
      BY <1>2
    <2>2. /\ UNCHANGED <<loop, managed, sched, active, app, budget, history>>
          /\ held' = NoCommand /\ Post(ok, polls.own, junk, held.what)
      BY <2>1 DEF Finish
    <2>3. QueuesOK'
      <3> DEFINE what == held.what
                 from == polls.own
      <3>1. what \in 0..Nothing /\ from \in Addresses
        BY <1>1 DEF Shape, BusOK, Command
      <3>2. Post(ok, from, junk, what)
        BY <2>2
      <3> HIDE DEF what, from
      <3> QED  BY <3>1, <3>2, PostOK DEF Shape
    <2>4. LoopOK' /\ ManagedOK' /\ CallsOK' /\ HistoryOK'
      BY <2>2 DEF Shape, LoopOK, ManagedOK, CallsOK, HistoryOK, loop, managed, history
    <2>5. BusOK'
      BY <2>2, NoCommandType DEF Shape, BusOK, SchedOK
    <2>6. ScanInv'
      BY <2>2, ScanAside DEF loop, managed
    <2> QED  BY <2>3, <2>4, <2>5, <2>6 DEF Shape
  <1>3. CASE \E from \in Addresses, to \in 0..Top, what \in {0, Other, Existence} :
               ForeignTelegram(from, to, what)
    <2>1. PICK from \in Addresses, to \in 0..Top, what \in {0, Other, Existence} :
            ForeignTelegram(from, to, what)
      BY <1>3
    <2> DEFINE ok == TRUE
    <2>2. /\ UNCHANGED <<loop, managed, bus, app, history>>
          /\ budget.foreign > 0 /\ budget' = [budget EXCEPT !.foreign = @ - 1]
          /\ Post(ok, from, to, what) /\ ok \in BOOLEAN
      BY <2>1 DEF ForeignTelegram
    <2> HIDE DEF ok
    <2>3. what \in 0..Nothing
      BY ScannerAssumption DEF Other, Existence, Nothing
    <2>4. QueuesOK'
      BY <2>2, <2>3, PostOK DEF Shape
    <2>5. CallsOK'
      BY <2>2 DEF Shape, CallsOK, Calls
    <2>6. LoopOK' /\ ManagedOK' /\ BusOK' /\ HistoryOK'
      BY <2>2 DEF Shape, LoopOK, ManagedOK, BusOK, SchedOK, HistoryOK, loop, managed, bus, history
    <2>7. ScanInv'
      BY <2>2, ScanAside DEF loop, managed
    <2> QED  BY <2>4, <2>5, <2>6, <2>7 DEF Shape
  <1> QED  BY <1>2, <1>3 DEF BusStep

\* The calls on the poll manager.
LEMMA PollCallsInv ==
  ASSUME Shape, ScanInv,
         \/ \E to \in PollTo, interval \in Intervals : AddPoll(to, interval)
         \/ \E id \in 1..MaxId : RemovePoll(id)
         \/ ClearPolls
  PROVE  Shape' /\ ScanInv'
  <1>1. PollsOK(polls) /\ polls \in PollManagers
    BY DEF Shape, ManagedOK, PollsOK
  <1>2. /\ UNCHANGED <<loop, scanner, bus, history>>
        /\ \E b \in Calls, wake \in BOOLEAN : Call(b, wake)
    BY DEF AddPoll, RemovePoll, ClearPolls, Calls
  <1>3. QueuesOK' /\ CallsOK' /\ devices' = devices
    BY <1>2, CallOK DEF Shape
  <1>4. PollsOK(polls') /\ polls'.own = polls.own
    <2>1. ASSUME NEW to \in PollTo, NEW interval \in Intervals, AddPoll(to, interval)
          PROVE  PollsOK(polls') /\ polls'.own = polls.own
      <3>1. to \in Addresses /\ interval \in Nat
        BY ReactorAssumption
      <3>2. PollsOK(AddPollItem(polls, to, interval))
        BY <1>1, <2>1, <3>1, AddPollItemOK DEF AddPoll
      <3>3. AddPollItem(polls, to, interval).own = polls.own
        BY <1>1 DEF AddPollItem, PollManagers
      <3> QED  BY <2>1, <3>2, <3>3 DEF AddPoll
    <2>2. ASSUME NEW id \in 1..MaxId, RemovePoll(id)
          PROVE  PollsOK(polls') /\ polls'.own = polls.own
      <3>1. PollsOK(RemovePollItem(polls, id))
        BY <1>1, RemovePollItemOK
      <3>2. RemovePollItem(polls, id).own = polls.own
        BY <1>1 DEF RemovePollItem, PollManagers
      <3> QED  BY <2>2, <3>1, <3>2 DEF RemovePoll
    <2>3. ASSUME ClearPolls
          PROVE  PollsOK(polls') /\ polls'.own = polls.own
      <3>1. PollsOK(ClearItems(polls))
        BY <1>1, ClearItemsOK
      <3>2. ClearItems(polls).own = polls.own
        BY <1>1 DEF ClearItems, PollManagers
      <3> QED  BY <2>3, <3>1, <3>2 DEF ClearPolls
    <2> QED  BY <2>1, <2>2, <2>3
  <1>5. LoopOK' /\ BusOK' /\ HistoryOK'
    BY <1>2 DEF Shape, LoopOK, BusOK, SchedOK, HistoryOK, loop, bus, history
  <1>6. ManagedOK'
    BY <1>2, <1>3, <1>4 DEF Shape, ManagedOK
  <1>7. ScanInv'
    BY <1>2, <1>3, ScanAside DEF loop
  <1> QED  BY <1>3, <1>5, <1>6, <1>7 DEF Shape

\* setAddress changes the scanner and the poll manager together.
LEMMA SetAddressInv ==
  ASSUME Shape, ScanInv, NEW n \in 1..2, SetAddress(Own[n])
  PROVE  Shape' /\ ScanInv'
  <1> DEFINE own == Own[n]
  <1>1. own \in OwnAddress
    BY DEF OwnAddress
  <1>2. /\ UNCHANGED <<loop, sched, active, history>> /\ held' = NoCommand
        /\ scanner' = ScannerOwn(scanner, own) /\ polls' = SetOwnAddress(polls, own)
        /\ \E b \in Calls, wake \in BOOLEAN : Call(b, wake)
    BY DEF SetAddress, Calls
  <1> HIDE DEF own
  <1>3. QueuesOK' /\ CallsOK' /\ devices' = devices
    BY <1>2, CallOK DEF Shape
  <1>4. PollsOK(polls') /\ polls'.own = own
    <2>1. PollsOK(SetOwnAddress(polls, own))
      BY <1>1, SetOwnAddressOK DEF Shape, ManagedOK
    <2>2. SetOwnAddress(polls, own).own = own
      BY DEF SetOwnAddress, Shape, ManagedOK, PollsOK, PollManagers
    <2> QED  BY <1>2, <2>1, <2>2
  <1>5. scanner \in Scanners
    BY DEF Shape, ManagedOK
  <1>6. scanner' \in Scanners
    BY <1>1, <1>2, <1>5 DEF Scanners, ScannerOwn
  <1>7. scanner'.failed = scanner.failed /\ scanner'.quar = scanner.quar
          /\ scanner'.at = scanner.at /\ scanner'.full = scanner.full /\ scanner'.own = own
    BY <1>2, <1>5 DEF Scanners, ScannerOwn
  <1>8. LoopOK' /\ BusOK' /\ HistoryOK'
    BY <1>2, NoCommandType DEF Shape, LoopOK, BusOK, SchedOK, HistoryOK, loop, history
  <1>9. ManagedOK'
    BY <1>3, <1>4, <1>6, <1>7 DEF Shape, ManagedOK
  <1>10. ScanInv'
    <2>1. Barred(scanner') \subseteq Barred(scanner) \cup mute' \cup devices'.ident
      BY <1>7 DEF Barred
    <2>2. mute \subseteq mute' /\ devices.ident \subseteq devices'.ident /\ issued' = issued
            /\ UNCHANGED <<probed, refused, wanted>> /\ (pc = "issue") = (pc' = "issue")
      BY <1>2, <1>3 DEF history, loop
    <2> QED  BY <1>7, <2>1, <2>2, ScanKept
  <1> QED  BY <1>3, <1>8, <1>9, <1>10 DEF Shape

\* The calls that let addresses wait for their deep scan, or a startup scan.
LEMMA ScanCallsInv ==
  ASSUME Shape, ScanInv,
         \/ \E A \in SUBSET Addresses \ {{}} : Scan(A)
         \/ ScanObserved
         \/ StartupScan
  PROVE  Shape' /\ ScanInv'
  <1>1. scanner \in Scanners /\ devices \in Inventories
    BY DEF Shape, ManagedOK, DevicesOK
  <1>2. /\ UNCHANGED <<loop, polls, bus, history>>
        /\ \E b \in Calls, wake \in BOOLEAN : Call(b, wake)
    BY DEF Scan, ScanObserved, StartupScan, Calls
  <1>3. QueuesOK' /\ CallsOK' /\ devices' = devices
    BY <1>2, CallOK DEF Shape
  <1>4. Steady(scanner, scanner')
    <2>1. ASSUME NEW A \in SUBSET Addresses, Scan(A) PROVE Steady(scanner, scanner')
      <3>1. Steady(scanner, ScanAddresses(scanner, A))
        BY <1>1, ScanAddressesOK
      <3> QED  BY <2>1, <3>1 DEF Scan
    <2>2. ASSUME ScanObserved PROVE Steady(scanner, scanner')
      <3> DEFINE A == Observed(devices, scanner.own)
      <3>1. A \in SUBSET Addresses
        BY <1>1 DEF Observed, Inventories
      <3>2. scanner' = ScanAddresses(scanner, A)
        BY <2>2 DEF ScanObserved
      <3> HIDE DEF A
      <3>3. Steady(scanner, ScanAddresses(scanner, A))
        BY <1>1, <3>1, ScanAddressesOK
      <3> QED  BY <3>2, <3>3
    <2>3. ASSUME StartupScan PROVE Steady(scanner, scanner')
      <3> DEFINE yes == TRUE
                 no == FALSE
                 zero == 0
      <3>1. scanner' = [scanner EXCEPT !.on = yes, !.count = zero, !.due = no]
        BY <2>3 DEF StartupScan, ScanOnStartup
      <3>2. yes \in BOOLEAN /\ no \in BOOLEAN /\ zero \in 0..MaxStartup
        BY ScannerAssumption
      <3> HIDE DEF yes, no, zero
      <3>3. scanner' \in Scanners
        BY <1>1, <3>1, <3>2 DEF Scanners
      <3>4. scanner'.failed = scanner.failed /\ scanner'.quar = scanner.quar
              /\ scanner'.at = scanner.at /\ scanner'.full = scanner.full
              /\ scanner'.own = scanner.own
        BY <1>1, <3>1 DEF Scanners
      <3> QED  BY <3>3, <3>4 DEF Steady, Barred
    <2> QED  BY <2>1, <2>2, <2>3
  <1>5. LoopOK' /\ BusOK' /\ HistoryOK'
    BY <1>2 DEF Shape, LoopOK, BusOK, SchedOK, HistoryOK, loop, bus, history
  <1>6. ManagedOK'
    BY <1>2, <1>3, <1>4 DEF Shape, ManagedOK, Steady
  <1>7. ScanInv'
    <2>1. Barred(scanner') \subseteq Barred(scanner) \cup mute' \cup devices'.ident
            /\ scanner'.at = scanner.at /\ scanner'.full = scanner.full
      BY <1>4 DEF Steady
    <2>2. mute \subseteq mute' /\ devices.ident \subseteq devices'.ident /\ issued' = issued
            /\ UNCHANGED <<probed, refused, wanted>> /\ (pc = "issue") = (pc' = "issue")
      BY <1>2, <1>3 DEF history, loop
    <2> QED  BY <2>1, <2>2, ScanKept
  <1> QED  BY <1>3, <1>5, <1>6, <1>7 DEF Shape

\* A full scan begins at the first address, or is given up.
LEMMA FullScanInv ==
  ASSUME Shape, ScanInv, NEW enable \in BOOLEAN, FullScan(enable)
  PROVE  Shape' /\ ScanInv'
  <1> DEFINE at == IF enable THEN 1 ELSE scanner.at
  <1>1. /\ UNCHANGED <<loop, polls, bus, mute>>
        /\ scanner' = [scanner EXCEPT !.full = enable, !.at = at]
        /\ wanted' = enable /\ probed' = {} /\ refused' = {}
        /\ \E b \in Calls, wake \in BOOLEAN : Call(b, wake)
    BY DEF FullScan, InitFullScan, Calls
  <1>2. QueuesOK' /\ CallsOK' /\ devices' = devices
    BY <1>1, CallOK DEF Shape
  <1>3. scanner \in Scanners
    BY DEF Shape, ManagedOK
  <1>4. at \in 1..Top + 1 /\ (enable => at = 1)
    BY <1>3, ScannerAssumption DEF Scanners
  <1> HIDE DEF at
  <1>5. scanner' \in Scanners
    BY <1>1, <1>3, <1>4 DEF Scanners
  <1>6. scanner'.failed = scanner.failed /\ scanner'.quar = scanner.quar
          /\ scanner'.at = at /\ scanner'.full = enable /\ scanner'.own = scanner.own
    BY <1>1, <1>3 DEF Scanners
  <1>7. LoopOK' /\ BusOK'
    BY <1>1 DEF Shape, LoopOK, BusOK, SchedOK, loop, bus
  <1>8. HistoryOK'
    BY <1>1 DEF Shape, HistoryOK
  <1>9. ManagedOK'
    BY <1>1, <1>2, <1>5, <1>6 DEF Shape, ManagedOK
  <1>10. ScanInv'
    <2>1. ScanHasTarget'
      BY <1>1 DEF ScanInv, ScanHasTarget, loop
    <2>2. BarredKnown'
      BY <1>1, <1>2, <1>6 DEF ScanInv, BarredKnown, Barred
    <2>3. Swept'
      <3>1. \A a \in Addresses : ~(a < 1)
        BY DEF Addresses
      <3> QED  BY <1>1, <1>4, <1>6, <3>1 DEF Swept
    <2>4. FullScanCovers'
      BY <1>1, <1>6 DEF FullScanCovers
    <2> QED  BY <2>1, <2>2, <2>3, <2>4 DEF ScanInv
  <1> QED  BY <1>2, <1>7, <1>8, <1>9, <1>10 DEF Shape

\* The calls that add to the scheduler, and start.
LEMMA EnqueueCallsInv ==
  ASSUME Shape, ScanInv,
         (\E to \in Addresses, what \in {Other, Malformed} : Enqueue(to, what)) \/ Start
  PROVE  Shape' /\ ScanInv'
  <1>1. /\ UNCHANGED <<running, activity, issued, polls, scanner, active, held, history>>
        /\ \E b \in Calls, wake \in BOOLEAN : Call(b, wake)
        /\ pc' = pc \/ (pc = "off" /\ pc' = "boot")
    BY DEF Enqueue, Start, Goto, loop, Calls
  <1>2. QueuesOK' /\ CallsOK' /\ devices' = devices
    BY <1>1, CallOK DEF Shape
  <1>3. sched' = sched \/ \E cmd \in Command : sched' = Enqueued(sched, cmd)
    <2>1. InquiryOfExistence \in Command
      BY ScannerAssumption DEF InquiryOfExistence, Command, NoAddress, Existence, Nothing
    <2>2. \A to \in Addresses, what \in {Other, Malformed} : [to |-> to, what |-> what] \in Command
      BY ScannerAssumption DEF Command, Addresses, Other, Malformed, Nothing
    <2> QED  BY <2>1, <2>2 DEF Enqueue, Start
  <1>4. BusOK'
    BY <1>1, <1>3, EnqueuedOK DEF Shape, BusOK, SchedOK
  <1>5. LoopOK' /\ HistoryOK'
    BY <1>1 DEF Shape, LoopOK, HistoryOK, history
  <1>6. ManagedOK'
    BY <1>1, <1>2 DEF Shape, ManagedOK
  <1>7. ScanInv'
    BY <1>1, <1>2, ScanAside
  <1> QED  BY <1>2, <1>4, <1>5, <1>6, <1>7 DEF Shape

\* The steps of stop.
LEMMA StopInv ==
  ASSUME Shape, ScanInv, StopSignal \/ StopStep
  PROVE  Shape' /\ ScanInv'
  <1>1. /\ UNCHANGED <<activity, issued, events, managed, held, history>>
        /\ pc' = pc \/ (pc = "exit" /\ pc' = "off")
        /\ running' \in {running, FALSE}
        /\ app' \in {"idle", "shutdown", "flag", "join"}
        /\ \/ UNCHANGED <<sched, active>>
           \/ sched' = <<>> /\ active' = NoCommand
        /\ budget' = budget \/ (budget.stop > 0 /\ budget' = [budget EXCEPT !.stop = @ - 1])
        /\ \/ signals' = signals \/ signals' = PushNewest(signals, "shutdown")
           \/ signals' = Shutdown(signals)
    BY DEF StopSignal, StopStep, StopShutdown, StopFlag, StopJoin, Goto, loop, bus
  <1>2. LoopOK' /\ HistoryOK' /\ ManagedOK'
    BY <1>1 DEF Shape, LoopOK, HistoryOK, ManagedOK, managed, history
  <1>3. QueuesOK'
    <2> DEFINE w == "shutdown"
    <2>1. w \in Signals
      BY DEF Signals
    <2>2. signals' = signals \/ signals' = PushNewest(signals, w) \/ signals' = Shutdown(signals)
      BY <1>1
    <2> HIDE DEF w
    <2>3. PushNewest(signals, w) \in QueueIn(Signals, SignalSize)
            /\ Shutdown(signals) \in QueueIn(Signals, SignalSize)
      BY <2>1, QueueKept, ReactorAssumption DEF Shape, QueuesOK
    <2> QED  BY <1>1, <2>2, <2>3 DEF Shape, QueuesOK
  <1>4. BusOK'
    <2>1. <<>> \in Seq(Command) /\ Len(<<>>) <= MaxItems
      BY ReactorAssumption
    <2> QED  BY <1>1, <2>1, NoCommandType DEF Shape, BusOK, SchedOK
  <1>5. CallsOK'
    BY <1>1 DEF Shape, CallsOK, Calls
  <1>6. ScanInv'
    BY <1>1, ScanAside DEF managed
  <1> QED  BY <1>2, <1>3, <1>4, <1>5, <1>6 DEF Shape

\* One step of anybody.
LEMMA NextInv ==
  ASSUME Shape, ScanInv, [Next]_vars
  PROVE  Shape' /\ ScanInv'
  <1>1. CASE ReactorStep
    BY <1>1, LoopSteps, TickInv, ProcessPublicEventInv, ProcessDueItemInv, NextScanInv,
       IssueScanInv, SleepInv DEF ReactorStep
  <1>2. CASE BusStep
    BY <1>2, BusStepInv
  <1>3. CASE AppStep
    <2>1. CASE \E n \in 1..2 : SetAddress(Own[n])
      BY <2>1, SetAddressInv
    <2>2. CASE \E enable \in BOOLEAN : FullScan(enable)
      BY <2>2, FullScanInv
    <2>3. CASE StopSignal \/ StopStep
      BY <2>3, StopInv
    <2> QED  BY <1>3, <2>1, <2>2, <2>3, PollCallsInv, ScanCallsInv, EnqueueCallsInv DEF AppStep
  <1>4. CASE UNCHANGED vars
    <2>1. Shape'
      BY <1>4 DEF vars, Shape, LoopOK, QueuesOK, ManagedOK, BusOK, SchedOK, CallsOK, HistoryOK
    <2>2. ScanInv'
      BY <1>4, ScanAside DEF vars, history
    <2> QED  BY <2>1, <2>2
  <1> QED  BY <1>1, <1>2, <1>3, <1>4 DEF Next

\* The inductive invariant of the reactor holds, for every number of
\* addresses, devices and places and any calls of the application.
THEOREM Invariant == Spec => []IInv
  <1>1. Init => IInv
    BY InitInv, ShapeSplit DEF IInv, ScanInv
  <1>2. IInv /\ [Next]_vars => IInv'
    <2> SUFFICES ASSUME IInv, [Next]_vars PROVE IInv'
      OBVIOUS
    <2>1. Shape /\ ScanInv
      BY ShapeSplit DEF IInv, ScanInv
    <2>2. Shape' /\ ScanInv'
      BY <2>1, NextInv
    <2> QED  BY <2>2, ShapePrime DEF IInv, ScanInv
  <1> QED  BY <1>1, <1>2, PTL DEF Spec

\* The types, with the capacities of the queues, of the pool and of the poll
\* manager and the limits of the scanner's counters.
THEOREM TypeCorrect == Spec => []TypeOK
  BY Invariant, PTL DEF IInv

\* The node never polls itself, whatever order addPollItem and setAddress are
\* called in, and whatever the heap functions do with the array.
THEOREM NoSelfPollHolds == Spec => []NoSelfPoll
  BY Invariant, PTL DEF IInv

\* A full scan that is over has covered every slave address.
THEOREM FullScanCoversHolds == Spec => []FullScanCovers
  BY Invariant, PTL DEF IInv
=============================================================================
