-------------------------- MODULE PlainUnitsProofs ---------------------------
(***************************************************************************)
(* The units of PlainUnits, for all inputs and for all values of the       *)
(* constants.                                                              *)
(***************************************************************************)
EXTENDS PlainUnits, FiniteSetTheorems, TLAPS

-----------------------------------------------------------------------------
(***************************************************************************)
(* The SYN generators keep to one of them: for any number of nodes with    *)
(* different addresses, of either driver, and for all times that           *)
(* SynAssumption allows.                                                   *)
(*                                                                         *)
(* The argument.  On a settled and quiet bus the timers of the nodes that  *)
(* have read the last byte run in step: each shows what is left of its own *)
(* interval, Base for the generator that is active and the longer time of  *)
(* the address for the others.  These differ by two byte times at least,   *)
(* so when the first timer is at its end the others have another byte time *)
(* to hear the SYN in, and the alarm that a carrier postponed comes before *)
(* them too.  Settled states this; every step of the bus keeps it, and a   *)
(* byte of a telegram that cancels all alarms establishes it.              *)
(***************************************************************************)
Heardable == {"none", "syn", "data"}

GeneratorType ==
  [esp : BOOLEAN, addr : Nat, on : BOOLEAN, left : Nat, every : Nat,
   active : BOOLEAN, since : 0..CarrierSense, firing : BOOLEAN,
   post : -1..Postpone, got : Heardable]

BusType ==
  [node : Seq(GeneratorType), syns : Nat, data : BOOLEAN, settled : BOOLEAN]

NodeOK(g) ==
  /\ g.esp => g.every \in {Base, Unique(g)} /\ g.left <= g.every
  /\ ~g.esp => g.post = NoAlarm
  /\ g.esp => ~g.firing
  /\ g.esp /\ g.got # "none" => g.since = 0

BusOK(b) ==
  /\ b \in BusType
  /\ \A i \in DOMAIN b.node : NodeOK(b.node[i])
  /\ \A i, j \in DOMAIN b.node : b.node[i].addr = b.node[j].addr => i = j

-----------------------------------------------------------------------------
\* A node that is on and has read the last byte, and the interval its timer
\* runs down from.
Listening(g) == g.on /\ g.got = "none"
Target(g) == IF g.active THEN Base ELSE Unique(g)

\* Nothing is being written.
Quiet(b) == b.syns = 0 /\ ~b.data /\ \A i \in DOMAIN b.node : ~b.node[i].firing

\* A node that may write a SYN before it hears another one.
Low(g) ==
  \/ g.post # NoAlarm
  \/ Listening(g) /\ g.left <= 1
  \/ g.on /\ g.esp /\ g.left = 0 /\ g.got = "data"

Generating(g) == g.on /\ g.active /\ g.got # "data"

OneLow(b) ==
  \A i, j \in DOMAIN b.node : Low(b.node[i]) /\ Low(b.node[j]) => i = j

OneActive(b) ==
  \A i, j \in DOMAIN b.node :
    Generating(b.node[i]) /\ (Generating(b.node[j]) \/ Low(b.node[j])) => i = j

\* Who has not read a SYN yet is in time to do so.
SynAwaited(b) ==
  \A i \in DOMAIN b.node :
    b.node[i].on /\ b.node[i].got = "syn" => b.node[i].left > 0

\* While a SYN is written nobody else is about to.
OthersWait(b) ==
  ~Quiet(b) /\ ~b.data =>
    \A i \in DOMAIN b.node :
      Listening(b.node[i]) => b.node[i].left > 1 \/ b.node[i].firing

InStep(b) ==
  \A i, j \in DOMAIN b.node :
    Listening(b.node[i]) /\ Listening(b.node[j]) =>
      b.node[i].left + Target(b.node[j]) = b.node[j].left + Target(b.node[i])

\* While a byte waits for some reader the others have just begun to wait.
JustRead(b) ==
  (\E i \in DOMAIN b.node : b.node[i].got # "none") =>
    \A i \in DOMAIN b.node : Listening(b.node[i]) => b.node[i].left = Target(b.node[i])

\* Carrier sense ends before a timer does.
SinceByte(b) ==
  \A i, j \in DOMAIN b.node :
    b.node[i].got = "none" /\ Listening(b.node[j]) =>
      b.node[i].since = CarrierSense \/ b.node[i].since + b.node[j].left >= Base

\* A postponed alarm comes before every timer.
PostFirst(b) ==
  \A i, j \in DOMAIN b.node :
    b.node[i].post # NoAlarm /\ Listening(b.node[j]) =>
      b.node[j].left >= b.node[i].post + 2

Always(b) == OneLow(b) /\ OneActive(b) /\ SynAwaited(b) /\ OthersWait(b)
Counting(b) == InStep(b) /\ JustRead(b) /\ SinceByte(b) /\ PostFirst(b)
Settled(b) == Always(b) /\ (Quiet(b) => Counting(b))

BusInv(b) == BusOK(b) /\ (b.settled => Settled(b))

-----------------------------------------------------------------------------
(* The times, and what the operations do to a node.                        *)

\* The times are numbers, and their order.
LEMMA Times ==
  /\ Base \in Nat /\ Tolerance \in Nat /\ Factor \in Nat /\ CarrierSense \in Nat
  /\ Postpone \in Nat /\ Serialization \in Nat
  /\ Base >= 2 /\ Tolerance >= 2 /\ Factor >= 2
  /\ CarrierSense >= 1 /\ Postpone >= 1 /\ Serialization >= 1
  /\ Base > CarrierSense + Postpone
  /\ NoAlarm = -1
BY SynAssumption DEF NoAlarm

\* The factor keeps two addresses apart.
LEMMA FactorApart ==
  ASSUME NEW a \in Nat, NEW b \in Nat, a # b
  PROVE  /\ Factor * a \in Nat /\ Factor * b \in Nat
         /\ Factor * a >= Factor * b + 2 \/ Factor * b >= Factor * a + 2
<1>1. \A f, m, n \in Nat : f >= 2 /\ m > n => f * m >= f * n + 2
  <2>1. SUFFICES ASSUME NEW f \in Nat, NEW m \in Nat, NEW n \in Nat, f >= 2, m > n
                 PROVE  f * m >= f * n + 2
    OBVIOUS
  <2>2. PICK k \in Nat : m = n + 1 + k
    <3>1. m - n - 1 \in Nat /\ m = n + 1 + (m - n - 1)
      BY <2>1
    <3>2. QED  BY <3>1
  <2>3. f * m = f * n + f + f * k
    BY <2>2
  <2>4. f * k \in Nat /\ f * n \in Nat
    OBVIOUS
  <2>5. QED  BY <2>1, <2>3, <2>4
<1>2. Factor * a \in Nat /\ Factor * b \in Nat
  BY Times
<1>3. a > b \/ b > a
  OBVIOUS
<1>4. QED  BY <1>1, <1>2, <1>3, Times

\* The time of an address is longer than the base, and those of two
\* addresses are two byte times apart.
LEMMA UniqueApart ==
  ASSUME NEW g, NEW h, g.addr \in Nat, h.addr \in Nat
  PROVE  /\ Unique(g) \in Nat /\ Unique(h) \in Nat
         /\ Unique(g) >= Base + 2 /\ Unique(h) >= Base + 2
         /\ g.addr # h.addr =>
              Unique(g) >= Unique(h) + 2 \/ Unique(h) >= Unique(g) + 2
         /\ g.addr = h.addr => Unique(g) = Unique(h)
<1>1. Factor * g.addr \in Nat /\ Factor * h.addr \in Nat
  BY Times
<1>2. CASE g.addr = h.addr
  BY <1>1, <1>2, Times DEF Unique
<1>3. CASE g.addr # h.addr
  <2>1. Factor * g.addr >= Factor * h.addr + 2 \/ Factor * h.addr >= Factor * g.addr + 2
    BY <1>3, FactorApart
  <2> DEFINE a == Factor * g.addr
             c == Factor * h.addr
  <2>2. Unique(g) = Base + a + Tolerance /\ Unique(h) = Base + c + Tolerance
    BY DEF Unique
  <2>3. a \in Nat /\ c \in Nat /\ (a >= c + 2 \/ c >= a + 2)
    BY <1>1, <2>1
  <2> HIDE DEF a, c
  <2>4. QED  BY <1>3, <2>2, <2>3, Times
<1>4. QED  BY <1>2, <1>3

\* The fields of a node have their types.
LEMMA Fields ==
  ASSUME NEW g \in GeneratorType
  PROVE  /\ g.esp \in BOOLEAN /\ g.addr \in Nat /\ g.on \in BOOLEAN
         /\ g.left \in Nat /\ g.every \in Nat /\ g.active \in BOOLEAN
         /\ g.since \in 0..CarrierSense /\ g.firing \in BOOLEAN
         /\ g.post \in -1..Postpone /\ g.got \in Heardable
         /\ Unique(g) \in Nat /\ Unique(g) >= Base + 2
         /\ Target(g) \in Nat /\ Target(g) >= Base
<1>1. g.addr \in Nat /\ g.active \in BOOLEAN
  BY DEF GeneratorType
<1>2. Unique(g) \in Nat /\ Unique(g) >= Base + 2
  BY <1>1, UniqueApart
<1>3. QED  BY <1>1, <1>2, Times DEF GeneratorType, Target

\* What the reader does to a node.
LEMMA ReadFields ==
  ASSUME NEW g \in GeneratorType
  PROVE  LET n == ReadByte(g)
             act == g.active /\ g.got = "syn"
             set == g.on \/ ~g.esp
         IN  /\ n \in GeneratorType
             /\ n.esp = g.esp /\ n.addr = g.addr /\ n.on = g.on
             /\ n.firing = g.firing /\ n.post = g.post /\ n.got = "none"
             /\ n.since = IF g.esp THEN g.since ELSE 0
             /\ n.active = IF set THEN act ELSE g.active
             /\ n.left = IF set THEN (IF act THEN Base ELSE Unique(g)) ELSE g.left
             /\ n.every = IF set THEN n.left ELSE g.every
             /\ Unique(n) = Unique(g)
<1> DEFINE n == ReadByte(g)
<1>1. n \in GeneratorType
  <2>1. \A r \in GeneratorType : \A byte : ResetSynTimer(r, byte) \in GeneratorType
    <3>1. SUFFICES ASSUME NEW r \in GeneratorType, NEW byte
                   PROVE  ResetSynTimer(r, byte) \in GeneratorType
      OBVIOUS
    <3>2. Unique(r) \in Nat /\ Base \in Nat
      BY Fields, Times
    <3>3. QED  BY <3>2 DEF ResetSynTimer, Armed, GeneratorType
  <2>2. \A r \in GeneratorType : /\ [r EXCEPT !.got = "none"] \in GeneratorType
                                  /\ [r EXCEPT !.since = 0] \in GeneratorType
    <3>1. "none" \in Heardable /\ 0 \in 0..CarrierSense
      BY Times DEF Heardable
    <3>2. QED  BY <3>1 DEF GeneratorType
  <2>3. QED  BY <2>1, <2>2 DEF ReadByte
<1>2. /\ n.esp = g.esp /\ n.addr = g.addr /\ n.on = g.on
      /\ n.firing = g.firing /\ n.post = g.post /\ n.got = "none"
  BY DEF ReadByte, ResetSynTimer, Armed, GeneratorType
<1>3. /\ n.since = IF g.esp THEN g.since ELSE 0
      /\ n.active = IF g.on \/ ~g.esp THEN g.active /\ g.got = "syn" ELSE g.active
  BY DEF ReadByte, ResetSynTimer, Armed, GeneratorType
<1>4. /\ n.left = IF g.on \/ ~g.esp
                  THEN (IF g.active /\ g.got = "syn" THEN Base ELSE Unique(g))
                  ELSE g.left
      /\ n.every = IF g.on \/ ~g.esp THEN n.left ELSE g.every
  BY DEF ReadByte, ResetSynTimer, Armed, GeneratorType, Unique
<1>5. Unique(n) = Unique(g)
  BY <1>2 DEF Unique
<1>6. QED  BY <1>1, <1>2, <1>3, <1>4, <1>5

\* What an expiry does to a node of the POSIX driver.
LEMMA PosixFields ==
  ASSUME NEW g \in GeneratorType, NEW b
  PROVE  LET n == PosixExpired(b, g)
         IN  /\ n \in GeneratorType
             /\ n.esp = g.esp /\ n.addr = g.addr /\ n.on = g.on /\ n.post = g.post
             /\ n.got = g.got /\ n.since = g.since
             /\ Carrier(b, g) =>
                  n.left = Postpone /\ n.active = g.active /\ n.firing = g.firing
             /\ ~Carrier(b, g) => n.left = g.left /\ n.active /\ n.firing
             /\ Unique(n) = Unique(g)
<1> DEFINE n == PosixExpired(b, g)
<1>1. n \in GeneratorType
  BY Times DEF PosixExpired, GeneratorType
<1>2. n.esp = g.esp /\ n.addr = g.addr /\ n.on = g.on /\ n.post = g.post
  BY DEF PosixExpired, GeneratorType
<1>3. n.got = g.got /\ n.since = g.since
  BY DEF PosixExpired, GeneratorType
<1>4. Carrier(b, g) => n.left = Postpone /\ n.active = g.active /\ n.firing = g.firing
  BY DEF PosixExpired, GeneratorType
<1>5. ~Carrier(b, g) => n.left = g.left /\ n.active /\ n.firing
  BY DEF PosixExpired, GeneratorType
<1>6. Unique(n) = Unique(g)
  BY <1>2 DEF Unique
<1>7. QED  BY <1>1, <1>2, <1>3, <1>4, <1>5, <1>6

\* What an alarm does to a node of the ESP32 driver.
LEMMA EspFields ==
  ASSUME NEW g \in GeneratorType, NEW b
  PROVE  LET n == EspExpired(b, g)
             left == IF g.post # 0 THEN g.every ELSE g.left
             post == IF g.post = 0 THEN NoAlarm ELSE g.post
         IN  /\ n \in GeneratorType
             /\ n.esp = g.esp /\ n.addr = g.addr /\ n.on = g.on /\ n.got = g.got
             /\ n.every = g.every /\ n.firing = g.firing /\ n.left = left
             /\ Carrier(b, g) =>
                  /\ n.post = IF post = NoAlarm THEN Postpone ELSE post
                  /\ n.active = g.active /\ n.since = g.since
             /\ ~Carrier(b, g) => n.post = post /\ n.active /\ n.since = 0
             /\ Unique(n) = Unique(g)
<1> DEFINE n == EspExpired(b, g)
           post == IF g.post = 0 THEN NoAlarm ELSE g.post
<1>1. n \in GeneratorType
  <2>1. post \in -1..Postpone /\ Postpone \in -1..Postpone /\ 0 \in 0..CarrierSense
    BY Fields, Times
  <2>2. (IF g.post # 0 THEN g.every ELSE g.left) \in Nat
    BY Fields
  <2>3. QED  BY <2>1, <2>2 DEF EspExpired, GeneratorType
<1>2. /\ n.esp = g.esp /\ n.addr = g.addr /\ n.on = g.on /\ n.got = g.got
      /\ n.every = g.every /\ n.firing = g.firing
  BY DEF EspExpired, GeneratorType
<1>3. n.left = IF g.post # 0 THEN g.every ELSE g.left
  BY DEF EspExpired, GeneratorType
<1>4. Carrier(b, g) => /\ n.post = IF post = NoAlarm THEN Postpone ELSE post
                       /\ n.active = g.active /\ n.since = g.since
  BY DEF EspExpired, GeneratorType
<1>5. ~Carrier(b, g) => n.post = post /\ n.active /\ n.since = 0
  BY DEF EspExpired, GeneratorType
<1>6. Unique(n) = Unique(g)
  BY <1>2 DEF Unique
<1>7. QED  BY <1>1, <1>2, <1>3, <1>4, <1>5, <1>6

\* Node n is g after it has written a byte.
Wrote(g, n) ==
  /\ n \in GeneratorType
  /\ n.esp = g.esp /\ n.addr = g.addr /\ n.on = g.on /\ n.post = g.post
  /\ n.got = g.got /\ n.since = 0
  /\ g.esp => n.left = g.left /\ n.every = g.every
  /\ ~g.esp => n.left = Unique(g) + Serialization
  /\ n.active => g.active
  /\ Unique(n) = Unique(g)

\* What writing a byte does to a node.
LEMMA WriteFields ==
  ASSUME NEW g \in GeneratorType, NEW byte \in {"syn", "data"}
  PROVE  Wrote(g, WriteByte(g, byte)) /\ WriteByte(g, byte).firing = g.firing
<1> DEFINE n == WriteByte(g, byte)
<1>1. n \in GeneratorType
  <2>1. Unique(g) + Serialization \in Nat /\ 0 \in 0..CarrierSense
    BY Fields, Times
  <2>2. QED  BY <2>1 DEF WriteByte, Armed, GeneratorType
<1>2. /\ n.esp = g.esp /\ n.addr = g.addr /\ n.on = g.on /\ n.post = g.post
      /\ n.got = g.got /\ n.firing = g.firing /\ n.since = 0
  BY DEF WriteByte, Armed, GeneratorType
<1>3. /\ g.esp => n.left = g.left /\ n.every = g.every
      /\ ~g.esp => n.left = Unique(g) + Serialization
      /\ n.active => g.active
  BY DEF WriteByte, Armed, GeneratorType
<1>4. Unique(n) = Unique(g)
  BY <1>2 DEF Unique
<1>5. QED  BY <1>1, <1>2, <1>3, <1>4 DEF Wrote

\* What synThread writing its SYN does to a node.
LEMMA WrittenFields ==
  ASSUME NEW g \in GeneratorType
  PROVE  LET n == [WriteByte(g, "syn") EXCEPT !.firing = FALSE]
         IN  Wrote(g, n) /\ ~n.firing
<1> DEFINE w == WriteByte(g, "syn")
           n == [w EXCEPT !.firing = FALSE]
<1>1. /\ w \in GeneratorType
      /\ w.esp = g.esp /\ w.addr = g.addr /\ w.on = g.on /\ w.post = g.post
      /\ w.got = g.got /\ w.since = 0
      /\ g.esp => w.left = g.left /\ w.every = g.every
      /\ ~g.esp => w.left = Unique(g) + Serialization
      /\ w.active => g.active
  BY WriteFields DEF Wrote
<1> HIDE DEF w
<1>2. n \in GeneratorType
  BY <1>1 DEF GeneratorType
<1>3. /\ n.esp = w.esp /\ n.addr = w.addr /\ n.on = w.on /\ n.post = w.post
      /\ n.got = w.got /\ ~n.firing /\ n.since = w.since /\ n.left = w.left
      /\ n.every = w.every /\ n.active = w.active
  BY <1>1 DEF GeneratorType
<1>4. Unique(n) = Unique(g)
  BY <1>1, <1>3 DEF Unique
<1>5. QED  BY <1>1, <1>2, <1>3, <1>4 DEF w, Wrote

\* What a byte time does to a node.
LEMMA TickFields ==
  ASSUME NEW g \in GeneratorType, NEW byte \in Heardable
  PROVE  LET n == TimerTick(g, byte)
         IN  /\ n \in GeneratorType
             /\ n.esp = g.esp /\ n.addr = g.addr /\ n.on = g.on
             /\ n.every = g.every /\ n.active = g.active /\ n.firing = g.firing
             /\ n.got = byte
             /\ n.left <= g.left /\ (g.on /\ g.left > 0 => n.left = g.left - 1)
             /\ n.post = IF g.post > 0 THEN g.post - 1 ELSE g.post
             /\ g.esp /\ byte # "none" => n.since = 0
             /\ ~(g.esp /\ byte # "none") =>
                  n.since = IF g.since < CarrierSense THEN g.since + 1 ELSE g.since
             /\ Unique(n) = Unique(g)
<1> DEFINE n == TimerTick(g, byte)
<1>1. Down(g.left) \in Nat /\ Down(g.post) \in -1..Postpone
  BY Fields, Times DEF Down
<1>2. n \in GeneratorType
  <2>1. (IF g.on \/ ~g.esp THEN Down(g.left) ELSE g.left) \in Nat
    BY <1>1, Fields
  <2>2. (IF g.esp /\ byte # "none" THEN 0
         ELSE IF g.since < CarrierSense THEN g.since + 1 ELSE g.since) \in 0..CarrierSense
    BY Fields, Times
  <2>3. QED  BY <1>1, <2>1, <2>2 DEF TimerTick, GeneratorType
<1>3. /\ n.esp = g.esp /\ n.addr = g.addr /\ n.on = g.on
      /\ n.every = g.every /\ n.active = g.active /\ n.firing = g.firing
      /\ n.got = byte
  BY DEF TimerTick, GeneratorType
<1>4. n.left = IF g.on \/ ~g.esp THEN Down(g.left) ELSE g.left
  BY DEF TimerTick, GeneratorType
<1>5. n.post = IF g.post > 0 THEN g.post - 1 ELSE g.post
  BY DEF TimerTick, GeneratorType, Down
<1>6. /\ g.esp /\ byte # "none" => n.since = 0
      /\ ~(g.esp /\ byte # "none") =>
           n.since = IF g.since < CarrierSense THEN g.since + 1 ELSE g.since
  BY DEF TimerTick, GeneratorType
<1>7. n.left <= g.left /\ (g.on /\ g.left > 0 => n.left = g.left - 1)
  BY <1>4, Fields DEF Down
<1>8. Unique(n) = Unique(g)
  BY <1>3 DEF Unique
<1>9. QED  BY <1>2, <1>3, <1>5, <1>6, <1>7, <1>8

-----------------------------------------------------------------------------
(* A step of one node.                                                     *)

\* The bus with another node i, and with what is being written.
Put(b, i, n, syns, data, settled) ==
  [node |-> [b.node EXCEPT ![i] = n], syns |-> syns, data |-> data, settled |-> settled]

\* The nodes of a bus have their types, and their times are apart.
LEMMA BusFields ==
  ASSUME NEW b, BusOK(b)
  PROVE  /\ b.syns \in Nat /\ b.data \in BOOLEAN /\ b.settled \in BOOLEAN
         /\ \A j \in DOMAIN b.node :
              LET g == b.node[j]
              IN  /\ g \in GeneratorType
                  /\ g.esp \in BOOLEAN /\ g.addr \in Nat /\ g.on \in BOOLEAN
                  /\ g.left \in Nat /\ g.every \in Nat /\ g.active \in BOOLEAN
                  /\ g.since \in 0..CarrierSense /\ g.firing \in BOOLEAN
                  /\ g.post \in -1..Postpone /\ g.got \in Heardable
                  /\ Unique(g) \in Nat /\ Unique(g) >= Base + 2
                  /\ Target(g) \in Nat /\ Target(g) >= Base
         /\ \A j, k \in DOMAIN b.node : j # k =>
              \/ Unique(b.node[j]) >= Unique(b.node[k]) + 2
              \/ Unique(b.node[k]) >= Unique(b.node[j]) + 2
<1>1. /\ b.node \in Seq(GeneratorType)
      /\ b.syns \in Nat /\ b.data \in BOOLEAN /\ b.settled \in BOOLEAN
  BY DEF BusOK, BusType
<1>2. \A j \in DOMAIN b.node : b.node[j] \in GeneratorType
  BY <1>1
<1>3. ASSUME NEW j \in DOMAIN b.node, NEW k \in DOMAIN b.node, j # k
      PROVE  \/ Unique(b.node[j]) >= Unique(b.node[k]) + 2
             \/ Unique(b.node[k]) >= Unique(b.node[j]) + 2
  <2>1. b.node[j].addr \in Nat /\ b.node[k].addr \in Nat
    BY <1>2, Fields
  <2>2. b.node[j].addr # b.node[k].addr
    BY <1>3 DEF BusOK
  <2>3. QED  BY <2>1, <2>2, UniqueApart
<1>4. QED  BY <1>1, <1>2, <1>3, Fields

\* The other nodes stay as they are.
LEMMA PutKeeps ==
  ASSUME NEW b, BusOK(b), NEW i \in DOMAIN b.node, NEW n \in GeneratorType,
         NEW syns \in Nat, NEW data \in BOOLEAN, NEW settled \in BOOLEAN,
         NodeOK(n), n.addr = b.node[i].addr
  PROVE  LET c == Put(b, i, n, syns, data, settled)
         IN  /\ BusOK(c)
             /\ DOMAIN c.node = DOMAIN b.node
             /\ c.node[i] = n
             /\ \A j \in DOMAIN b.node : j # i => c.node[j] = b.node[j]
             /\ c.syns = syns /\ c.data = data /\ c.settled = settled
<1> DEFINE c == Put(b, i, n, syns, data, settled)
<1>1. b.node \in Seq(GeneratorType)
  BY DEF BusOK, BusType
<1>2. /\ c.node = [b.node EXCEPT ![i] = n] /\ c.syns = syns /\ c.data = data
      /\ c.settled = settled
  BY DEF Put
<1>3. c.node \in Seq(GeneratorType)
  BY <1>1, <1>2
<1>4. c \in BusType
  BY <1>2, <1>3 DEF BusType, Put
<1>5. /\ DOMAIN c.node = DOMAIN b.node
      /\ c.node[i] = n
      /\ \A j \in DOMAIN b.node : j # i => c.node[j] = b.node[j]
  BY <1>1, <1>2
<1> HIDE DEF c
<1>6. BusOK(c)
  <2>1. \A j \in DOMAIN c.node : NodeOK(c.node[j])
    BY <1>5 DEF BusOK
  <2>2. \A j, k \in DOMAIN c.node : c.node[j].addr = c.node[k].addr => j = k
    BY <1>5 DEF BusOK
  <2>3. QED  BY <1>4, <2>1, <2>2 DEF BusOK
<1>7. QED  BY <1>2, <1>5, <1>6 DEF c

\* A reader takes the byte.
LEMMA ReadKeeps ==
  ASSUME NEW b, BusOK(b), NEW i \in DOMAIN b.node, b.node[i].got # "none", NEW c,
         c = Put(b, i, ReadByte(b.node[i]), b.syns, b.data, b.settled)
  PROVE  BusOK(c) /\ (Settled(b) => Settled(c)) /\ c.settled = b.settled
<1> DEFINE g == b.node[i]
           n == ReadByte(g)
<1> USE Times
<1>1. g \in GeneratorType /\ NodeOK(g)
  BY BusFields DEF BusOK
<1>2. /\ n \in GeneratorType
      /\ n.esp = g.esp /\ n.addr = g.addr /\ n.on = g.on
      /\ n.firing = g.firing /\ n.post = g.post /\ n.got = "none"
      /\ n.since = IF g.esp THEN g.since ELSE 0
      /\ n.active = IF g.on \/ ~g.esp THEN g.active /\ g.got = "syn" ELSE g.active
      /\ n.left = IF g.on \/ ~g.esp
                  THEN (IF g.active /\ g.got = "syn" THEN Base ELSE Unique(g))
                  ELSE g.left
      /\ n.every = IF g.on \/ ~g.esp THEN n.left ELSE g.every
      /\ Unique(n) = Unique(g)
  BY <1>1, ReadFields
<1> HIDE DEF n
<1>3. NodeOK(n)
  BY <1>1, <1>2, Fields DEF NodeOK
<1>4. /\ BusOK(c) /\ DOMAIN c.node = DOMAIN b.node /\ c.node[i] = n
      /\ \A j \in DOMAIN b.node : j # i => c.node[j] = b.node[j]
      /\ c.syns = b.syns /\ c.data = b.data /\ c.settled = b.settled
  <2>1. c = Put(b, i, n, b.syns, b.data, b.settled)
    BY DEF n
  <2>2. b.syns \in Nat /\ b.data \in BOOLEAN /\ b.settled \in BOOLEAN
    BY BusFields
  <2>3. QED  BY <1>2, <1>3, <2>1, <2>2, PutKeeps
<1>5. SUFFICES ASSUME Settled(b) PROVE Settled(c)
  BY <1>4
<1>6. Target(n) \in Nat /\ Target(n) >= Base /\ (g.on => n.left = Target(n))
  BY <1>1, <1>2, Fields DEF Target
<1>7. (Low(n) => Low(g)) /\ (Generating(n) => Generating(g))
  BY <1>1, <1>2, Fields DEF Low, Listening, Generating
<1>8. Quiet(c) <=> Quiet(b)
  BY <1>2, <1>4 DEF Quiet
<1>9. OneLow(c) /\ OneActive(c)
  BY <1>4, <1>5, <1>7 DEF Settled, Always, OneLow, OneActive
<1>10. SynAwaited(c)
  BY <1>2, <1>4, <1>5 DEF Settled, Always, SynAwaited
<1>11. OthersWait(c)
  BY <1>2, <1>4, <1>5, <1>6, <1>8 DEF Settled, Always, OthersWait, Listening
<1>12. ASSUME Quiet(b)
       PROVE  Counting(c)
  <2>1. \A j \in DOMAIN b.node : Listening(b.node[j]) => b.node[j].left = Target(b.node[j])
    BY <1>5, <1>12 DEF Settled, Counting, JustRead
  <2>2. \A j \in DOMAIN c.node : Listening(c.node[j]) => c.node[j].left = Target(c.node[j])
    BY <1>2, <1>4, <1>6, <2>1 DEF Listening
  <2>3. \A j \in DOMAIN c.node : Target(c.node[j]) \in Nat /\ Target(c.node[j]) >= Base
    BY <1>4, BusFields
  <2>4. InStep(c) /\ JustRead(c)
    BY <2>2, <2>3 DEF InStep, JustRead
  <2>5. ASSUME NEW k \in DOMAIN c.node, NEW j \in DOMAIN c.node, Listening(c.node[j])
        PROVE  /\ c.node[k].since + c.node[j].left >= Base
               /\ c.node[j].left >= c.node[k].post + 2
    <3> DEFINE left == c.node[j].left
               since == c.node[k].since
               post == c.node[k].post
    <3>1. left \in Nat /\ left >= Base
      BY <2>2, <2>3, <2>5
    <3>2. since \in 0..CarrierSense /\ post \in -1..Postpone
      BY <1>4, BusFields
    <3> HIDE DEF left, since, post
    <3>3. since + left >= Base /\ left >= post + 2
      BY <3>1, <3>2
    <3>4. QED  BY <3>3 DEF left, since, post
  <2>6. SinceByte(c) /\ PostFirst(c)
    BY <2>5, ZenonT(60) DEF SinceByte, PostFirst
  <2>7. QED  BY <2>4, <2>6 DEF Counting
<1>13. QED  BY <1>8, <1>9, <1>10, <1>11, <1>12 DEF Settled, Always

\* The timer of a POSIX node ends: synThread postpones it or is about to
\* write.
LEMMA PosixKeeps ==
  ASSUME NEW b, BusOK(b), NEW i \in DOMAIN b.node, Due(b.node[i]), ~b.node[i].esp, NEW c,
         c = Put(b, i, PosixExpired(b, b.node[i]), b.syns, b.data, b.settled)
  PROVE  BusOK(c) /\ (Settled(b) => Settled(c)) /\ c.settled = b.settled
<1> DEFINE g == b.node[i]
           n == PosixExpired(b, g)
<1> USE Times
<1>1. g \in GeneratorType /\ NodeOK(g)
  BY BusFields DEF BusOK
<1>2. /\ n \in GeneratorType
      /\ n.esp = g.esp /\ n.addr = g.addr /\ n.on = g.on /\ n.post = g.post
      /\ n.got = g.got /\ n.since = g.since
      /\ Carrier(b, g) => n.left = Postpone /\ n.active = g.active /\ n.firing = g.firing
      /\ ~Carrier(b, g) => n.left = g.left /\ n.active /\ n.firing
      /\ Unique(n) = Unique(g)
  BY <1>1, PosixFields
<1> HIDE DEF n
<1>3. NodeOK(n)
  BY <1>1, <1>2 DEF NodeOK
<1>4. /\ BusOK(c) /\ DOMAIN c.node = DOMAIN b.node /\ c.node[i] = n
      /\ \A j \in DOMAIN b.node : j # i => c.node[j] = b.node[j]
      /\ c.syns = b.syns /\ c.data = b.data /\ c.settled = b.settled
  <2>1. c = Put(b, i, n, b.syns, b.data, b.settled)
    BY DEF n
  <2>2. b.syns \in Nat /\ b.data \in BOOLEAN /\ b.settled \in BOOLEAN
    BY BusFields
  <2>3. QED  BY <1>2, <1>3, <2>1, <2>2, PutKeeps
<1>5. SUFFICES ASSUME Settled(b) PROVE Settled(c)
  BY <1>4
<1>6. g.on /\ g.left = 0 /\ ~g.firing /\ g.post = NoAlarm
  BY <1>1 DEF Due, NodeOK
<1>7. g.got \in {"none", "data"} /\ (g.got = "none" => Listening(g) /\ Low(g))
  <2>1. g.got # "syn"
    BY <1>5, <1>6 DEF Settled, Always, SynAwaited
  <2>2. QED  BY <1>1, <1>6, <2>1, Fields DEF Heardable, Listening, Low
<1>8. Low(n) => Low(g)
  BY <1>1, <1>2, <1>6, <1>7 DEF Low, Listening, NodeOK
<1>9. OneLow(c)
  BY <1>4, <1>5, <1>8 DEF Settled, Always, OneLow
<1>10. SynAwaited(c)
  BY <1>2, <1>4, <1>5, <1>7 DEF Settled, Always, SynAwaited
<1>11. CASE Carrier(b, g)
  <2>1. Generating(n) <=> Generating(g)
    BY <1>2, <1>11 DEF Generating
  <2>2. OneActive(c)
    BY <1>4, <1>5, <1>8, <2>1 DEF Settled, Always, OneActive
  <2>3. Quiet(c) <=> Quiet(b)
    BY <1>2, <1>4, <1>11 DEF Quiet
  <2>4. g.since < CarrierSense
    BY <1>11 DEF Carrier
  <2>5. ~Quiet(b) /\ ~b.data => ~Listening(g)
    BY <1>5, <1>6 DEF Settled, Always, OthersWait
  <2>6. OthersWait(c)
    BY <1>2, <1>4, <1>5, <2>3, <2>5 DEF Settled, Always, OthersWait, Listening
  <2>7. ASSUME Quiet(b)
        PROVE  Counting(c)
    <3>1. InStep(b) /\ JustRead(b) /\ SinceByte(b) /\ PostFirst(b)
      BY <1>5, <2>7 DEF Settled, Counting
    <3>2. ~Listening(g)
      <4>1. g.since \in 0..CarrierSense
        BY <1>1, Fields
      <4>2. QED  BY <1>6, <2>4, <3>1, <4>1 DEF SinceByte, Listening
    <3>3. ~Listening(n) /\ n.got = g.got /\ n.since = g.since /\ n.post = g.post
      BY <1>2, <3>2 DEF Listening
    <3>4. InStep(c)
      BY <1>4, <3>1, <3>3 DEF InStep
    <3>5. JustRead(c)
      BY <1>4, <3>1, <3>3 DEF JustRead
    <3>6. SinceByte(c)
      BY <1>4, <3>1, <3>3 DEF SinceByte
    <3>7. PostFirst(c)
      BY <1>4, <3>1, <3>3 DEF PostFirst
    <3>8. QED  BY <3>4, <3>5, <3>6, <3>7 DEF Counting
  <2>8. QED  BY <1>9, <1>10, <2>2, <2>3, <2>6, <2>7 DEF Settled, Always
<1>12. CASE ~Carrier(b, g)
  <2>1. ~Quiet(c)
    BY <1>2, <1>4, <1>12 DEF Quiet
  <2>2. Generating(n) => Low(g)
    BY <1>2, <1>7 DEF Generating
  <2>3. OneActive(c)
    BY <1>4, <1>5, <1>8, <2>2 DEF Settled, Always, OneActive, OneLow
  <2>4. OthersWait(c)
    <3>1. SUFFICES ASSUME ~b.data, NEW j \in DOMAIN b.node, j # i, Listening(b.node[j])
                   PROVE  b.node[j].left > 1 \/ b.node[j].firing
      BY <1>2, <1>4, <1>12 DEF OthersWait
    <3>2. CASE ~Quiet(b)
      BY <1>5, <3>1, <3>2 DEF Settled, Always, OthersWait
    <3>3. CASE Quiet(b) /\ g.got = "none"
      <4>1. ~Low(b.node[j])
        BY <1>5, <1>7, <3>1, <3>3 DEF Settled, Always, OneLow
      <4>2. QED  BY <3>1, <4>1, BusFields DEF Low
    <3>4. CASE Quiet(b) /\ g.got # "none"
      <4>1. b.node[j].left = Target(b.node[j])
        BY <1>5, <3>1, <3>4 DEF Settled, Counting, JustRead
      <4>2. QED  BY <3>1, <4>1, BusFields
    <3>5. QED  BY <3>2, <3>3, <3>4
  <2>5. QED  BY <1>9, <1>10, <2>1, <2>3, <2>4 DEF Settled, Always
<1>13. QED  BY <1>11, <1>12

\* An alarm of an ESP32 node finds a carrier and is postponed.
LEMMA PostponeKeeps ==
  ASSUME NEW b, BusOK(b), NEW i \in DOMAIN b.node, Due(b.node[i]), b.node[i].esp,
         Carrier(b, b.node[i]), NEW c,
         c = Put(b, i, EspExpired(b, b.node[i]), b.syns, b.data, b.settled)
  PROVE  BusOK(c) /\ (Settled(b) => Settled(c)) /\ c.settled = b.settled
<1> DEFINE g == b.node[i]
           n == EspExpired(b, g)
<1> USE Times
<1>1. g \in GeneratorType /\ NodeOK(g)
  BY BusFields DEF BusOK
<1>2. /\ n \in GeneratorType
      /\ n.esp = g.esp /\ n.addr = g.addr /\ n.on = g.on /\ n.got = g.got
      /\ n.every = g.every /\ n.firing = g.firing
      /\ n.left = IF g.post # 0 THEN g.every ELSE g.left
      /\ n.post = IF g.post \in {0, NoAlarm} THEN Postpone ELSE g.post
      /\ n.active = g.active /\ n.since = g.since
      /\ Unique(n) = Unique(g)
  BY <1>1, EspFields, ZenonT(60)
<1> HIDE DEF n
<1>3. NodeOK(n)
  BY <1>1, <1>2, Fields DEF NodeOK
<1>4. /\ BusOK(c) /\ DOMAIN c.node = DOMAIN b.node /\ c.node[i] = n
      /\ \A j \in DOMAIN b.node : j # i => c.node[j] = b.node[j]
      /\ c.syns = b.syns /\ c.data = b.data /\ c.settled = b.settled
  <2>1. c = Put(b, i, n, b.syns, b.data, b.settled)
    BY DEF n
  <2>2. b.syns \in Nat /\ b.data \in BOOLEAN /\ b.settled \in BOOLEAN
    BY BusFields
  <2>3. QED  BY <1>2, <1>3, <2>1, <2>2, PutKeeps
<1>5. SUFFICES ASSUME Settled(b) PROVE Settled(c)
  BY <1>4
<1>6. g.every >= Base /\ g.every \in Nat /\ g.left \in Nat
  BY <1>1, Fields DEF NodeOK
<1>7. Low(g)
  <2>1. g.on /\ g.left = 0 => g.got # "syn"
    BY <1>5 DEF Settled, Always, SynAwaited
  <2>2. QED  BY <1>1, <2>1, Fields DEF Heardable, Due, Listening, Low
<1>8. Quiet(c) <=> Quiet(b)
  BY <1>2, <1>4 DEF Quiet
<1>9. Generating(n) <=> Generating(g)
  BY <1>2 DEF Generating
<1>10. OneLow(c) /\ OneActive(c)
  BY <1>4, <1>5, <1>7, <1>9 DEF Settled, Always, OneLow, OneActive
<1>11. SynAwaited(c)
  BY <1>2, <1>4, <1>5, <1>6 DEF Settled, Always, SynAwaited
<1>12. OthersWait(c)
  BY <1>2, <1>4, <1>5, <1>6, <1>8 DEF Settled, Always, OthersWait, Listening
<1>13. ASSUME Quiet(b)
       PROVE  Counting(c)
  <2>1. InStep(b) /\ JustRead(b) /\ SinceByte(b) /\ PostFirst(b)
    BY <1>5, <1>13 DEF Settled, Counting
  <2>2. g.since < CarrierSense /\ g.since \in 0..CarrierSense
    BY <1>1, <1>13, Fields DEF Carrier, Quiet
  <2>3. g.post # 0 => ~Listening(g)
    BY <2>1, <2>2 DEF Due, SinceByte, Listening
  <2>4. \A j \in DOMAIN b.node : Listening(b.node[j]) => b.node[j].left >= Postpone + 2
    <3>1. CASE g.got = "none"
      BY <2>1, <2>2, <3>1, BusFields DEF SinceByte
    <3>2. CASE g.got # "none"
      BY <2>1, <3>2, BusFields DEF JustRead
    <3>3. QED  BY <3>1, <3>2
  <2>5. /\ Listening(n) <=> Listening(g)
        /\ Listening(g) => n.left = g.left
        /\ Target(n) = Target(g) /\ n.since = g.since /\ n.got = g.got
    BY <1>2, <2>3 DEF Listening, Target
  <2>6. n.post \in -1..Postpone /\ g.post \in -1..Postpone
    BY <1>1, <1>2, Fields
  <2>7. InStep(c)
    BY <1>4, <2>1, <2>5 DEF InStep
  <2>8. JustRead(c)
    BY <1>4, <2>1, <2>5 DEF JustRead
  <2>9. SinceByte(c)
    BY <1>4, <2>1, <2>5 DEF SinceByte
  <2>10. PostFirst(c)
    <3>1. \A j \in DOMAIN c.node :
            Listening(c.node[j]) => Listening(b.node[j]) /\ c.node[j].left = b.node[j].left
      BY <1>4, <2>5
    <3>2. SUFFICES ASSUME NEW k \in DOMAIN b.node, NEW j \in DOMAIN b.node,
                          c.node[k].post # NoAlarm, Listening(b.node[j])
                   PROVE  b.node[j].left >= c.node[k].post + 2
      BY <1>4, <3>1, ZenonT(60) DEF PostFirst
    <3>3. b.node[j].left >= Postpone + 2 /\ b.node[j].left \in Nat
      BY <2>4, <3>2, BusFields
    <3>4. CASE k = i
      BY <1>4, <2>6, <3>3, <3>4
    <3>5. CASE k # i
      BY <1>4, <2>1, <3>2, <3>5 DEF PostFirst
    <3>6. QED  BY <3>4, <3>5
  <2>11. QED  BY <2>7, <2>8, <2>9, <2>10 DEF Counting
<1>14. QED  BY <1>8, <1>10, <1>11, <1>12, <1>13 DEF Settled, Always

\* An alarm of an ESP32 node writes its SYN.
LEMMA AlarmKeeps ==
  ASSUME NEW b, BusOK(b), NEW i \in DOMAIN b.node, Due(b.node[i]), b.node[i].esp,
         ~Carrier(b, b.node[i]), NEW c,
         c = Put(b, i, EspExpired(b, b.node[i]), b.syns + 1, b.data, b.settled)
  PROVE  BusOK(c) /\ (Settled(b) => Settled(c)) /\ c.settled = b.settled
<1> DEFINE g == b.node[i]
           n == EspExpired(b, g)
<1> USE Times
<1>1. g \in GeneratorType /\ NodeOK(g)
  BY BusFields DEF BusOK
<1>2. /\ n \in GeneratorType
      /\ n.esp = g.esp /\ n.addr = g.addr /\ n.on = g.on /\ n.got = g.got
      /\ n.every = g.every /\ n.firing = g.firing
      /\ n.left = IF g.post # 0 THEN g.every ELSE g.left
      /\ n.post = IF g.post = 0 THEN NoAlarm ELSE g.post
      /\ n.active /\ n.since = 0
      /\ Unique(n) = Unique(g)
  BY <1>1, EspFields, ZenonT(60)
<1> HIDE DEF n
<1>3. NodeOK(n)
  BY <1>1, <1>2, Fields DEF NodeOK
<1>4. /\ BusOK(c) /\ DOMAIN c.node = DOMAIN b.node /\ c.node[i] = n
      /\ \A j \in DOMAIN b.node : j # i => c.node[j] = b.node[j]
      /\ c.syns = b.syns + 1 /\ c.data = b.data /\ c.settled = b.settled
  <2>1. c = Put(b, i, n, b.syns + 1, b.data, b.settled)
    BY DEF n
  <2>2. b.syns + 1 \in Nat /\ b.data \in BOOLEAN /\ b.settled \in BOOLEAN
    BY BusFields
  <2>3. QED  BY <1>2, <1>3, <2>1, <2>2, PutKeeps
<1>5. SUFFICES ASSUME Settled(b) PROVE Settled(c)
  BY <1>4
<1>6. g.every >= Base /\ g.every \in Nat /\ g.left \in Nat
  BY <1>1, Fields DEF NodeOK
<1>7. b.syns = 0 /\ ~b.data /\ g.got = "none"
  BY <1>1, BusFields, Fields DEF Carrier, NodeOK
<1>8. Low(g)
  BY <1>7 DEF Due, Listening, Low
<1>9. ~Quiet(c)
  BY <1>4, <1>7 DEF Quiet
<1>10. OneLow(c) /\ OneActive(c)
  BY <1>4, <1>5, <1>8 DEF Settled, Always, OneLow, OneActive
<1>11. SynAwaited(c)
  BY <1>2, <1>4, <1>5, <1>7 DEF Settled, Always, SynAwaited
<1>12. OthersWait(c)
  <2>1. ASSUME NEW j \in DOMAIN b.node, j # i, Listening(b.node[j])
        PROVE  b.node[j].left > 1 \/ b.node[j].firing
    <3>1. ~Low(b.node[j])
      BY <1>5, <1>8, <2>1 DEF Settled, Always, OneLow
    <3>2. QED  BY <2>1, <3>1, BusFields DEF Low
  <2>2. ASSUME Listening(g), g.post = 0
        PROVE  g.left > 1
    <3>1. CASE Quiet(b)
      BY <1>5, <1>6, <2>2, <3>1 DEF Settled, Counting, PostFirst
    <3>2. CASE ~Quiet(b)
      BY <1>1, <1>5, <1>7, <2>2, <3>2 DEF Settled, Always, OthersWait, NodeOK
    <3>3. QED  BY <3>1, <3>2
  <2>3. Listening(n) => n.left > 1
    BY <1>2, <1>6, <2>2 DEF Listening
  <2>4. QED  BY <1>4, <2>1, <2>3 DEF OthersWait
<1>13. QED  BY <1>9, <1>10, <1>11, <1>12 DEF Settled, Always

\* synThread writes its SYN.
LEMMA WrittenKeeps ==
  ASSUME NEW b, BusOK(b), NEW i \in DOMAIN b.node, b.node[i].firing, NEW n, NEW c,
         Wrote(b.node[i], n), ~n.firing,
         c = Put(b, i, n, b.syns + 1, b.data, b.settled)
  PROVE  BusOK(c) /\ (Settled(b) => Settled(c)) /\ c.settled = b.settled
<1> DEFINE g == b.node[i]
<1> USE Times
<1>1. g \in GeneratorType /\ NodeOK(g) /\ ~g.esp
  BY BusFields DEF BusOK, NodeOK
<1>2. /\ n \in GeneratorType
      /\ n.esp = g.esp /\ n.addr = g.addr /\ n.on = g.on /\ n.post = g.post
      /\ n.got = g.got /\ ~n.firing /\ n.since = 0
      /\ n.left = Unique(g) + Serialization
      /\ n.active => g.active
      /\ Unique(n) = Unique(g)
  BY <1>1 DEF Wrote
<1>3. NodeOK(n)
  BY <1>1, <1>2 DEF NodeOK
<1>4. /\ BusOK(c) /\ DOMAIN c.node = DOMAIN b.node /\ c.node[i] = n
      /\ \A j \in DOMAIN b.node : j # i => c.node[j] = b.node[j]
      /\ c.syns = b.syns + 1 /\ c.data = b.data /\ c.settled = b.settled
  <2>1. b.syns + 1 \in Nat /\ b.data \in BOOLEAN /\ b.settled \in BOOLEAN
    BY BusFields
  <2>2. QED  BY <1>2, <1>3, <2>1, PutKeeps
<1>5. SUFFICES ASSUME Settled(b) PROVE Settled(c)
  BY <1>4
<1>6. n.left \in Nat /\ n.left > 1
  BY <1>1, <1>2, Fields
<1>7. (Low(n) => Low(g)) /\ (Generating(n) => Generating(g))
  BY <1>1, <1>2, <1>6 DEF Low, Listening, Generating
<1>8. ~Quiet(c) /\ ~Quiet(b)
  BY <1>4, BusFields DEF Quiet
<1>9. OneLow(c) /\ OneActive(c)
  BY <1>4, <1>5, <1>7 DEF Settled, Always, OneLow, OneActive
<1>10. SynAwaited(c)
  BY <1>4, <1>5, <1>6 DEF Settled, Always, SynAwaited
<1>11. OthersWait(c)
  BY <1>4, <1>5, <1>6, <1>8 DEF Settled, Always, OthersWait
<1>12. QED  BY <1>8, <1>9, <1>10, <1>11 DEF Settled, Always

\* A node writes a byte of a telegram.
LEMMA TransmitKeeps ==
  ASSUME NEW b, BusOK(b), NEW i \in DOMAIN b.node, NEW n, NEW c,
         NEW data \in BOOLEAN, Wrote(b.node[i], n), n.firing = b.node[i].firing,
         c = Put(b, i, n, b.syns, data, b.settled), c.data
  PROVE  BusOK(c) /\ (Settled(b) => Settled(c)) /\ c.settled = b.settled
<1> DEFINE g == b.node[i]
<1> USE Times
<1>1. g \in GeneratorType /\ NodeOK(g)
  BY BusFields DEF BusOK
<1>2. /\ n \in GeneratorType
      /\ n.esp = g.esp /\ n.addr = g.addr /\ n.on = g.on /\ n.post = g.post
      /\ n.got = g.got /\ n.firing = g.firing /\ n.since = 0
      /\ g.esp => n.left = g.left /\ n.every = g.every
      /\ ~g.esp => n.left = Unique(g) + Serialization
      /\ n.active => g.active
      /\ Unique(n) = Unique(g)
  BY <1>1 DEF Wrote
<1>3. NodeOK(n)
  BY <1>1, <1>2 DEF NodeOK
<1>4. /\ BusOK(c) /\ DOMAIN c.node = DOMAIN b.node /\ c.node[i] = n
      /\ \A j \in DOMAIN b.node : j # i => c.node[j] = b.node[j]
      /\ c.syns = b.syns /\ c.settled = b.settled
  <2>1. b.syns \in Nat /\ b.settled \in BOOLEAN
    BY BusFields
  <2>2. QED  BY <1>2, <1>3, <2>1, PutKeeps
<1>5. SUFFICES ASSUME Settled(b) PROVE Settled(c)
  BY <1>4
<1>7. (Low(n) => Low(g)) /\ (Generating(n) => Generating(g))
  BY <1>1, <1>2, Fields DEF Low, Listening, Generating
<1>8. ~Quiet(c)
  BY <1>4 DEF Quiet
<1>9. OneLow(c) /\ OneActive(c)
  BY <1>4, <1>5, <1>7 DEF Settled, Always, OneLow, OneActive
<1>10. SynAwaited(c)
  BY <1>1, <1>2, <1>4, <1>5, Fields DEF Settled, Always, SynAwaited
<1>11. OthersWait(c)
  BY <1>4 DEF OthersWait
<1>12. QED  BY <1>8, <1>9, <1>10, <1>11 DEF Settled, Always

\* Another device writes a byte of a telegram.
LEMMA ForeignKeeps ==
  ASSUME NEW b, BusOK(b), NEW c, c = [b EXCEPT !.data = TRUE]
  PROVE  BusOK(c) /\ (Settled(b) => Settled(c)) /\ c.settled = b.settled
<1>1. c \in BusType
  BY DEF BusOK, BusType
<1>2. c.node = b.node /\ c.data /\ c.settled = b.settled
  BY DEF BusOK, BusType
<1>3. BusOK(c)
  BY <1>1, <1>2 DEF BusOK
<1>4. ~Quiet(c)
  BY <1>2 DEF Quiet
<1>5. Settled(b) => Always(c)
  BY <1>2 DEF Settled, Always, OneLow, OneActive, SynAwaited, OthersWait
<1>6. QED  BY <1>2, <1>3, <1>4, <1>5 DEF Settled

\* A generator is switched off.
LEMMA DisableKeeps ==
  ASSUME NEW b, BusOK(b), NEW i \in DOMAIN b.node, NEW c,
         c = Put(b, i, Disable(b.node[i]), b.syns, b.data, b.settled)
  PROVE  BusOK(c) /\ (Settled(b) => Settled(c)) /\ c.settled = b.settled
<1> DEFINE g == b.node[i]
           n == Disable(g)
<1>1. g \in GeneratorType /\ NodeOK(g)
  BY BusFields DEF BusOK
<1>2. /\ n \in GeneratorType
      /\ n.esp = g.esp /\ n.addr = g.addr /\ ~n.on /\ n.post = g.post
      /\ n.got = g.got /\ n.firing = g.firing /\ n.since = g.since
      /\ n.left = g.left /\ n.every = g.every /\ n.active = g.active
  BY <1>1 DEF Disable, GeneratorType
<1>3. Unique(n) = Unique(g)
  BY <1>2 DEF Unique
<1> HIDE DEF n
<1>4. NodeOK(n)
  BY <1>1, <1>2, <1>3 DEF NodeOK
<1>5. /\ BusOK(c) /\ DOMAIN c.node = DOMAIN b.node /\ c.node[i] = n
      /\ \A j \in DOMAIN b.node : j # i => c.node[j] = b.node[j]
      /\ c.syns = b.syns /\ c.data = b.data /\ c.settled = b.settled
  <2>1. c = Put(b, i, n, b.syns, b.data, b.settled)
    BY DEF n
  <2>2. b.syns \in Nat /\ b.data \in BOOLEAN /\ b.settled \in BOOLEAN
    BY BusFields
  <2>3. QED  BY <1>2, <1>4, <2>1, <2>2, PutKeeps
<1>6. SUFFICES ASSUME Settled(b) PROVE Settled(c)
  BY <1>5
<1>7. ~Listening(n) /\ (Low(n) => Low(g)) /\ ~Generating(n)
  BY <1>2 DEF Low, Listening, Generating
<1>8. Quiet(c) <=> Quiet(b)
  BY <1>2, <1>5 DEF Quiet
<1>9. OneLow(c) /\ OneActive(c)
  BY <1>5, <1>6, <1>7 DEF Settled, Always, OneLow, OneActive
<1>10. SynAwaited(c) /\ OthersWait(c)
  BY <1>2, <1>5, <1>6, <1>7, <1>8, ZenonT(60) DEF Settled, Always, SynAwaited, OthersWait
<1>11. ASSUME Quiet(b)
       PROVE  Counting(c)
  <2>1. InStep(b) /\ JustRead(b) /\ SinceByte(b) /\ PostFirst(b)
    BY <1>6, <1>11 DEF Settled, Counting
  <2>2. InStep(c)
    BY <1>5, <1>7, <2>1 DEF InStep
  <2>3. JustRead(c)
    BY <1>2, <1>5, <1>7, <2>1 DEF JustRead
  <2>4. SinceByte(c)
    BY <1>2, <1>5, <1>7, <2>1 DEF SinceByte
  <2>5. PostFirst(c)
    BY <1>2, <1>5, <1>7, <2>1 DEF PostFirst
  <2>6. QED  BY <2>2, <2>3, <2>4, <2>5 DEF Counting
<1>12. QED  BY <1>8, <1>9, <1>10, <1>11 DEF Settled, Always

\* A timer that is set by hand is set to a time.
LEMMA SetKeeps ==
  ASSUME NEW b, BusOK(b), NEW i \in DOMAIN b.node, NEW n, NEW c,
         n = Enable(b.node[i]) \/ n = Realign(b.node[i]), NEW settled \in BOOLEAN, ~settled,
         c = Put(b, i, n, b.syns, b.data, settled)
  PROVE  BusOK(c) /\ ~c.settled
<1> DEFINE g == b.node[i]
<1> USE Times
<1>1. g \in GeneratorType /\ NodeOK(g)
  BY BusFields DEF BusOK
<1>2. n \in GeneratorType /\ NodeOK(n) /\ n.addr = g.addr
  <2>1. CASE n = Enable(g)
    <3>1. (IF g.esp THEN Unique(g) - (g.every - g.left) ELSE Unique(g)) \in 0..Unique(g)
      BY <1>1, Fields DEF NodeOK
    <3>2. n \in GeneratorType
      <4>1. Unique(g) \in Nat /\ 0..Unique(g) \subseteq Nat
        BY <1>1, Fields
      <4>2. QED  BY <1>1, <2>1, <3>1, <4>1 DEF Enable, Armed, GeneratorType
    <3>3. /\ n.esp = g.esp /\ n.addr = g.addr /\ n.post = g.post /\ n.got = g.got
          /\ n.firing = g.firing /\ n.since = g.since /\ n.every = Unique(g)
      BY <1>1, <2>1 DEF Enable, Armed, GeneratorType
    <3>4. n.left = IF g.esp THEN Unique(g) - (g.every - g.left) ELSE Unique(g)
      BY <1>1, <2>1 DEF Enable, Armed, GeneratorType
    <3>5. Unique(n) = Unique(g)
      BY <3>3 DEF Unique
    <3>6. NodeOK(n)
      BY <1>1, <3>1, <3>3, <3>4, <3>5, Fields DEF NodeOK
    <3>7. QED  BY <3>2, <3>3, <3>6
  <2>2. CASE n = Realign(g)
    <3>1. Unique(g) \in Nat /\ 0 \in 0..CarrierSense /\ Base \in Nat
      BY <1>1, Fields
    <3> DEFINE r == [g EXCEPT !.since = 0]
    <3>2. /\ r \in GeneratorType /\ r.addr = g.addr /\ r.esp = g.esp /\ r.post = g.post
          /\ Unique(r) = Unique(g)
      BY <1>1, <3>1 DEF GeneratorType, Unique
    <3> HIDE DEF r
    <3>3. n \in GeneratorType
      BY <1>1, <2>2, <3>1, <3>2 DEF r, Realign, ResetSynTimer, Armed, GeneratorType
    <3>4. n.addr = g.addr /\ n.esp = g.esp /\ n.post = g.post
      BY <1>1, <2>2, <3>2 DEF r, Realign, ResetSynTimer, Armed, GeneratorType
    <3>5. g.esp => /\ n.left = Unique(g) /\ n.every = Unique(g) /\ n.since = g.since
                   /\ n.got = g.got /\ n.firing = g.firing
      BY <1>1, <2>2 DEF Realign, Armed, GeneratorType
    <3>6. Unique(n) = Unique(g)
      BY <3>4 DEF Unique
    <3>7. NodeOK(n)
      BY <1>1, <3>1, <3>4, <3>5, <3>6 DEF NodeOK
    <3>8. QED  BY <3>3, <3>4, <3>7
  <2>3. QED  BY <2>1, <2>2
<1>3. b.syns \in Nat /\ b.data \in BOOLEAN
  BY BusFields
<1>4. BusOK(c) /\ c.settled = settled
  BY <1>2, <1>3, PutKeeps
<1>5. QED  BY <1>4

-----------------------------------------------------------------------------
(* A byte time.                                                            *)

\* Node n is g a byte time later, with byte to read.
Ticked(g, n, byte) ==
  /\ n \in GeneratorType
  /\ n.esp = g.esp /\ n.addr = g.addr /\ n.on = g.on
  /\ n.every = g.every /\ n.active = g.active /\ n.firing = g.firing
  /\ n.got = byte
  /\ n.left <= g.left /\ (g.on /\ g.left > 0 => n.left = g.left - 1)
  /\ n.post = IF g.post > 0 THEN g.post - 1 ELSE g.post
  /\ g.esp /\ byte # "none" => n.since = 0
  /\ ~(g.esp /\ byte # "none") =>
       n.since = IF g.since < CarrierSense THEN g.since + 1 ELSE g.since
  /\ Unique(n) = Unique(g)

\* Bus c is b a byte time later.
BusTicked(b, c, byte) ==
  /\ BusOK(b) /\ BusOK(c) /\ DOMAIN c.node = DOMAIN b.node
  /\ \A j \in DOMAIN b.node :
       /\ Ticked(b.node[j], c.node[j], byte)
       /\ b.node[j].got = "none" /\ ~b.node[j].firing /\ b.node[j].post # 0
       /\ b.node[j].on => b.node[j].left > 0
  /\ Quiet(c)

\* What a byte time does to a bus.
LEMMA BusTickFields ==
  ASSUME NEW b, BusOK(b), Over(b), NEW byte \in Heardable, NEW c, c = BusTick(b, byte)
  PROVE  /\ BusTicked(b, c, byte)
         /\ c.settled <=> \/ b.settled
                          \/ byte = "data" /\ \A j \in DOMAIN c.node : ~Uncancelled(c.node[j])
<1> USE Times
<1> DEFINE node == [j \in DOMAIN b.node |-> TimerTick(b.node[j], byte)]
           settled == \/ b.settled
                      \/ byte = "data" /\ \A j \in DOMAIN node : ~Uncancelled(node[j])
<1>1. b.node \in Seq(GeneratorType)
  BY DEF BusOK, BusType
<1>2. \A j \in DOMAIN b.node : Ticked(b.node[j], TimerTick(b.node[j], byte), byte)
  BY BusFields, TickFields DEF Ticked
<1>3. c.node = node /\ c.syns = 0 /\ c.data = FALSE /\ c.settled = settled
  BY DEF BusTick
<1>4. /\ DOMAIN c.node = DOMAIN b.node
      /\ \A j \in DOMAIN b.node : Ticked(b.node[j], c.node[j], byte)
  BY <1>2, <1>3
<1>5. c.settled <=> \/ b.settled
                    \/ byte = "data" /\ \A j \in DOMAIN c.node : ~Uncancelled(c.node[j])
  BY <1>3
<1>6. c \in BusType
  <2>1. node \in Seq(GeneratorType)
    <3>1. PICK m \in Nat : DOMAIN b.node = 1..m
      BY <1>1
    <3>2. node \in [1..m -> GeneratorType]
      BY <1>2, <3>1 DEF Ticked
    <3>3. QED  BY <3>1, <3>2
  <2>2. settled \in BOOLEAN
    BY BusFields
  <2> HIDE DEF node, settled
  <2>3. c = [node |-> node, syns |-> 0, data |-> FALSE, settled |-> settled]
    BY DEF BusTick, node, settled
  <2>4. QED  BY <2>1, <2>2, <2>3 DEF BusType
<1>7. BusOK(c)
  <2>1. \A j \in DOMAIN c.node : NodeOK(c.node[j])
    <3>1. SUFFICES ASSUME NEW j \in DOMAIN b.node PROVE NodeOK(c.node[j])
      BY <1>4
    <3>2. Ticked(b.node[j], c.node[j], byte) /\ NodeOK(b.node[j])
      BY <1>4 DEF BusOK
    <3>3. b.node[j] \in GeneratorType /\ c.node[j] \in GeneratorType
      BY <3>2, BusFields DEF Ticked
    <3>4. QED  BY <3>2, <3>3, Fields DEF NodeOK, Ticked
  <2>2. \A j, k \in DOMAIN c.node : c.node[j].addr = c.node[k].addr => j = k
    BY <1>4 DEF BusOK, Ticked
  <2>3. QED  BY <1>6, <2>1, <2>2 DEF BusOK
<1>8. ASSUME NEW j \in DOMAIN b.node
      PROVE  /\ b.node[j].got = "none" /\ ~b.node[j].firing /\ b.node[j].post # 0
             /\ b.node[j].on => b.node[j].left > 0
  BY <1>8, BusFields DEF Over, Due
<1>9. Quiet(c)
  BY <1>3, <1>4, <1>8 DEF Quiet, Ticked
<1>10. QED  BY <1>4, <1>5, <1>7, <1>8, <1>9 DEF BusTicked

\* A byte of a telegram that cancels all alarms settles the bus.
LEMMA DataSettles ==
  ASSUME NEW b, NEW c, NEW byte, byte = "data", BusTicked(b, c, byte),
         \A j \in DOMAIN c.node : ~Uncancelled(c.node[j])
  PROVE  Settled(c)
<1> USE Times
<1>1. \A j \in DOMAIN c.node :
        c.node[j].got = "data" /\ ~c.node[j].firing /\ NodeOK(c.node[j])
  BY DEF BusTicked, Ticked, BusOK
<1>2. \A j \in DOMAIN c.node : ~Listening(c.node[j]) /\ ~Generating(c.node[j])
  BY <1>1 DEF Listening, Generating
<1>3. \A j \in DOMAIN c.node : ~Low(c.node[j]) /\ c.node[j].post = NoAlarm
  BY <1>1, <1>2 DEF Low, Uncancelled, Due, NodeOK
<1>4. Quiet(c)
  BY DEF BusTicked
<1>5. OneLow(c) /\ OneActive(c) /\ SynAwaited(c) /\ OthersWait(c)
  BY <1>1, <1>2, <1>3, <1>4 DEF OneLow, OneActive, SynAwaited, OthersWait
<1>6. InStep(c) /\ JustRead(c) /\ SinceByte(c) /\ PostFirst(c)
  BY <1>1, <1>2, <1>3 DEF InStep, JustRead, SinceByte, PostFirst
<1>7. QED  BY <1>5, <1>6 DEF Settled, Always, Counting

\* A byte, while a node or another device writes, keeps the bus settled.
LEMMA ByteKeeps ==
  ASSUME NEW b, NEW c, NEW byte \in {"syn", "data"}, BusTicked(b, c, byte),
         Settled(b), byte = "syn" => ~Quiet(b) /\ ~b.data
  PROVE  Settled(c)
<1> USE Times
<1>1. ASSUME NEW j \in DOMAIN c.node
      PROVE  /\ ~Listening(c.node[j])
             /\ c.node[j].got = byte
             /\ c.node[j].post # NoAlarm => b.node[j].post # NoAlarm
             /\ Generating(c.node[j]) => Generating(b.node[j])
             /\ c.node[j].on => Listening(b.node[j]) /\ c.node[j].left = b.node[j].left - 1
  BY <1>1, BusFields DEF BusTicked, Ticked, Listening, Generating
<1>2. \A j \in DOMAIN c.node : Low(c.node[j]) => Low(b.node[j])
  BY <1>1, BusFields DEF BusTicked, Low
<1>3. Quiet(c) /\ DOMAIN c.node = DOMAIN b.node
  BY DEF BusTicked
<1>4. OneLow(c) /\ OneActive(c)
  BY <1>1, <1>2, <1>3 DEF Settled, Always, OneLow, OneActive
<1>5. SynAwaited(c)
  <2>1. SUFFICES ASSUME NEW j \in DOMAIN c.node, c.node[j].on, byte = "syn"
                 PROVE  c.node[j].left > 0
    BY <1>1 DEF SynAwaited
  <2>2. b.node[j].left > 1 \/ b.node[j].firing
    BY <1>1, <1>3, <2>1 DEF Settled, Always, OthersWait
  <2>3. ~b.node[j].firing /\ b.node[j].left \in Nat
    BY <1>3, BusFields DEF BusTicked
  <2>4. QED  BY <1>1, <2>1, <2>2, <2>3
<1>6. OthersWait(c)
  BY <1>3 DEF OthersWait
<1>7. InStep(c) /\ JustRead(c) /\ SinceByte(c)
  BY <1>1 DEF InStep, JustRead, SinceByte
<1>8. PostFirst(c)
  BY <1>1 DEF PostFirst
<1>9. QED  BY <1>4, <1>5, <1>6, <1>7, <1>8 DEF Settled, Always, Counting

\* A byte time in which nothing is written keeps the bus settled.
LEMMA SilenceKeeps ==
  ASSUME NEW b, NEW c, NEW byte, byte = "none", BusTicked(b, c, byte),
         Settled(b), Quiet(b)
  PROVE  Settled(c)
<1> USE Times
<1>1. DOMAIN c.node = DOMAIN b.node /\ BusOK(b) /\ Quiet(c)
  BY DEF BusTicked
<1>2. ASSUME NEW j \in DOMAIN b.node
      PROVE  LET g == b.node[j]
                 n == c.node[j]
             IN  /\ n.on = g.on /\ n.active = g.active /\ n.got = "none" /\ g.got = "none"
                 /\ g.on => /\ g.left > 0 /\ n.left = g.left - 1
                            /\ Listening(g) /\ Listening(n)
                 /\ n.post # NoAlarm => g.post > 0 /\ n.post = g.post - 1
                 /\ n.since = IF g.since < CarrierSense THEN g.since + 1 ELSE g.since
                 /\ Unique(n) = Unique(g)
  <2> DEFINE g == b.node[j]
             n == c.node[j]
  <2>1. /\ n.on = g.on /\ n.active = g.active /\ n.got = "none" /\ Unique(n) = Unique(g)
        /\ g.on /\ g.left > 0 => n.left = g.left - 1
        /\ n.post = IF g.post > 0 THEN g.post - 1 ELSE g.post
        /\ n.since = IF g.since < CarrierSense THEN g.since + 1 ELSE g.since
    BY <1>2 DEF BusTicked, Ticked
  <2>2. g.got = "none" /\ g.post # 0 /\ (g.on => g.left > 0)
    BY <1>2 DEF BusTicked
  <2>3. g.post \in -1..Postpone
    BY <1>1, <1>2, BusFields
  <2> HIDE DEF g, n
  <2>4. /\ n.on = g.on /\ n.active = g.active /\ n.got = "none" /\ g.got = "none"
        /\ g.on => /\ g.left > 0 /\ n.left = g.left - 1
                   /\ Listening(g) /\ Listening(n)
        /\ n.post # NoAlarm => g.post > 0 /\ n.post = g.post - 1
        /\ n.since = IF g.since < CarrierSense THEN g.since + 1 ELSE g.since
        /\ Unique(n) = Unique(g)
    BY <2>1, <2>2, <2>3 DEF Listening
  <2>5. QED  BY <2>4 DEF g, n
<1>3. InStep(b) /\ SinceByte(b) /\ PostFirst(b) /\ OneLow(b) /\ OneActive(b)
  BY DEF Settled, Counting, Always
<1>4. \A j \in DOMAIN b.node :
        /\ Target(c.node[j]) = Target(b.node[j])
        /\ Generating(c.node[j]) <=> b.node[j].on /\ b.node[j].active
        /\ Generating(b.node[j]) <=> b.node[j].on /\ b.node[j].active
        /\ Listening(c.node[j]) => Listening(b.node[j]) /\ b.node[j].on
  BY <1>2 DEF Target, Generating, Listening
<1>5. InStep(c)
  BY <1>1, <1>2, <1>3, <1>4, BusFields DEF InStep
<1>6. JustRead(c)
  BY <1>1, <1>2 DEF JustRead
<1>7. SinceByte(c)
  BY <1>1, <1>2, <1>3, <1>4, BusFields DEF SinceByte
<1>8. PostFirst(c)
  BY <1>1, <1>2, <1>3, <1>4, BusFields DEF PostFirst
<1>9. ASSUME NEW j \in DOMAIN b.node, NEW k \in DOMAIN b.node, j # k,
             Listening(c.node[j]), c.node[j].left <= 1, Listening(c.node[k])
      PROVE  c.node[k].left > 1 /\ ~Generating(c.node[k])
  <2>1. /\ b.node[j].on /\ b.node[k].on /\ b.node[j].left \in 1..2
        /\ b.node[k].left \in Nat /\ b.node[k].left > 0
        /\ c.node[k].left = b.node[k].left - 1
    <3>1. b.node[j].on /\ b.node[k].on
      BY <1>4, <1>9
    <3>2. /\ b.node[j].left > 0 /\ c.node[j].left = b.node[j].left - 1
          /\ b.node[k].left > 0 /\ c.node[k].left = b.node[k].left - 1
      BY <1>2, <1>9, <3>1
    <3>3. b.node[j].left \in Nat /\ b.node[k].left \in Nat
      BY <1>1, <1>9, BusFields
    <3>4. QED  BY <1>9, <3>1, <3>2, <3>3
  <2>2. b.node[j].left + Target(b.node[k]) = b.node[k].left + Target(b.node[j])
    BY <1>3, <1>4, <1>9 DEF InStep
  <2>3. ~(b.node[j].active /\ b.node[k].active)
    BY <1>3, <1>4, <1>9, <2>1 DEF OneActive
  <2>4. /\ Target(b.node[j]) = IF b.node[j].active THEN Base ELSE Unique(b.node[j])
        /\ Target(b.node[k]) = IF b.node[k].active THEN Base ELSE Unique(b.node[k])
    BY DEF Target
  <2>5. /\ Unique(b.node[j]) \in Nat /\ Unique(b.node[j]) >= Base + 2
        /\ Unique(b.node[k]) \in Nat /\ Unique(b.node[k]) >= Base + 2
        /\ \/ Unique(b.node[j]) >= Unique(b.node[k]) + 2
           \/ Unique(b.node[k]) >= Unique(b.node[j]) + 2
    BY <1>1, <1>9, BusFields
  <2>6. b.node[k].left > 2 /\ ~b.node[k].active
    BY <2>1, <2>2, <2>3, <2>4, <2>5
  <2>7. QED  BY <1>4, <2>1, <2>6
<1>10. ASSUME NEW j \in DOMAIN b.node, NEW k \in DOMAIN b.node,
              c.node[j].post # NoAlarm, Listening(c.node[k])
       PROVE  c.node[k].left > 1 /\ Low(b.node[j])
  BY <1>1, <1>2, <1>3, <1>4, <1>10, BusFields DEF PostFirst, Low
<1>11. \A j \in DOMAIN c.node :
         Low(c.node[j]) <=>
           \/ c.node[j].post # NoAlarm
           \/ Listening(c.node[j]) /\ c.node[j].left <= 1
  BY <1>1, <1>2 DEF Low
<1>12. \A j \in DOMAIN c.node : c.node[j].post # NoAlarm => Low(b.node[j])
  BY <1>1, <1>2 DEF Low
<1>13. ASSUME NEW j \in DOMAIN c.node, Listening(c.node[j])
       PROVE  c.node[j].left \in Nat
  BY <1>13, BusFields DEF BusTicked
<1>14. OneLow(c)
  <2>1. SUFFICES ASSUME NEW j \in DOMAIN c.node, NEW k \in DOMAIN c.node, j # k,
                        Low(c.node[j]), Low(c.node[k])
                 PROVE  FALSE
    BY DEF OneLow
  <2>2. CASE c.node[j].post # NoAlarm /\ c.node[k].post # NoAlarm
    BY <1>1, <1>3, <1>12, <2>1, <2>2 DEF OneLow
  <2>3. CASE c.node[j].post # NoAlarm /\ Listening(c.node[k]) /\ c.node[k].left <= 1
    BY <1>1, <1>10, <1>13, <2>3
  <2>4. CASE c.node[k].post # NoAlarm /\ Listening(c.node[j]) /\ c.node[j].left <= 1
    BY <1>1, <1>10, <1>13, <2>4
  <2>5. CASE /\ Listening(c.node[j]) /\ c.node[j].left <= 1
             /\ Listening(c.node[k]) /\ c.node[k].left <= 1
    BY <1>1, <1>9, <1>13, <2>1, <2>5
  <2>6. QED  BY <1>11, <2>1, <2>2, <2>3, <2>4, <2>5
<1>15. OneActive(c)
  <2>1. SUFFICES ASSUME NEW k \in DOMAIN c.node, NEW j \in DOMAIN c.node, j # k,
                        Generating(c.node[k]), Generating(c.node[j]) \/ Low(c.node[j])
                 PROVE  FALSE
    BY DEF OneActive
  <2>2. Generating(b.node[k]) /\ Listening(c.node[k])
    BY <1>1, <1>2, <1>4, <2>1
  <2>3. CASE Generating(c.node[j]) \/ c.node[j].post # NoAlarm
    BY <1>1, <1>3, <1>4, <1>12, <2>1, <2>2, <2>3 DEF OneActive
  <2>4. CASE Listening(c.node[j]) /\ c.node[j].left <= 1
    BY <1>1, <1>9, <2>1, <2>2, <2>4
  <2>5. QED  BY <1>11, <2>1, <2>3, <2>4
<1>16. SynAwaited(c) /\ OthersWait(c)
  BY <1>1, <1>2 DEF SynAwaited, OthersWait
<1>17. QED  BY <1>5, <1>6, <1>7, <1>8, <1>14, <1>15, <1>16 DEF Settled, Always, Counting

\* A byte time keeps the bus settled.
LEMMA TickKeeps ==
  ASSUME NEW b, BusInv(b), Over(b), NEW byte \in Heard(b), NEW c, c = BusTick(b, byte)
  PROVE  BusInv(c)
<1>1. byte \in Heardable
  BY DEF Heard, Heardable
<1>2. /\ BusTicked(b, c, byte)
      /\ c.settled <=> \/ b.settled
                       \/ byte = "data" /\ \A j \in DOMAIN c.node : ~Uncancelled(c.node[j])
  BY <1>1, BusTickFields DEF BusInv
<1>3. BusOK(b) /\ BusOK(c)
  BY <1>2 DEF BusTicked
<1>4. ASSUME b.settled PROVE Settled(c)
  <2>1. Settled(b)
    BY <1>4 DEF BusInv
  <2>2. CASE byte = "none"
    <3>1. Quiet(b)
      BY <1>2, <2>2 DEF Heard, Quiet, BusTicked
    <3>2. QED  BY <1>2, <2>1, <2>2, <3>1, SilenceKeeps
  <2>3. CASE byte # "none"
    <3>1. byte \in {"syn", "data"}
      BY <1>1, <2>3 DEF Heardable
    <3>2. byte = "syn" => ~Quiet(b) /\ ~b.data
      BY DEF Heard, Quiet
    <3>3. QED  BY <1>2, <2>1, <3>1, <3>2, ByteKeeps
  <2>4. QED  BY <2>2, <2>3
<1>5. QED  BY <1>2, <1>3, <1>4, DataSettles DEF BusInv

SynInv == unit = "syn" => BusInv(x)

\* A bus of new generators is not settled.
LEMMA NewBusOK ==
  ASSUME NEW nodes \in Generators
  PROVE  BusInv(NewBus(nodes))
<1> DEFINE b == NewBus(nodes)
<1>1. /\ nodes \in Seq(NewGenerators)
      /\ \A i, j \in DOMAIN nodes : nodes[i].addr = nodes[j].addr => i = j
  BY UnitsAssumption
<1>2. b.node = nodes /\ b.settled = FALSE
  BY DEF NewBus
<1>3. ASSUME NEW esp \in BOOLEAN, NEW addr \in Byte
      PROVE  /\ NewGenerator(esp, addr) \in GeneratorType
             /\ NodeOK(NewGenerator(esp, addr))
  <2> DEFINE g == NewGenerator(esp, addr)
             unique == Base + Factor * addr + Tolerance
  <2>1. addr \in Nat /\ Factor * addr \in Nat
    BY Times DEF Byte
  <2>2. unique \in Nat
    BY <2>1, Times
  <2>3. g = [esp |-> esp, addr |-> addr, on |-> FALSE, left |-> unique,
             every |-> unique, active |-> FALSE, since |-> CarrierSense,
             firing |-> FALSE, post |-> NoAlarm, got |-> "none"]
    BY DEF NewGenerator
  <2>4. Unique(g) = unique
    BY <2>3 DEF Unique
  <2> HIDE DEF g, unique
  <2>5. g \in GeneratorType
    BY <2>1, <2>2, <2>3, Times DEF GeneratorType, Heardable
  <2>6. NodeOK(g)
    BY <2>2, <2>3, <2>4 DEF NodeOK
  <2>7. QED  BY <2>5, <2>6 DEF g
<1>4. \A g \in NewGenerators : g \in GeneratorType /\ NodeOK(g)
  BY <1>3 DEF NewGenerators
<1>5. nodes \in Seq(GeneratorType) /\ \A i \in DOMAIN nodes : NodeOK(nodes[i])
  BY <1>1, <1>4
<1>6. b \in BusType
  BY <1>5 DEF NewBus, BusType
<1>7. QED  BY <1>1, <1>2, <1>5, <1>6 DEF BusInv, BusOK

\* The initial states have a bus of new generators.
LEMMA SynInit ==
  ASSUME PlainInit
  PROVE  SynInv
BY NewBusOK DEF PlainInit, SynInv

\* A bus with another node.
LEMMA AtPut ==
  ASSUME NEW b, BusOK(b), NEW i, NEW n
  PROVE  [b EXCEPT !.node[i] = n] = Put(b, i, n, b.syns, b.data, b.settled)
<1>1. b = [node |-> b.node, syns |-> b.syns, data |-> b.data, settled |-> b.settled]
  BY DEF BusOK, BusType
<1>2. QED  BY <1>1 DEF Put

\* Every step of the bus keeps it in order, and settled if it was.
LEMMA SynNext ==
  ASSUME SynInv, [PlainNext]_vars
  PROVE  SynInv'
<1>1. CASE UNCHANGED vars
  BY <1>1 DEF SynInv, vars
<1>2. SUFFICES ASSUME PlainNext, unit = "syn", unit' = unit, BusInv(x)
               PROVE  BusInv(x')
  BY <1>1, Zenon
     DEF SynInv, PlainNext, MoreBytes, MoreExchange, CutExchange, MoreData, Send, FlushSome,
         Wait, Fetch, ResetAll, ReadWire, Expire, WriteSyn, Transmit, Configure,
         PassByteTime, Of
<1> DEFINE b == x
           c == x'
<1>3. \/ ReadWire \/ Expire \/ WriteSyn \/ Transmit \/ Configure \/ PassByteTime
  BY <1>2
     DEF PlainNext, MoreBytes, MoreExchange, CutExchange, MoreData, Send, FlushSome, Wait,
         Fetch, ResetAll, Of
<1>4. BusOK(b) /\ (b.settled => Settled(b))
  BY <1>2 DEF BusInv
<1>5. CASE ReadWire
  <2>1. PICK i \in DOMAIN b.node : b.node[i].got # "none" /\ AtNode(i, ReadByte(b.node[i]))
    BY <1>5 DEF ReadWire
  <2>2. c = Put(b, i, ReadByte(b.node[i]), b.syns, b.data, b.settled)
    BY <1>4, <2>1, AtPut DEF AtNode
  <2>3. QED  BY <1>4, <2>1, <2>2, ReadKeeps DEF BusInv
<1>6. CASE Expire
  <2>1. PICK i \in DOMAIN b.node : Due(b.node[i]) /\ c = Expired(b, i)
    BY <1>6 DEF Expire
  <2>2. CASE ~b.node[i].esp
    <3>1. c = Put(b, i, PosixExpired(b, b.node[i]), b.syns, b.data, b.settled)
      <4> DEFINE n == PosixExpired(b, b.node[i])
      <4>1. c = [b EXCEPT !.node[i] = n]
        BY <2>1, <2>2 DEF Expired
      <4> HIDE DEF n
      <4>2. QED  BY <1>4, <4>1, AtPut DEF n
    <3>2. QED  BY <1>4, <2>1, <2>2, <3>1, PosixKeeps DEF BusInv
  <2>3. CASE b.node[i].esp /\ Carrier(b, b.node[i])
    <3>1. c = Put(b, i, EspExpired(b, b.node[i]), b.syns, b.data, b.settled)
      <4> DEFINE n == EspExpired(b, b.node[i])
                 d == [b EXCEPT !.node[i] = n]
      <4>1. c = [d EXCEPT !.syns = b.syns]
        BY <2>1, <2>3 DEF Expired
      <4> HIDE DEF n
      <4>2. d = Put(b, i, n, b.syns, b.data, b.settled)
        BY <1>4, AtPut
      <4> HIDE DEF d
      <4>3. QED  BY <4>1, <4>2 DEF n, Put
    <3>2. QED  BY <1>4, <2>1, <2>3, <3>1, PostponeKeeps DEF BusInv
  <2>4. CASE b.node[i].esp /\ ~Carrier(b, b.node[i])
    <3>1. c = Put(b, i, EspExpired(b, b.node[i]), b.syns + 1, b.data, b.settled)
      <4> DEFINE n == EspExpired(b, b.node[i])
                 d == [b EXCEPT !.node[i] = n]
      <4>1. c = [d EXCEPT !.syns = b.syns + 1]
        BY <2>1, <2>4 DEF Expired
      <4> HIDE DEF n
      <4>2. d = Put(b, i, n, b.syns, b.data, b.settled)
        BY <1>4, AtPut
      <4> HIDE DEF d
      <4>3. QED  BY <4>1, <4>2 DEF n, Put
    <3>2. QED  BY <1>4, <2>1, <2>4, <3>1, AlarmKeeps DEF BusInv
  <2>5. QED  BY <2>2, <2>3, <2>4
<1>7. CASE WriteSyn
  <2>1. PICK i \in DOMAIN b.node : b.node[i].firing /\ c = SynWritten(b, i)
    BY <1>7 DEF WriteSyn
  <2> DEFINE n == [WriteByte(b.node[i], "syn") EXCEPT !.firing = FALSE]
             d == [b EXCEPT !.node[i] = n]
  <2>2. c = Put(b, i, n, b.syns + 1, b.data, b.settled)
    <3>1. c = [d EXCEPT !.syns = b.syns + 1]
      BY <2>1 DEF SynWritten
    <3> HIDE DEF n
    <3>2. d = Put(b, i, n, b.syns, b.data, b.settled)
      BY <1>4, AtPut
    <3> HIDE DEF d
    <3>3. QED  BY <3>1, <3>2 DEF Put
  <2>3. Wrote(b.node[i], n) /\ ~n.firing
    BY <1>4, BusFields, WrittenFields
  <2> HIDE DEF n
  <2>4. QED  BY <1>4, <2>1, <2>2, <2>3, WrittenKeeps DEF BusInv
<1>8. CASE Transmit
  <2>1. CASE c = [b EXCEPT !.data = TRUE]
    BY <1>4, <2>1, ForeignKeeps DEF BusInv
  <2>2. ASSUME NEW i \in DOMAIN b.node,
               c = [b EXCEPT !.data = TRUE, !.node[i] = WriteByte(@, "data")]
        PROVE  BusInv(c)
    <3> DEFINE n == WriteByte(b.node[i], "data")
               data == TRUE
               d == [b EXCEPT !.node[i] = n]
    <3>1. c = Put(b, i, n, b.syns, data, b.settled) /\ c.data /\ data \in BOOLEAN
      <4>1. c = [d EXCEPT !.data = data]
        BY <1>4, <2>2 DEF BusOK, BusType
      <4>2. data \in BOOLEAN /\ (c.data = data => c.data)
        OBVIOUS
      <4> HIDE DEF data, n
      <4>3. d = Put(b, i, n, b.syns, b.data, b.settled)
        BY <1>4, AtPut
      <4> HIDE DEF d
      <4>4. c = Put(b, i, n, b.syns, data, b.settled)
        BY ONLY <4>1, <4>3 DEF Put
      <4>5. c.data = data
        BY <4>4 DEF Put
      <4>6. QED  BY <4>2, <4>4, <4>5
    <3>2. Wrote(b.node[i], n) /\ n.firing = b.node[i].firing
      BY <1>4, BusFields, WriteFields
    <3> HIDE DEF n, data
    <3>3. QED  BY <1>4, <2>2, <3>1, <3>2, TransmitKeeps DEF BusInv
  <2>3. QED  BY <1>8, <2>1, <2>2 DEF Transmit
<1>9. CASE Configure
  <2>1. PICK i \in DOMAIN b.node :
          \/ Set(i, Realign(b.node[i])) \/ Set(i, Enable(b.node[i]))
          \/ AtNode(i, Disable(b.node[i]))
    BY <1>9 DEF Configure
  <2>2. CASE AtNode(i, Disable(b.node[i]))
    <3>1. c = Put(b, i, Disable(b.node[i]), b.syns, b.data, b.settled)
      BY <1>4, <2>2, AtPut DEF AtNode
    <3>2. QED  BY <1>4, <3>1, DisableKeeps DEF BusInv
  <2>3. ASSUME NEW n, Set(i, n), n = Enable(b.node[i]) \/ n = Realign(b.node[i])
        PROVE  BusInv(c)
    <3> DEFINE settled == FALSE
               d == [b EXCEPT !.node[i] = n]
    <3>1. c = Put(b, i, n, b.syns, b.data, settled) /\ settled \in BOOLEAN /\ ~settled
      <4>1. c = [d EXCEPT !.settled = settled]
        BY <2>3 DEF Set
      <4>2. settled \in BOOLEAN /\ ~settled
        OBVIOUS
      <4> HIDE DEF settled
      <4>3. d = Put(b, i, n, b.syns, b.data, b.settled)
        BY <1>4, AtPut
      <4> HIDE DEF d
      <4>4. c = Put(b, i, n, b.syns, b.data, settled)
        BY ONLY <4>1, <4>3 DEF Put
      <4>5. QED  BY <4>2, <4>4
    <3> HIDE DEF settled
    <3>2. BusOK(c) /\ ~c.settled
      BY <1>4, <2>3, <3>1, SetKeeps
    <3>3. QED  BY <3>2 DEF BusInv
  <2>4. QED  BY <2>1, <2>2, <2>3
<1>10. CASE PassByteTime
  <2>1. PICK byte \in Heard(b) : c = BusTick(b, byte)
    BY <1>10 DEF PassByteTime
  <2>2. Over(b)
    BY <1>10 DEF PassByteTime
  <2>3. QED  BY <1>2, <2>1, <2>2, TickKeeps
<1>11. QED  BY <1>3, <1>5, <1>6, <1>7, <1>8, <1>9, <1>10

\* One node at most of a settled bus generates the SYNs.
LEMMA SettledOne ==
  ASSUME NEW b, BusInv(b), b.settled, \A i \in DOMAIN b.node : b.node[i].got = "none"
  PROVE  Cardinality({i \in DOMAIN b.node : b.node[i].on /\ b.node[i].active}) <= 1
<1> DEFINE S == {i \in DOMAIN b.node : b.node[i].on /\ b.node[i].active}
<1>1. OneActive(b)
  BY DEF BusInv, Settled, Always
<1>2. \A i, j \in S : i = j
  BY <1>1 DEF OneActive, Generating
<1>3. CASE S = {}
  BY <1>3, FS_EmptySet
<1>4. CASE S # {}
  <2>1. PICK i : i \in S
    BY <1>4
  <2>2. S = {i}
    BY <1>2, <2>1
  <2>3. Cardinality({i}) = 1
    BY FS_Singleton
  <2>4. QED  BY <2>2, <2>3
<1>5. QED  BY <1>3, <1>4

\* OneGenerator (syn_active_ of the SYN generators of the two drivers) for any
\* number of nodes: on a bus that a telegram byte has settled, which it does
\* only if it finds no ESP32 alarm due or postponed.
THEOREM OneGeneratorSpec == PlainSpec => []OneGenerator
<1>1. SynInv => OneGenerator
  BY SettledOne DEF SynInv, OneGenerator
<1>2. QED  BY <1>1, SynInit, SynNext, PTL DEF PlainSpec

-----------------------------------------------------------------------------
(* The congestion alarm.                                                   *)

MonitorType ==
  [now : Nat, start : Nat, low : Nat, since : Nat \cup {Unset}, active : BOOLEAN]

AlarmType ==
  [b : MonitorType, first : Nat \cup {Unset}, last : Nat \cup {Unset}, long : BOOLEAN]

\* The starting point of the alarm lies in the row of calls, which an alarm
\* that is raised outlasts.
AlarmOK(a) ==
  /\ a \in AlarmType
  /\ a.first # Unset => a.last # Unset /\ a.first <= a.last /\ a.last <= a.b.now
  /\ a.b.since # Unset => a.first # Unset /\ a.first <= a.b.since
  /\ a.b.active => a.first # Unset /\ (a.long \/ a.last - a.first >= Detection)

AlarmInv == unit = "alarm" => AlarmOK(x)

\* What fetchMetrics does to the monitor.
LEMMA FetchFields ==
  ASSUME NEW b \in MonitorType, b.now # b.start
  PROVE  LET n == FetchMetrics(b)
         IN  /\ n \in MonitorType /\ n.now = b.now
             /\ ~Congested(b) => n.since = Unset /\ ~n.active
             /\ Congested(b) =>
                  /\ n.since = b.since \/ (b.since = Unset /\ n.since = b.now)
                  /\ n.active => \/ b.active
                                 \/ b.now - b.start >= Detection
                                 \/ b.since # Unset /\ b.now - b.since >= Detection
<1> DEFINE n == FetchMetrics(b)
<1>1. n \in MonitorType
  BY DEF FetchMetrics, Calmed, MonitorType
<1>2. n.now = b.now /\ (~Congested(b) => n.since = Unset /\ ~n.active)
  BY DEF FetchMetrics, Calmed, MonitorType
<1>3. Congested(b) => n.since = b.since \/ (b.since = Unset /\ n.since = b.now)
  BY DEF FetchMetrics, MonitorType
<1>4. Congested(b) /\ n.active =>
         \/ b.active
         \/ b.now - b.start >= Detection
         \/ b.since # Unset /\ b.now - b.since >= Detection
  BY DEF FetchMetrics, MonitorType
<1>5. QED  BY <1>1, <1>2, <1>3, <1>4

\* What the clock and a reset of the metrics do to the monitor.
LEMMA ElapseFields ==
  ASSUME NEW b \in MonitorType, NEW low \in {0, 1}, NEW n,
         n = Elapse(b, low) \/ n = ResetMetrics(b)
  PROVE  n \in MonitorType /\ n.now >= b.now /\ n.since = b.since /\ n.active = b.active
<1>1. b.now \in Nat /\ b.now + 1 \in Nat /\ b.low + low \in Nat
  BY DEF MonitorType
<1>2. CASE n = Elapse(b, low)
  <2>1. n \in MonitorType
    BY <1>1, <1>2 DEF Elapse, MonitorType
  <2>2. n.now = b.now + 1 /\ n.since = b.since /\ n.active = b.active
    BY <1>2 DEF Elapse, MonitorType
  <2>3. QED  BY <1>1, <2>1, <2>2
<1>3. CASE n = ResetMetrics(b)
  <2>1. n \in MonitorType
    BY <1>1, <1>3 DEF ResetMetrics, MonitorType
  <2>2. n.now = b.now /\ n.since = b.since /\ n.active = b.active
    BY <1>3 DEF ResetMetrics, MonitorType
  <2>3. QED  BY <1>1, <2>1, <2>2
<1>4. QED  BY <1>2, <1>3

\* A call of fetchMetrics.
LEMMA FetchKeeps ==
  ASSUME NEW a, AlarmOK(a), a.b.now # a.b.start, NEW c,
         c = IF Congested(a.b)
             THEN [b     |-> FetchMetrics(a.b),
                   first |-> IF a.first = Unset THEN a.b.now ELSE a.first,
                   last  |-> a.b.now,
                   long  |-> a.long \/ a.b.now - a.b.start >= Detection]
             ELSE [NewAlarm EXCEPT !.b = FetchMetrics(a.b)]
  PROVE  AlarmOK(c)
<1> DEFINE n == FetchMetrics(a.b)
<1>1. /\ a.b \in MonitorType /\ a.first \in Nat \cup {Unset} /\ a.last \in Nat \cup {Unset}
      /\ a.long \in BOOLEAN /\ a.b.now \in Nat /\ a.b.since \in Nat \cup {Unset}
  BY DEF AlarmOK, AlarmType, MonitorType
<1>2. /\ n \in MonitorType /\ n.now = a.b.now
      /\ ~Congested(a.b) => n.since = Unset /\ ~n.active
      /\ Congested(a.b) =>
           /\ n.since = a.b.since \/ (a.b.since = Unset /\ n.since = a.b.now)
           /\ n.active => \/ a.b.active
                          \/ a.b.now - a.b.start >= Detection
                          \/ a.b.since # Unset /\ a.b.now - a.b.since >= Detection
  BY <1>1, FetchFields
<1> HIDE DEF n
<1>3. CASE ~Congested(a.b)
  <2>1. c = [b |-> n, first |-> Unset, last |-> Unset, long |-> FALSE]
    BY <1>3 DEF NewAlarm, n
  <2>2. c \in AlarmType
    BY ONLY <1>2, <2>1 DEF AlarmType
  <2>3. c.b = n /\ c.first = Unset
    BY <2>1
  <2>4. QED  BY <1>2, <1>3, <2>2, <2>3 DEF AlarmOK
<1>4. CASE Congested(a.b)
  <2> DEFINE first == IF a.first = Unset THEN a.b.now ELSE a.first
             long == a.long \/ a.b.now - a.b.start >= Detection
  <2>1. c = [b |-> n, first |-> first, last |-> a.b.now, long |-> long]
    BY <1>4 DEF n
  <2>2. first \in Nat /\ first <= a.b.now /\ long \in BOOLEAN
    BY <1>1 DEF AlarmOK, Unset
  <2>3. c \in AlarmType /\ c.b = n /\ c.first = first /\ c.last = a.b.now /\ c.long = long
    <3> HIDE DEF first, long
    <3> QED  BY <1>1, <1>2, <2>1, <2>2 DEF AlarmType
  <2>4. n.since # Unset => first <= n.since
    BY <1>1, <1>2, <1>4, <2>2 DEF AlarmOK, Unset
  <2>5. n.active => long \/ a.b.now - first >= Detection
    BY <1>1, <1>2, <1>4, DetectionAssumption DEF AlarmOK, Unset
  <2> HIDE DEF first, long
  <2>6. QED  BY <1>1, <1>2, <2>2, <2>3, <2>4, <2>5 DEF AlarmOK, Unset
<1>5. QED  BY <1>3, <1>4

\* The clock, and a reset of the metrics.
LEMMA ClockKeeps ==
  ASSUME NEW a, AlarmOK(a), NEW m \in MonitorType, NEW c,
         m.now >= a.b.now, m.since = a.b.since, m.active = a.b.active,
         c = [a EXCEPT !.b = m]
  PROVE  AlarmOK(c)
<1>1. c \in AlarmType
  BY DEF AlarmOK, AlarmType
<1>2. c.b = m /\ c.first = a.first /\ c.last = a.last /\ c.long = a.long
  BY DEF AlarmOK, AlarmType
<1>3. a.b.now \in Nat /\ m.now \in Nat /\ a.last \in Nat \cup {Unset}
  BY DEF AlarmOK, AlarmType, MonitorType
<1>4. QED  BY <1>1, <1>2, <1>3 DEF AlarmOK, Unset

\* Every step of the alarm.
LEMMA AlarmNext ==
  ASSUME AlarmInv, [PlainNext]_vars
  PROVE  AlarmInv'
<1>1. CASE UNCHANGED vars
  BY <1>1 DEF AlarmInv, vars
<1>2. SUFFICES ASSUME PlainNext, unit = "alarm", unit' = unit, AlarmOK(x)
               PROVE  AlarmOK(x')
  BY <1>1, Zenon
     DEF AlarmInv, PlainNext, MoreBytes, MoreExchange, CutExchange, MoreData, Send,
         FlushSome, Wait, Fetch, ResetAll, ReadWire, Expire, WriteSyn, Transmit, Configure,
         PassByteTime, Of
<1> DEFINE a == x
           c == x'
<1>3. Wait \/ Fetch \/ ResetAll
  BY <1>2
     DEF PlainNext, MoreBytes, MoreExchange, CutExchange, MoreData, Send, FlushSome,
         ReadWire, Expire, WriteSyn, Transmit, Configure, PassByteTime, Of
<1>4. a.b \in MonitorType /\ AlarmOK(a) /\ a.b.now \in Nat /\ a.b.start \in Nat
  BY <1>2 DEF AlarmOK, AlarmType, MonitorType
<1>5. CASE Wait
  <2>1. PICK low \in {0, 1} : c = [a EXCEPT !.b = Elapse(a.b, low)]
    BY <1>5 DEF Wait
  <2> DEFINE m == Elapse(a.b, low)
  <2>2. /\ m \in MonitorType /\ m.now >= a.b.now
        /\ m.since = a.b.since /\ m.active = a.b.active
    BY <1>4, ElapseFields
  <2> HIDE DEF m
  <2>3. QED  BY <1>4, <2>1, <2>2, ClockKeeps DEF m
<1>6. CASE ResetAll
  <2> DEFINE m == ResetMetrics(a.b)
  <2>1. c = [a EXCEPT !.b = m]
    BY <1>6 DEF ResetAll
  <2>2. /\ m \in MonitorType /\ m.now >= a.b.now
        /\ m.since = a.b.since /\ m.active = a.b.active
    BY <1>4, ElapseFields
  <2> HIDE DEF m
  <2>3. QED  BY <1>4, <2>1, <2>2, ClockKeeps
<1>7. CASE Fetch
  <2>1. a.b.now # a.b.start
    BY <1>4, <1>7 DEF Fetch
  <2>2. c = IF Congested(a.b)
            THEN [b     |-> FetchMetrics(a.b),
                  first |-> IF a.first = Unset THEN a.b.now ELSE a.first,
                  last  |-> a.b.now,
                  long  |-> a.long \/ a.b.now - a.b.start >= Detection]
            ELSE [NewAlarm EXCEPT !.b = FetchMetrics(a.b)]
    BY <1>7, Zenon DEF Fetch
  <2>3. QED  BY <1>4, <2>1, <2>2, FetchKeeps
<1>8. QED  BY <1>3, <1>5, <1>6, <1>7

\* The monitor begins without an alarm.
LEMMA NewAlarmOK == AlarmOK(NewAlarm)
<1>1. NewMonitor \in MonitorType /\ NewMonitor.since = Unset /\ NewMonitor.active = FALSE
  BY DEF NewMonitor, MonitorType
<1>2. /\ NewAlarm = [b |-> NewMonitor, first |-> Unset, last |-> Unset, long |-> FALSE]
      /\ NewAlarm.first = Unset /\ NewAlarm.b = NewMonitor
  BY DEF NewAlarm
<1>3. NewAlarm \in AlarmType
  BY <1>1, <1>2 DEF AlarmType
<1>4. QED  BY <1>1, <1>2, <1>3 DEF AlarmOK

\* AlarmSustained (fetchMetrics of BusMonitor) for every detection time and
\* every sequence of calls.
THEOREM AlarmSustainedSpec == PlainSpec => []AlarmSustained
<1>1. PlainInit => AlarmInv
  BY NewAlarmOK DEF PlainInit, AlarmInv
<1>2. AlarmInv => AlarmSustained
  BY DEF AlarmInv, AlarmOK, AlarmSustained
<1>3. QED  BY <1>1, <1>2, AlarmNext, PTL DEF PlainSpec

-----------------------------------------------------------------------------
(* The outbound ring.                                                      *)

RingType == [buf : [0..(Cap - 1) -> Byte], head : 0..(Cap - 1), count : 0..Cap]

\* The byte at place i of the ring, counted from its head.
At(g, i) == g.buf[(g.head + i - 1) % Cap]

\* The ring holds the last bytes of log.
Holds(g, log) ==
  /\ g \in RingType /\ log \in Seq(Byte)
  /\ g.count <= Len(log)
  /\ \A i \in 1..g.count : At(g, i) = log[Len(log) - g.count + i]

\* The bytes last are the last ones in the ring.
EndsWith(g, last) ==
  /\ last \in Seq(Byte) /\ Len(last) <= g.count
  /\ \A i \in 1..Len(last) : At(g, g.count - Len(last) + i) = last[i]

SendsType ==
  [kind : {"regular", "enhanced"}, ring : RingType, log : Seq(Byte), last : Seq(Byte),
   sends : Nat]

SendsOK(a) == a \in SendsType /\ Holds(a.ring, a.log) /\ EndsWith(a.ring, a.last)

OutboundInv ==
  unit = "outbound" => "kind" \in DOMAIN x /\ (Fits(x.kind) => SendsOK(x))

\* A size that does not wrap.
LEMMA NoWrap ==
  ASSUME NEW v \in Nat, v <= Cap + MaxSequenceLen
  PROVE  v % Sizes = v
<1>1. Sizes \in Nat /\ v < Sizes
  BY CapAssumption DEF MaxSequenceLen
<1>2. QED  BY ONLY <1>1, v \in Nat

\* Places in the ring wrap once at most.
LEMMA Wrap ==
  ASSUME NEW v \in 0..(2 * Cap - 1)
  PROVE  v % Cap \in 0..(Cap - 1) /\ v % Cap = IF v < Cap THEN v ELSE v - Cap
<1>1. Cap \in Nat /\ Cap >= 1
  BY CapAssumption DEF MaxSequenceLen
<1>2. CASE v < Cap
  BY <1>1, <1>2
<1>3. CASE v >= Cap
  BY <1>1, <1>3
<1>4. QED  BY <1>1, <1>2, <1>3

\* Going n places and then i is going n + i places.
LEMMA WrapTwice ==
  ASSUME NEW h \in Nat, h < Cap, NEW n \in Nat, NEW i \in Nat, i >= 1, n + i <= Cap
  PROVE  (((h + n) % Cap) + i - 1) % Cap = (h + (n + i) - 1) % Cap
<1> DEFINE v == h + n
           k == v % Cap
           p == k + i - 1
           q == h + (n + i) - 1
<1>1. Cap \in Nat /\ Cap >= 1
  BY CapAssumption DEF MaxSequenceLen
<1>2. v \in 0..(2 * Cap - 1) /\ q \in 0..(2 * Cap - 1) /\ q = v + i - 1
  BY <1>1
<1> HIDE DEF v, q
<1>3. k \in 0..(Cap - 1) /\ k = IF v < Cap THEN v ELSE v - Cap
  BY <1>2, Wrap
<1> HIDE DEF k
<1>4. CASE v < Cap
  BY <1>1, <1>2, <1>3, <1>4 DEF k, v, q
<1>5. CASE ~(v < Cap)
  <2>1. k = v - Cap /\ p = q - Cap /\ q >= Cap /\ p < Cap /\ p \in Nat
    BY <1>1, <1>2, <1>3, <1>5 DEF v, q
  <2> HIDE DEF p
  <2>2. p \in 0..(2 * Cap - 1)
    BY <1>1, <2>1
  <2>3. p % Cap = p
    BY <1>1, <2>1, <2>2, Wrap
  <2>4. q % Cap = q - Cap
    BY <1>1, <1>2, <2>1, Wrap
  <2>5. QED  BY <2>1, <2>3, <2>4 DEF p, k, v, q
<1>6. QED  BY <1>4, <1>5

\* A shorter ring is the end of a longer one.
LEMMA DropOK ==
  ASSUME NEW g \in RingType, NEW n \in Nat, n <= g.count
  PROVE  LET d == Drop(g, n)
         IN  /\ d \in RingType /\ d.count = g.count - n
             /\ \A i \in 1..d.count : At(d, i) = At(g, n + i)
<1> DEFINE d == Drop(g, n)
<1>1. Cap \in Nat /\ Cap >= 1
  BY CapAssumption DEF MaxSequenceLen
<1>2. g.head \in 0..(Cap - 1) /\ g.count \in 0..Cap /\ g.buf \in [0..(Cap - 1) -> Byte]
  BY DEF RingType
<1>3. /\ g.head + n \in 0..(2 * Cap - 1) /\ g.count - n \in 0..Cap
  BY <1>1, <1>2
<1> DEFINE head == (g.head + n) % Cap
<1>4. head \in 0..(Cap - 1) /\ head = IF g.head + n < Cap THEN g.head + n ELSE g.head + n - Cap
  <2> DEFINE v == g.head + n
  <2>1. v \in 0..(2 * Cap - 1)
    BY <1>3
  <2> HIDE DEF v
  <2>2. v % Cap \in 0..(Cap - 1) /\ v % Cap = IF v < Cap THEN v ELSE v - Cap
    BY <2>1, Wrap
  <2>3. QED  BY <1>1, <1>2, <2>2 DEF v
<1>5. d = [g EXCEPT !.head = head, !.count = g.count - n]
  <2> DEFINE m == g.count - n
  <2>1. m \in Nat /\ m <= Cap + MaxSequenceLen
    BY <1>1, <1>3 DEF MaxSequenceLen
  <2> HIDE DEF m
  <2>2. m % Sizes = m
    BY <2>1, NoWrap
  <2>3. QED  BY <2>2 DEF Drop, RingType, m
<1> HIDE DEF d, head
<1>6. d \in RingType /\ d.buf = g.buf /\ d.head = head /\ d.count = g.count - n
  BY <1>3, <1>4, <1>5 DEF RingType
<1>7. ASSUME NEW i \in Nat, i >= 1, i <= d.count
      PROVE  At(d, i) = At(g, n + i)
  <2>1. g.head \in Nat /\ g.head < Cap /\ n + i <= Cap
    BY <1>1, <1>2, <1>6, <1>7
  <2>2. (head + i - 1) % Cap = (g.head + (n + i) - 1) % Cap
    BY <1>7, <2>1, WrapTwice DEF head
  <2>3. QED  BY <1>6, <2>2 DEF At
<1>8. QED  BY <1>6, <1>7 DEF d

\* Store with room for the byte.
LEMMA StoreRoom ==
  ASSUME NEW g \in RingType, g.count < Cap, NEW b \in Byte
  PROVE  LET d == Store(g, b)
         IN  /\ d \in RingType /\ d.count = g.count + 1
             /\ At(d, d.count) = b
             /\ \A i \in 1..g.count : At(d, i) = At(g, i)
<1> DEFINE d == Store(g, b)
           place == (g.head + g.count) % Cap
<1>1. Cap \in Nat /\ Cap >= 1
  BY CapAssumption DEF MaxSequenceLen
<1>2. g.head \in 0..(Cap - 1) /\ g.count \in 0..Cap /\ g.buf \in [0..(Cap - 1) -> Byte]
  BY DEF RingType
<1>3. /\ place \in 0..(Cap - 1)
      /\ place = IF g.head + g.count < Cap THEN g.head + g.count ELSE g.head + g.count - Cap
  <2> DEFINE v == g.head + g.count
  <2>1. v \in 0..(2 * Cap - 1)
    BY <1>1, <1>2
  <2> HIDE DEF v
  <2>2. v % Cap \in 0..(Cap - 1) /\ v % Cap = IF v < Cap THEN v ELSE v - Cap
    BY <2>1, Wrap
  <2>3. QED  BY <1>1, <1>2, <2>2 DEF v
<1>4. d = [g EXCEPT !.buf = [g.buf EXCEPT ![place] = b], !.count = g.count + 1]
  <2>1. ~(g.count >= Cap)
    BY <1>1, <1>2
  <2>2. QED  BY <2>1 DEF Store, RingType
<1> HIDE DEF d, place
<1>5. [g.buf EXCEPT ![place] = b] \in [0..(Cap - 1) -> Byte] /\ g.count + 1 \in 0..Cap
  BY <1>1, <1>2, <1>3
<1>6. /\ d \in RingType /\ d.buf = [g.buf EXCEPT ![place] = b] /\ d.head = g.head
      /\ d.count = g.count + 1
  BY <1>4, <1>5 DEF RingType
<1>7. At(d, d.count) = b
  <2>1. (d.head + d.count - 1) % Cap = place
    <3>1. d.head + d.count - 1 = g.head + g.count
      BY <1>2, <1>6
    <3>2. QED  BY <3>1 DEF place
  <2>2. QED  BY <1>2, <1>3, <1>6, <2>1 DEF At
<1>8. ASSUME NEW i \in 1..g.count
      PROVE  At(d, i) = At(g, i)
  <2> DEFINE v == g.head + i - 1
  <2>1. v \in 0..(2 * Cap - 1)
    BY <1>1, <1>2
  <2>2. v % Cap \in 0..(Cap - 1) /\ v % Cap = IF v < Cap THEN v ELSE v - Cap
    BY <2>1, Wrap
  <2>3. (IF v < Cap THEN v ELSE v - Cap) # place
    <3> DEFINE first == g.head
               n == g.count
    <3>1. first \in 0..(Cap - 1) /\ n \in 0..Cap /\ i \in 1..n /\ n < Cap
      BY <1>1, <1>2
    <3>2. place = IF first + n < Cap THEN first + n ELSE first + n - Cap
      BY <1>3
    <3>3. v = first + i - 1
      OBVIOUS
    <3> HIDE DEF first, n, v
    <3>4. QED  BY ONLY <1>1, <3>1, <3>2, <3>3
  <2>4. v % Cap # place
    BY <2>2, <2>3
  <2>5. QED  BY <1>2, <1>6, <2>2, <2>4 DEF At
<1>9. QED  BY <1>6, <1>7, <1>8 DEF d

\* A byte that is stored is the last of the ring and of the log, also when
\* the oldest one has to go.
LEMMA StoreKeeps ==
  ASSUME NEW g, NEW log, Holds(g, log), NEW b \in Byte
  PROVE  LET d == Store(g, b)
         IN  /\ Holds(d, Append(log, b)) /\ d.count >= 1
             /\ At(d, d.count) = b
<1> DEFINE d == Store(g, b)
           r == IF g.count >= Cap THEN Drop(g, 1) ELSE g
           more == Append(log, b)
<1>1. Cap \in Nat /\ Cap >= 1 /\ g \in RingType /\ g.count \in 0..Cap /\ log \in Seq(Byte)
  BY CapAssumption DEF MaxSequenceLen, Holds, RingType
<1>2. r \in RingType /\ r.count < Cap /\ Holds(r, log)
  <2>1. CASE g.count >= Cap
    <3>1. /\ r \in RingType /\ r.count = g.count - 1
          /\ \A i \in 1..r.count : At(r, i) = At(g, 1 + i)
      <4>1. 1 <= g.count
        BY <1>1, <2>1
      <4>2. r = Drop(g, 1)
        BY <2>1
      <4>3. QED  BY <1>1, <4>1, <4>2, DropOK
    <3> HIDE DEF r
    <3>2. r.count \in Nat /\ Len(log) \in Nat
      BY <1>1, <2>1, <3>1
    <3>3. ASSUME NEW i \in Nat, i >= 1, i <= r.count
          PROVE  At(r, i) = log[Len(log) - r.count + i]
      <4>1. 1 + i \in 1..g.count
        BY <1>1, <3>1, <3>2, <3>3
      <4>2. At(r, i) = log[Len(log) - g.count + (1 + i)]
        BY <3>1, <3>2, <3>3, <4>1 DEF Holds
      <4>3. Len(log) - g.count + (1 + i) = Len(log) - r.count + i
        <5>1. g.count \in Nat /\ r.count = g.count - 1
          BY <1>1, <3>1
        <5>2. \A l, m, k \in Int : l - m + (1 + k) = l - (m - 1) + k
          OBVIOUS
        <5>3. QED
          <6> DEFINE l == Len(log)
                     m == g.count
          <6>1. l \in Int /\ m \in Int /\ i \in Int /\ r.count = m - 1
            BY <3>2, <5>1
          <6> HIDE DEF l, m
          <6>2. QED  BY <5>2, <6>1 DEF l, m
      <4>4. QED  BY <4>2, <4>3
    <3>4. g.count <= Len(log)
      BY DEF Holds
    <3>5. r.count < Cap /\ r.count <= Len(log)
      BY <1>1, <3>1, <3>2, <3>4
    <3>6. QED  BY <1>1, <3>1, <3>3, <3>5 DEF Holds
  <2>2. CASE ~(g.count >= Cap)
    BY <1>1, <2>2
  <2>3. QED  BY <2>1, <2>2
<1>3. d = Store(r, b)
  <2>1. CASE ~(g.count >= Cap)
    BY <2>1
  <2>2. CASE g.count >= Cap
    <3>1. ~(r.count >= Cap)
      BY <1>1, <1>2 DEF RingType
    <3>2. r = Drop(g, 1)
      BY <2>2
    <3> HIDE DEF r
    <3>3. QED  BY <2>2, <3>1, <3>2 DEF Store
  <2>3. QED  BY <2>1, <2>2
<1> HIDE DEF r, d
<1>4. /\ d \in RingType /\ d.count = r.count + 1 /\ At(d, d.count) = b
      /\ \A i \in 1..r.count : At(d, i) = At(r, i)
  BY <1>2, <1>3, StoreRoom
<1>5. /\ more \in Seq(Byte) /\ Len(more) = Len(log) + 1 /\ Len(log) \in Nat
      /\ more[Len(more)] = b /\ \A i \in 1..Len(log) : more[i] = log[i]
  BY <1>1
<1>6. r.count \in Nat /\ r.count <= Len(log)
  BY <1>2 DEF Holds, RingType
<1> HIDE DEF more
<1>7. ASSUME NEW i \in Nat, i >= 1, i <= d.count
      PROVE  At(d, i) = more[Len(more) - d.count + i]
  <2>1. CASE i = d.count
    BY <1>4, <1>5, <1>6, <2>1
  <2>2. CASE i # d.count
    <3>1. i \in 1..r.count
      BY <1>4, <1>6, <1>7, <2>2
    <3>2. At(d, i) = log[Len(log) - r.count + i]
      BY <1>2, <1>4, <3>1 DEF Holds
    <3>3. Len(more) - d.count + i = Len(log) - r.count + i
      BY <1>4, <1>5, <1>6
    <3>4. Len(log) - r.count + i \in 1..Len(log)
      BY <1>5, <1>6, <1>7, <3>1
    <3>5. QED  BY <1>5, <3>2, <3>3, <3>4
  <2>3. QED  BY <2>1, <2>2
<1>8. Holds(d, more) /\ d.count >= 1
  BY <1>4, <1>5, <1>6, <1>7 DEF Holds
<1>9. QED  BY <1>4, <1>8 DEF d, more

\* The fold over one or two bytes is one or two times Store.
LEMMA StoreFold ==
  ASSUME NEW r, NEW data, DOMAIN data = {1} \/ DOMAIN data = {1, 2}
  PROVE  FoldLeft(Store, r, data) = IF DOMAIN data = {1} THEN Store(r, data[1])
                                    ELSE Store(Store(r, data[1]), data[2])
<1>1. /\ Max({1}) = 1 /\ Max({2}) = 2 /\ Max({1, 2}) = 2
  <2>1. Max({1}) = 1 /\ Max({2}) = 2
    BY DEF Max
  <2>2. Max({1, 2}) = 2
    BY DEF Max
  <2>3. QED  BY <2>1, <2>2
<1> DEFINE step(g, t) == IF t = {} THEN r ELSE Store(g[t \ {Max(t)}], data[Max(t)])
           it == CHOOSE g : g = [t \in SUBSET (DOMAIN data) |-> step(g, t)]
           good(g) == g = [t \in SUBSET (DOMAIN data) |-> step(g, t)]
           k == [t \in SUBSET (DOMAIN data) |->
                   IF t = {} THEN r
                   ELSE IF t = {1} THEN Store(r, data[1])
                   ELSE IF t = {2} THEN Store(r, data[2])
                   ELSE Store(Store(r, data[1]), data[2])]
<1>2. ASSUME NEW t \in SUBSET (DOMAIN data)
      PROVE  t = {} \/ t = {1} \/ t = {2} \/ (t = {1, 2} /\ DOMAIN data = {1, 2})
  BY <1>2
<1>3. {1} \ {1} = {} /\ {2} \ {2} = {} /\ {1, 2} \ {2} = {1}
  OBVIOUS
<1>4. ASSUME NEW t \in SUBSET (DOMAIN data)
      PROVE  k[t] = step(k, t)
  <2>1. k[t] = IF t = {} THEN r
               ELSE IF t = {1} THEN Store(r, data[1])
               ELSE IF t = {2} THEN Store(r, data[2])
               ELSE Store(Store(r, data[1]), data[2])
    OBVIOUS
  <2>2. k[{}] = r /\ {} \in SUBSET (DOMAIN data)
    OBVIOUS
  <2>3. t = {1, 2} => k[{1}] = Store(r, data[1])
    OBVIOUS
  <2> HIDE DEF k
  <2>4. CASE t = {}
    BY <2>1, <2>4
  <2>5. CASE t = {1}
    BY <1>1, <1>3, <2>1, <2>2, <2>5
  <2>6. CASE t = {2}
    BY <1>1, <1>3, <2>1, <2>2, <2>6
  <2>7. CASE t = {1, 2}
    BY <1>1, <1>3, <2>1, <2>3, <2>7
  <2>8. QED  BY <1>2, <2>4, <2>5, <2>6, <2>7
<1>5. good(k)
  <2>1. k = [t \in SUBSET (DOMAIN data) |-> k[t]]
    OBVIOUS
  <2> HIDE DEF k
  <2>2. QED  BY <1>4, <2>1
<1>6. good(it)
  <2>1. it = CHOOSE g : good(g)
    OBVIOUS
  <2> HIDE DEF good, it
  <2>2. QED  BY <1>5, <2>1
<1>7. \A t \in SUBSET (DOMAIN data) : it[t] = step(it, t)
  <2> HIDE DEF it, step
  <2> QED  BY ONLY <1>6
<1> HIDE DEF it
<1>8. it[{}] = r
  BY <1>7
<1>9. it[{1}] = Store(r, data[1])
  <2>1. {1} \in SUBSET (DOMAIN data)
    OBVIOUS
  <2>2. QED  BY <1>1, <1>3, <1>7, <1>8, <2>1
<1>10. DOMAIN data = {1, 2} => it[{1, 2}] = Store(Store(r, data[1]), data[2])
  BY <1>1, <1>3, <1>7, <1>9
<1>11. FoldLeft(Store, r, data) =
         (CHOOSE g : g = [t \in SUBSET (DOMAIN data) |->
             IF t = {} THEN r
             ELSE Store(g[t \ {Max(t)}], data[Max(t)])])[DOMAIN data]
  BY ONLY Zenon DEF FoldLeft, MapThenFoldSet
<1>12. FoldLeft(Store, r, data) = it[DOMAIN data]
  BY ONLY <1>11 DEF it
<1>13. {1} # {1, 2}
  OBVIOUS
<1>14. QED  BY <1>9, <1>10, <1>12, <1>13

\* A suffix, place by place.
LEMMA SuffixIntro ==
  ASSUME NEW S, NEW s \in Seq(S), NEW t \in Seq(S), Len(s) <= Len(t),
         \A i \in 1..Len(s) : s[i] = t[Len(t) - Len(s) + i]
  PROVE  IsSuffix(s, t)
<1> DEFINE m == Len(s)
           n == Len(t)
           rs == Reverse(s)
           rt == Reverse(t)
<1>1. m \in Nat /\ n \in Nat /\ m <= n
  OBVIOUS
<1>2. rs = [i \in 1..m |-> s[(m - i) + 1]] /\ rt = [i \in 1..n |-> t[(n - i) + 1]]
  BY DEF Reverse
<1>3. rs \in Seq(S) /\ Len(rs) = m /\ rt \in Seq(S) /\ Len(rt) = n
  <2>1. \A i \in 1..m : s[(m - i) + 1] \in S
    <3>1. ASSUME NEW i \in 1..m PROVE (m - i) + 1 \in 1..m
      BY <1>1, <3>1
    <3>2. QED  BY <3>1
  <2>2. \A i \in 1..n : t[(n - i) + 1] \in S
    <3>1. ASSUME NEW i \in 1..n PROVE (n - i) + 1 \in 1..n
      BY <1>1, <3>1
    <3>2. QED  BY <3>1
  <2>3. rs \in [1..m -> S] /\ rt \in [1..n -> S]
    BY <1>2, <2>1, <2>2
  <2> HIDE DEF rs, rt, m, n
  <2>4. QED  BY <1>1, <2>3
<1>4. ASSUME NEW i \in Nat, i >= 1, i <= m
      PROVE  rs[i] = rt[i]
  <2>1. (m - i) + 1 \in 1..m /\ (n - i) + 1 = n - m + ((m - i) + 1) /\ i \in 1..n
    BY <1>1, <1>4
  <2>2. s[(m - i) + 1] = t[n - m + ((m - i) + 1)]
    BY <2>1
  <2>3. QED  BY <1>2, <1>4, <2>1, <2>2
<1> HIDE DEF rs, rt, m, n
<1>5. SubSeq(rs, 1, m) = SubSeq(rt, 1, m)
  <2>1. SubSeq(rs, 1, m) = [i \in 1..m |-> rs[i]] /\ SubSeq(rt, 1, m) = [i \in 1..m |-> rt[i]]
    BY <1>1, <1>3
  <2>2. QED  BY <1>1, <1>4, <2>1
<1>6. Len(rs) <= Len(rt) /\ SubSeq(rs, 1, Len(rs)) = SubSeq(rt, 1, Len(rs))
  BY <1>1, <1>3, <1>5
<1>7. QED  BY <1>6 DEF IsSuffix, IsPrefix, rs, rt

\* What the ring holds is what OutboundNewest says.
LEMMA HoldsNewest ==
  ASSUME NEW a, SendsOK(a)
  PROVE  /\ a.ring.count \in 0..Cap /\ a.ring.head \in 0..(Cap - 1)
         /\ IsSuffix(Contents(a.ring), a.log) /\ IsSuffix(a.last, Contents(a.ring))
<1> DEFINE g == a.ring
           s == Contents(g)
<1>1. /\ g \in RingType /\ g.count \in 0..Cap /\ g.head \in 0..(Cap - 1)
      /\ g.buf \in [0..(Cap - 1) -> Byte] /\ Cap \in Nat /\ Cap >= 1
      /\ a.log \in Seq(Byte) /\ a.last \in Seq(Byte)
  BY CapAssumption DEF SendsOK, Holds, EndsWith, RingType, MaxSequenceLen
<1>2. s = [i \in 1..g.count |-> At(g, i)]
  BY DEF Contents, At
<1>3. s \in Seq(Byte) /\ Len(s) = g.count /\ \A i \in 1..g.count : s[i] = At(g, i)
  <2>1. ASSUME NEW i \in Nat, i >= 1, i <= g.count
        PROVE  At(g, i) \in Byte
    <3> DEFINE first == g.head
               n == g.count
               v == first + i - 1
    <3>0. first \in 0..(Cap - 1) /\ n \in 0..Cap /\ i \in Nat /\ i >= 1 /\ i <= n
          /\ Cap \in Nat /\ Cap >= 1
      BY <1>1, <2>1
    <3> HIDE DEF first, n
    <3>1. v \in 0..(2 * Cap - 1)
      BY ONLY <3>0
    <3> HIDE DEF v
    <3>2. v % Cap \in 0..(Cap - 1)
      BY <3>1, Wrap
    <3>3. QED  BY <1>1, <3>2 DEF At, v, first
  <2>2. s \in [1..g.count -> Byte] /\ g.count \in Nat
    BY <1>1, <1>2, <2>1
  <2> HIDE DEF s, g
  <2>3. QED  BY <1>2, <2>2
<1> HIDE DEF s
<1>4. Holds(g, a.log) /\ EndsWith(g, a.last)
  BY DEF SendsOK
<1>5. IsSuffix(s, a.log)
  <2>1. Len(s) <= Len(a.log) /\ \A i \in 1..Len(s) : s[i] = a.log[Len(a.log) - Len(s) + i]
    BY <1>3, <1>4 DEF Holds
  <2>2. QED  BY <1>1, <1>3, <2>1, SuffixIntro
<1>6. IsSuffix(a.last, s)
  <2> DEFINE k == Len(a.last)
  <2>1. k \in Nat /\ g.count \in Nat /\ k <= g.count
    BY <1>1, <1>4 DEF EndsWith
  <2>2. ASSUME NEW i \in 1..k
        PROVE  a.last[i] = s[g.count - k + i]
    <3>1. g.count - k + i \in 1..g.count
      BY <2>1, <2>2
    <3>2. QED  BY <1>3, <1>4, <2>2, <3>1 DEF EndsWith
  <2>3. k <= Len(s) /\ \A i \in 1..k : a.last[i] = s[Len(s) - k + i]
    BY <1>3, <2>1, <2>2
  <2>4. QED  BY <1>1, <1>3, <2>3, SuffixIntro
<1>7. QED  BY <1>1, <1>5, <1>6 DEF s

\* A ring from which the oldest bytes are dropped still holds the last ones.
LEMMA DropKeeps ==
  ASSUME NEW g, NEW log, Holds(g, log), NEW n \in Nat, n <= g.count
  PROVE  Holds(Drop(g, n), log) /\ Drop(g, n).count = g.count - n
<1> DEFINE d == Drop(g, n)
<1>1. g \in RingType /\ g.count \in Nat /\ log \in Seq(Byte) /\ g.count <= Len(log)
  BY CapAssumption DEF Holds, RingType
<1>2. /\ d \in RingType /\ d.count = g.count - n
      /\ \A i \in 1..d.count : At(d, i) = At(g, n + i)
  BY <1>1, DropOK
<1> HIDE DEF d
<1>3. ASSUME NEW i \in 1..d.count
      PROVE  At(d, i) = log[Len(log) - d.count + i]
  <2>1. d.count \in Nat /\ i \in Nat /\ n + i \in 1..g.count
    BY <1>1, <1>2, <1>3
  <2>2. At(d, i) = log[Len(log) - g.count + (n + i)]
    BY <1>2, <1>3, <2>1 DEF Holds
  <2>3. \A l, m, k, j \in Int : l - m + (k + j) = l - (m - k) + j
    OBVIOUS
  <2>4. Len(log) - g.count + (n + i) = Len(log) - d.count + i
    BY <1>1, <1>2, <2>1, <2>3
  <2>5. QED  BY <2>2, <2>4
<1>4. d.count <= Len(log)
  BY <1>1, <1>2
<1>5. QED  BY <1>1, <1>2, <1>3, <1>4 DEF Holds, d

\* A byte of a regular client.
LEMMA RegularKeeps ==
  ASSUME NEW g, NEW log, Holds(g, log), NEW b \in Byte
  PROVE  Holds(Store(g, b), log \o << b >>) /\ EndsWith(Store(g, b), << b >>)
<1> DEFINE d == Store(g, b)
<1>1. Holds(d, Append(log, b)) /\ d.count >= 1 /\ At(d, d.count) = b
  BY StoreKeeps
<1>2. Append(log, b) = log \o << b >>
  BY DEF Holds
<1>3. d.count \in Nat
  BY <1>1, CapAssumption DEF Holds, RingType
<1>4. << b >> \in Seq(Byte) /\ Len(<< b >>) = 1 /\ << b >>[1] = b
  OBVIOUS
<1> HIDE DEF d
<1>5. ASSUME NEW i \in 1..1
      PROVE  At(d, d.count - 1 + i) = << b >>[i]
  <2>1. i = 1 /\ d.count - 1 + i = d.count
    BY <1>3
  <2>2. QED  BY <1>1, <1>4, <2>1
<1>6. EndsWith(d, << b >>)
  BY <1>1, <1>3, <1>4, <1>5 DEF EndsWith
<1>7. QED  BY <1>1, <1>2, <1>6 DEF d

\* Two bytes, for which there is room.
LEMMA PairKeeps ==
  ASSUME NEW g, NEW log, Holds(g, log), g.count + 2 <= Cap, NEW a \in Byte, NEW b \in Byte
  PROVE  /\ Holds(Store(Store(g, a), b), log \o << a, b >>)
         /\ EndsWith(Store(Store(g, a), b), << a, b >>)
<1> DEFINE c == Store(g, a)
           d == Store(c, b)
<1>1. g \in RingType /\ g.count \in Nat /\ Cap \in Nat /\ log \in Seq(Byte)
  BY CapAssumption DEF Holds, RingType
<1>2. Holds(c, Append(log, a)) /\ At(c, c.count) = a
  BY StoreKeeps
<1>3. c \in RingType /\ c.count = g.count + 1
  BY <1>1, StoreRoom
<1> HIDE DEF c
<1>4. Holds(d, Append(Append(log, a), b)) /\ At(d, d.count) = b
  BY <1>2, StoreKeeps
<1>5. d.count = c.count + 1 /\ \A i \in 1..c.count : At(d, i) = At(c, i)
  <2>1. c.count < Cap
    BY <1>1, <1>3
  <2>2. QED  BY <1>3, <2>1, StoreRoom
<1> HIDE DEF d
<1>6. Append(Append(log, a), b) = log \o << a, b >>
  BY <1>1
<1>7. At(d, c.count) = a
  BY <1>1, <1>2, <1>3, <1>5
<1> DEFINE two == << a, b >>
<1>8. two \in Seq(Byte) /\ Len(two) = 2 /\ two[1] = a /\ two[2] = b
  OBVIOUS
<1> HIDE DEF two
<1>9. d.count = g.count + 2 /\ c.count = g.count + 1
  BY <1>1, <1>3, <1>5
<1>10. ASSUME NEW i \in 1..2
       PROVE  At(d, d.count - 2 + i) = two[i]
  <2>1. CASE i = 1
    <3>1. d.count - 2 + i = c.count
      BY <1>1, <1>9, <2>1
    <3>2. QED  BY <1>7, <1>8, <2>1, <3>1
  <2>2. CASE i = 2
    <3>1. d.count - 2 + i = d.count
      BY <1>1, <1>9, <2>2
    <3>2. QED  BY <1>4, <1>8, <2>2, <3>1
  <2>3. QED  BY <1>10, <2>1, <2>2
<1>11. EndsWith(d, two)
  BY <1>1, <1>8, <1>9, <1>10 DEF EndsWith
<1>12. QED  BY <1>4, <1>6, <1>11 DEF c, d, two

\* A response to an enhanced client.
LEMMA EnhancedKeeps ==
  ASSUME NEW g, NEW log, Holds(g, log), NEW cmd \in 0..15, NEW val \in Byte,
         Cap >= MaxSequenceLen
  PROVE  /\ Holds(EnhancedEnqueue(g, cmd, val), log \o Unit(cmd, val))
         /\ EndsWith(EnhancedEnqueue(g, cmd, val), Unit(cmd, val))
<1> DEFINE over == ((g.count + MaxSequenceLen) % Sizes) - Cap
           r == MakeRoom(g)
<1>1. g \in RingType /\ g.count \in Nat /\ g.count <= Cap /\ Cap \in Nat /\ Cap >= 2
  BY CapAssumption DEF Holds, RingType, MaxSequenceLen
<1>2. Holds(r, log) /\ r.count + 2 <= Cap
  <2>0. r = IF over > 0 THEN Drop(g, over) ELSE g
    BY DEF MakeRoom
  <2> HIDE DEF r
  <2>1. over = g.count + 2 - Cap
    <3> DEFINE m == g.count + MaxSequenceLen
    <3>1. m \in Nat /\ m <= Cap + MaxSequenceLen /\ m = g.count + 2
      BY <1>1 DEF MaxSequenceLen
    <3>2. over = (m % Sizes) - Cap
      OBVIOUS
    <3> HIDE DEF m, over
    <3>3. m % Sizes = m
      BY <3>1, NoWrap
    <3>4. QED  BY <1>1, <3>1, <3>2, <3>3
  <2> HIDE DEF over
  <2>2. CASE over > 0
    <3>1. over \in Nat /\ over <= g.count
      BY <1>1, <2>1, <2>2
    <3>2. Holds(Drop(g, over), log) /\ Drop(g, over).count = g.count - over
      BY <3>1, DropKeeps
    <3>3. r = Drop(g, over)
      BY <2>0, <2>2
    <3>4. r.count = g.count - over
      BY <3>2, <3>3
    <3>5. QED  BY <1>1, <2>1, <3>2, <3>3, <3>4
  <2>3. CASE ~(over > 0)
    BY <1>1, <2>0, <2>1, <2>3
  <2>4. QED  BY <2>2, <2>3
<1>3. EnhancedEnqueue(g, cmd, val) = FoldLeft(Store, r, Unit(cmd, val))
  BY DEF EnhancedEnqueue
<1> HIDE DEF r, over
<1>4. CASE cmd = Response.received /\ val < DataThreshold
  <2> DEFINE bytes == << val >>
  <2>1. Unit(cmd, val) = bytes
    BY <1>4 DEF Unit
  <2>2. DOMAIN bytes = {1} /\ bytes[1] = val
    OBVIOUS
  <2> HIDE DEF bytes
  <2>3. EnhancedEnqueue(g, cmd, val) = Store(r, val)
    BY ONLY <1>3, <2>1, <2>2, StoreFold
  <2>4. QED  BY <1>2, <2>1, <2>3, RegularKeeps DEF bytes
<1>5. CASE ~(cmd = Response.received /\ val < DataThreshold)
  <2> DEFINE a == 192 + 4 * cmd + (val \div 64)
             b == 128 + (val % 64)
             bytes == << a, b >>
  <2>1. Unit(cmd, val) = bytes
    BY <1>5 DEF Unit, Encode
  <2>2. a \in Byte /\ b \in Byte
    BY DEF Byte
  <2> HIDE DEF a, b
  <2>3. DOMAIN bytes = {1, 2} /\ bytes[1] = a /\ bytes[2] = b /\ {1} # {1, 2}
    OBVIOUS
  <2> HIDE DEF bytes
  <2>4. FoldLeft(Store, r, bytes) = Store(Store(r, a), b)
    BY ONLY <2>3, StoreFold
  <2>5. EnhancedEnqueue(g, cmd, val) = Store(Store(r, a), b)
    BY ONLY <1>3, <2>1, <2>4
  <2>6. QED  BY <1>2, <2>1, <2>2, <2>5, PairKeeps DEF bytes
<1>6. QED  BY <1>4, <1>5

\* What was sent, and the ring it was stored in.
LEMMA GivenKeeps ==
  ASSUME NEW a, SendsOK(a), NEW ring, NEW bytes, NEW c,
         Holds(ring, a.log \o bytes), EndsWith(ring, bytes),
         c = [a EXCEPT !.ring = ring, !.log = @ \o bytes, !.last = bytes, !.sends = @ + 1]
  PROVE  SendsOK(c)
<1> DEFINE log == a.log \o bytes
           sends == a.sends + 1
<1>1. ring \in RingType /\ log \in Seq(Byte) /\ bytes \in Seq(Byte) /\ sends \in Nat
  BY DEF Holds, EndsWith, SendsOK, SendsType
<1>2. c = [a EXCEPT !.ring = ring, !.log = log, !.last = bytes, !.sends = sends]
  BY DEF SendsOK, SendsType
<1> HIDE DEF log, sends
<1>3. c \in SendsType /\ c.ring = ring /\ c.log = log /\ c.last = bytes
  BY <1>1, <1>2 DEF SendsOK, SendsType
<1>4. QED  BY <1>3 DEF SendsOK, log

\* The socket takes some bytes.
LEMMA FlushKeeps ==
  ASSUME NEW a, SendsOK(a), NEW n \in Nat, n <= a.ring.count, NEW c,
         c = [a EXCEPT !.ring = Flush(@, n), !.last = << >>]
  PROVE  SendsOK(c)
<1> DEFINE d == Drop(a.ring, n)
           none == << >>
<1>1. Holds(d, a.log)
  BY DropKeeps DEF SendsOK
<1>2. EndsWith(d, none)
  <2>1. d.count \in Nat
    BY <1>1, CapAssumption DEF Holds, RingType
  <2> HIDE DEF d
  <2>2. QED  BY <2>1 DEF EndsWith
<1>3. c = [a EXCEPT !.ring = d, !.last = none]
  BY DEF Flush, SendsOK, SendsType
<1>4. d \in RingType /\ none \in Seq(Byte)
  BY <1>1 DEF Holds
<1> HIDE DEF d, none
<1>5. c \in SendsType /\ c.ring = d /\ c.log = a.log /\ c.last = none
  BY <1>3, <1>4 DEF SendsOK, SendsType
<1>6. QED  BY <1>1, <1>2, <1>5 DEF SendsOK

\* Every send and every flush keeps it so.
LEMMA OutboundNext ==
  ASSUME OutboundInv, [PlainNext]_vars
  PROVE  OutboundInv'
<1>1. CASE UNCHANGED vars
  BY <1>1 DEF OutboundInv, vars
<1>2. SUFFICES ASSUME PlainNext, unit = "outbound", unit' = unit, "kind" \in DOMAIN x,
                      Fits(x.kind) => SendsOK(x)
               PROVE  "kind" \in DOMAIN x' /\ (Fits(x'.kind) => SendsOK(x'))
  BY <1>1, Zenon
     DEF OutboundInv, PlainNext, MoreBytes, MoreExchange, CutExchange, MoreData, Send,
         FlushSome, Wait, Fetch, ResetAll, ReadWire, Expire, WriteSyn, Transmit, Configure,
         PassByteTime, Of
<1> DEFINE a == x
           c == x'
<1>3. Send \/ FlushSome
  BY <1>2
     DEF PlainNext, MoreBytes, MoreExchange, CutExchange, MoreData, Wait, Fetch, ResetAll,
         ReadWire, Expire, WriteSyn, Transmit, Configure, PassByteTime, Of
<1>a. "kind" \in DOMAIN c /\ c.kind = a.kind
  BY <1>2, <1>3 DEF Send, FlushSome, Given
<1>b. SUFFICES ASSUME Fits(a.kind) PROVE SendsOK(c)
  BY <1>a
<1>4. SendsOK(a) /\ Holds(a.ring, a.log)
  BY <1>2, <1>b DEF SendsOK
<1>5. CASE Send
  <2>1. PICK u \in Responses :
          c = IF a.kind = "regular"
              THEN Given(RegularEnqueue(a.ring, u[2]), << u[2] >>)
              ELSE Given(EnhancedEnqueue(a.ring, u[1], u[2]), Unit(u[1], u[2]))
    BY <1>5 DEF Send
  <2>2. u[1] \in 0..15 /\ u[2] \in Byte
    BY UnitsAssumption
  <2> DEFINE cmd == u[1]
             val == u[2]
             ring == IF a.kind = "regular" THEN Store(a.ring, val)
                     ELSE EnhancedEnqueue(a.ring, cmd, val)
             bytes == IF a.kind = "regular" THEN << val >> ELSE Unit(cmd, val)
  <2>3. c = [a EXCEPT !.ring = ring, !.log = @ \o bytes, !.last = bytes, !.sends = @ + 1]
    BY <2>1 DEF Given, RegularEnqueue
  <2>4. cmd \in 0..15 /\ val \in Byte
    BY <2>2
  <2> HIDE DEF cmd, val
  <2>5. Holds(ring, a.log \o bytes) /\ EndsWith(ring, bytes)
    <3>1. CASE a.kind = "regular"
      BY <1>4, <2>4, <3>1, RegularKeeps
    <3>2. CASE a.kind # "regular"
      <4>1. Cap >= MaxSequenceLen
        BY <1>4, <1>b, <3>2 DEF Fits, SendsOK, SendsType
      <4>2. QED  BY <1>4, <2>4, <3>2, <4>1, EnhancedKeeps
    <3>3. QED  BY <3>1, <3>2
  <2> HIDE DEF a, c, ring, bytes
  <2>6. QED  BY <1>4, <2>3, <2>5, GivenKeeps DEF c
<1>6. CASE FlushSome
  <2>1. a.ring.count \in Nat
    BY <1>4, CapAssumption DEF Holds, RingType
  <2>2. PICK n \in 1..a.ring.count : c = [a EXCEPT !.ring = Flush(@, n), !.last = << >>]
    BY <1>6 DEF FlushSome
  <2>3. n \in Nat /\ n <= a.ring.count
    BY <2>1
  <2> HIDE DEF a, c
  <2>4. QED  BY <1>4, <2>2, <2>3, FlushKeeps DEF c
<1>7. QED  BY <1>3, <1>5, <1>6

\* A new ring has nothing in it, and nothing was sent.
LEMMA NewSendsOK ==
  ASSUME NEW kind \in {"regular", "enhanced"}
  PROVE  SendsOK(NewSends(kind))
<1> DEFINE a == NewSends(kind)
           none == << >>
<1>1. NewRing \in RingType /\ NewRing.count = 0
  BY CapAssumption DEF NewRing, RingType, MaxSequenceLen, Byte
<1>2. none \in Seq(Byte) /\ Len(none) = 0
  OBVIOUS
<1>3. a = [kind |-> kind, ring |-> NewRing, log |-> none, last |-> none, sends |-> 0]
  BY DEF NewSends
<1> HIDE DEF none
<1>4. a \in SendsType /\ a.ring = NewRing /\ a.log = none /\ a.last = none
  BY <1>1, <1>2, <1>3 DEF SendsType
<1> HIDE DEF a
<1>5. Holds(NewRing, none) /\ EndsWith(NewRing, none)
  BY <1>1, <1>2 DEF Holds, EndsWith
<1>6. QED  BY <1>4, <1>5 DEF SendsOK, a

\* OutboundNewest (client.cpp: enqueueOutgoingData, flushLocked) for every
\* size of the ring that validate accepts, every response and every pattern
\* of short writes; the ring of one byte of an enhanced client is the case
\* that OutboundNewest leaves out and OneByteRingWraps is about.
THEOREM OutboundNewestSpec == PlainSpec => []OutboundNewest
<1>1. PlainInit => OutboundInv
  <2>1. \A k \in {"regular", "enhanced"} : "kind" \in DOMAIN NewSends(k)
    BY DEF NewSends
  <2>2. QED  BY <2>1, NewSendsOK DEF PlainInit, OutboundInv
<1>2. OutboundInv => OutboundNewest
  BY HoldsNewest DEF OutboundInv, OutboundNewest
<1>3. QED  BY <1>1, <1>2, OutboundNext, PTL DEF PlainSpec

\* The ring of one byte (config_validator.cpp:39 accepts it): whatever an
\* enhanced client is sent, and whatever was in its ring before, count_ has
\* wrapped when there was made room for it (client.cpp:436).
THEOREM OneByteRingWraps ==
  ASSUME Cap = 1, NEW g \in RingType
  PROVE  MakeRoom(g).count = Sizes - 1
<1>1. g.count \in 0..1 /\ Sizes \in Nat /\ Sizes > 3
  BY CapAssumption DEF RingType, MaxSequenceLen
<1>2. (g.count + MaxSequenceLen) % Sizes = g.count + 2
  <2> DEFINE m == g.count + MaxSequenceLen
  <2>1. m \in Nat /\ m <= Cap + MaxSequenceLen /\ m = g.count + 2
    BY <1>1 DEF MaxSequenceLen
  <2> HIDE DEF m
  <2>2. m % Sizes = m
    BY <2>1, NoWrap
  <2>3. QED  BY <2>1, <2>2 DEF m
<1>3. MakeRoom(g) = Drop(g, g.count + 1)
  <2> DEFINE v == (g.count + MaxSequenceLen) % Sizes
  <2>1. MakeRoom(g) = IF v - Cap > 0 THEN Drop(g, v - Cap) ELSE g
    BY DEF MakeRoom
  <2>2. v = g.count + 2
    BY <1>2
  <2> HIDE DEF v
  <2>3. v - Cap = g.count + 1 /\ v - Cap > 0
    BY <1>1, <2>2
  <2>4. QED  BY <2>1, <2>3
<1>4. (g.count - (g.count + 1)) % Sizes = Sizes - 1
  <2>1. g.count - (g.count + 1) = -1
    BY <1>1
  <2>2. (-1) % Sizes = Sizes - 1
    BY <1>1
  <2>3. QED  BY <2>1, <2>2
<1>5. QED  BY <1>3, <1>4 DEF Drop, RingType

-----------------------------------------------------------------------------
(* The data types.                                                         *)

Span(size) == IF size = 1 THEN 256 ELSE 65536

\* The integers that fit into so many bytes.
Unsigned(size) == 0..(Span(size) - 1)

\* An integer on the bus in millionths, and back.
Millionths(raw, den) == Quotient(raw * ScaleNum(den), ScaleDen(den))
OnBus(f, den) == Rounded(f * ScaleDen(den), ScaleNum(den))

\* A type is a text, the packed digits, or a number of one or two bytes.
TextKind(m) == ~m.numeric /\ m.size \in 1..3

NumberKind(m) ==
  /\ m.numeric /\ m.den \in {1, 2, 16, 256}
  /\ \/ m.size = 1 /\ m.sentinel \in {128, 255}
     \/ m.size = 2 /\ m.sentinel \in {32768, 65535}

BcdKind(m) == m.numeric /\ m.size = 1 /\ m.den = 1 /\ m.sentinel = 255 /\ ~m.signed

\* The table of the types.
LEMMA MetaKinds ==
  ASSUME NEW dt \in DataType
  PROVE  LET m == Meta[dt]
         IN  IF dt = "BCD" THEN BcdKind(m) ELSE TextKind(m) \/ NumberKind(m)
<1>1. dt \in {"BCD", "CHAR1", "CHAR2", "CHAR3", "DATA1B", "DATA1C", "DATA2B", "DATA2BR",
              "DATA2C", "DATA2CR", "HEX1", "HEX2", "HEX3", "INT16", "INT16R", "INT8",
              "UINT16", "UINT16R", "UINT8"}
  BY DEF DataType, Meta
<1>2. CASE dt = "BCD"
  BY <1>2 DEF Meta, Type, BcdKind
<1>3. CASE dt = "CHAR1"
  BY <1>3 DEF Meta, Type, TextKind
<1>4. CASE dt = "CHAR2"
  BY <1>4 DEF Meta, Type, TextKind
<1>5. CASE dt = "CHAR3"
  BY <1>5 DEF Meta, Type, TextKind
<1>6. CASE dt = "HEX1"
  BY <1>6 DEF Meta, Type, TextKind
<1>7. CASE dt = "HEX2"
  BY <1>7 DEF Meta, Type, TextKind
<1>8. CASE dt = "HEX3"
  BY <1>8 DEF Meta, Type, TextKind
<1>9. CASE dt = "DATA1B"
  BY <1>9 DEF Meta, Type, NumberKind
<1>10. CASE dt = "DATA1C"
  BY <1>10 DEF Meta, Type, NumberKind
<1>11. CASE dt = "DATA2B"
  BY <1>11 DEF Meta, Type, NumberKind
<1>12. CASE dt = "DATA2BR"
  BY <1>12 DEF Meta, Type, NumberKind
<1>13. CASE dt = "DATA2C"
  BY <1>13 DEF Meta, Type, NumberKind
<1>14. CASE dt = "DATA2CR"
  BY <1>14 DEF Meta, Type, NumberKind
<1>15. CASE dt = "INT16"
  BY <1>15 DEF Meta, Type, NumberKind
<1>16. CASE dt = "INT16R"
  BY <1>16 DEF Meta, Type, NumberKind
<1>17. CASE dt = "INT8"
  BY <1>17 DEF Meta, Type, NumberKind
<1>18. CASE dt = "UINT16"
  BY <1>18 DEF Meta, Type, NumberKind
<1>19. CASE dt = "UINT16R"
  BY <1>19 DEF Meta, Type, NumberKind
<1>20. CASE dt = "UINT8"
  BY <1>20 DEF Meta, Type, NumberKind
<1>21. QED  BY <1>1, <1>2, <1>3, <1>4, <1>5, <1>6, <1>7, <1>8, <1>9, <1>10, <1>11,
     <1>12, <1>13, <1>14, <1>15, <1>16, <1>17, <1>18, <1>19, <1>20

\* Bytes that are read as an integer are written back.
LEMMA ReadWrite ==
  ASSUME NEW size, size \in {1, 2}, NEW flip \in BOOLEAN, NEW data \in Seq(Byte), Len(data) = size
  PROVE  LET u == ReadInt(data, size, flip)
         IN  /\ u \in Unsigned(size)
             /\ WriteInt(u, size, flip) = data
             /\ WriteInt(Signed(u, size), size, flip) = data
<1>1. CASE size = 1
  <2> DEFINE a == data[1]
  <2>1. a \in Byte
    BY <1>1
  <2>2. data = << a >>
    <3>1. data = [i \in 1..1 |-> data[i]]
      BY <1>1
    <3>2. << a >> = [i \in 1..1 |-> a]
      OBVIOUS
    <3>3. QED  BY <3>1, <3>2
  <2> HIDE DEF a
  <2>3. ReadInt(data, size, flip) = a
    BY <1>1, <2>2 DEF ReadInt
  <2>4. a \in Unsigned(size) /\ a \in Int /\ a % 256 = a
    BY <1>1, <2>1 DEF Unsigned, Span, Byte
  <2>5. Signed(a, size) \in Int /\ Signed(a, size) % 256 = a
    BY <1>1, <2>1 DEF Signed, Byte
  <2>6. ASSUME NEW v \in Int, v % 256 = a
        PROVE  WriteInt(v, size, flip) = data
    BY <1>1, <2>2, <2>6 DEF WriteInt
  <2>7. QED  BY <2>3, <2>4, <2>5, <2>6
<1>2. CASE size = 2
  <2> DEFINE a == data[1]
             b == data[2]
             hi == IF flip THEN a ELSE b
             lo == IF flip THEN b ELSE a
             u == 256 * hi + lo
  <2>1. a \in Byte /\ b \in Byte
    BY <1>2
  <2>2. data = << a, b >>
    <3>1. data = [i \in 1..2 |-> data[i]]
      BY <1>2
    <3>2. << a, b >> = [i \in 1..2 |-> IF i = 1 THEN a ELSE b]
      OBVIOUS
    <3>3. \A i \in 1..2 : data[i] = IF i = 1 THEN a ELSE b
      OBVIOUS
    <3>4. QED  BY <3>1, <3>2, <3>3
  <2> HIDE DEF a, b
  <2>3. hi \in Nat /\ lo \in Nat /\ hi <= 255 /\ lo <= 255
    BY <2>1 DEF Byte
  <2>4. ReadInt(data, size, flip) = u
    BY <1>2, <2>1, <2>2 DEF ReadInt, Byte
  <2>5. data = IF flip THEN << hi, lo >> ELSE << lo, hi >>
    BY <2>2
  <2> HIDE DEF hi, lo
  <2>6. u \in Nat /\ u <= 65535 /\ u \div 256 = hi /\ u % 256 = lo
    BY <2>3
  <2> HIDE DEF u
  <2>7. u % 65536 = u /\ u \in Int /\ u \in Unsigned(size)
    <3>1. Span(size) - 1 = 65535
      BY <1>2 DEF Span
    <3>2. u % 65536 = u
      BY <2>6
    <3>3. QED  BY <2>6, <3>1, <3>2 DEF Unsigned
  <2>8. Signed(u, size) \in Int /\ Signed(u, size) % 65536 = u
    <3>1. Signed(u, size) = IF u >= 32768 THEN u - 65536 ELSE u
      BY <1>2, <2>6 DEF Signed
    <3>2. CASE u >= 32768
      <4>1. Signed(u, size) = u - 65536 /\ u - 65536 \in Int
        BY <2>6, <3>1, <3>2
      <4>2. (u - 65536) % 65536 = u
        BY <2>6
      <4>3. QED  BY <4>1, <4>2
    <3>3. CASE ~(u >= 32768)
      BY <2>7, <3>1, <3>3
    <3>4. QED  BY <3>2, <3>3
  <2>9. ASSUME NEW v \in Int, v % 65536 = u
        PROVE  WriteInt(v, size, flip) = data
    BY <1>2, <2>5, <2>6, <2>9 DEF WriteInt
  <2>10. QED  BY <2>4, <2>7, <2>8, <2>9
<1>3. QED  BY <1>1, <1>2

\* An integer that is written is read back, as far as it fits.
LEMMA WriteRead ==
  ASSUME NEW size, size \in {1, 2}, NEW flip \in BOOLEAN, NEW v \in Int
  PROVE  LET d == WriteInt(v, size, flip)
         IN  /\ d \in Seq(Byte) /\ Len(d) = size
             /\ ReadInt(d, size, flip) = v % Span(size)
<1> DEFINE d == WriteInt(v, size, flip)
           u == v % Span(size)
<1>1. CASE size = 1
  <2>1. u \in 0..255 /\ d = << u >>
    BY <1>1 DEF Span, WriteInt
  <2> HIDE DEF u, d
  <2>2. d \in Seq(Byte) /\ Len(d) = size
    BY <1>1, <2>1 DEF Byte
  <2>3. ReadInt(d, size, flip) = u
    BY <1>1, <2>1 DEF ReadInt
  <2>4. QED  BY <2>2, <2>3 DEF u, d
<1>2. CASE size = 2
  <2>1. /\ u \in Nat /\ u <= 65535
        /\ d = IF flip THEN << u \div 256, u % 256 >> ELSE << u % 256, u \div 256 >>
    BY <1>2 DEF Span, WriteInt
  <2> HIDE DEF u, d
  <2> DEFINE a == u \div 256
             b == u % 256
  <2>2. a \in Byte /\ b \in Byte /\ 256 * a + b = u /\ b + 256 * a = u
    BY <2>1 DEF Byte
  <2>3. d = IF flip THEN << a, b >> ELSE << b, a >>
    BY <2>1
  <2> HIDE DEF a, b
  <2>4. d \in Seq(Byte) /\ Len(d) = 2
    BY <2>2, <2>3
  <2>5. ReadInt(d, size, flip) = u
    BY <1>2, <2>2, <2>3 DEF ReadInt
  <2>6. QED  BY <1>2, <2>4, <2>5 DEF u, d
<1>3. QED  BY <1>1, <1>2

\* The two's complement.
LEMMA SignedBack ==
  ASSUME NEW m, NumberKind(m), NEW v \in Int, InRange(v, m)
  PROVE  (IF m.signed THEN Signed(v % Span(m.size), m.size) ELSE v % Span(m.size)) = v
<1> DEFINE half == IF m.size = 1 THEN 128 ELSE 32768
<1>1. Span(m.size) = 2 * half /\ half \in {128, 32768}
  BY DEF Span
<1>2. IF m.signed THEN -half <= v /\ v < half ELSE 0 <= v /\ v < 2 * half
  BY DEF InRange
<1>3. \A u : Signed(u, m.size) = IF u >= half THEN u - 2 * half ELSE u
  BY DEF Signed
<1> HIDE DEF half
<1>4. CASE v >= 0
  <2>1. v % (2 * half) = v
    <3>1. CASE half = 128
      BY <1>2, <1>4, <3>1
    <3>2. CASE half = 32768
      BY <1>2, <1>4, <3>2
    <3>3. QED  BY <1>1, <3>1, <3>2
  <2>2. m.signed => ~(v >= half)
    BY <1>1, <1>2
  <2>3. QED  BY <1>1, <1>3, <2>1, <2>2
<1>5. CASE v < 0
  <2>1. m.signed /\ -half <= v
    BY <1>1, <1>2, <1>5
  <2>2. v % (2 * half) = v + 2 * half
    <3>1. CASE half = 128
      BY <1>5, <2>1, <3>1
    <3>2. CASE half = 32768
      BY <1>5, <2>1, <3>2
    <3>3. QED  BY <1>1, <3>1, <3>2
  <2>3. v + 2 * half >= half /\ (v + 2 * half) - 2 * half = v
    BY <1>1, <2>1
  <2>4. QED  BY <1>1, <1>3, <2>1, <2>2, <2>3
<1>6. QED  BY <1>4, <1>5

\* What is read is in the range of the type.
LEMMA SignedRange ==
  ASSUME NEW m, NumberKind(m), NEW u \in Unsigned(m.size)
  PROVE  LET raw == IF m.signed THEN Signed(u, m.size) ELSE u
         IN  raw \in Int /\ InRange(raw, m)
<1> DEFINE half == IF m.size = 1 THEN 128 ELSE 32768
           span == IF m.size = 1 THEN 256 ELSE 65536
           raw == IF m.signed THEN Signed(u, m.size) ELSE u
<1>1. span = 2 * half /\ half \in {128, 32768} /\ span \div 2 = half
  OBVIOUS
<1>2. u \in Int /\ 0 <= u /\ u < span
  BY DEF Span, Unsigned
<1>3. raw = IF m.signed /\ u >= half THEN u - 2 * half ELSE u
  BY DEF Signed
<1> HIDE DEF half, span, raw
<1>4. raw \in Int
  BY <1>1, <1>2, <1>3
<1>5. CASE m.signed
  <2>1. raw \in -half..(half - 1)
    BY <1>1, <1>2, <1>3, <1>4, <1>5
  <2>2. raw \in -(span \div 2)..(span \div 2 - 1)
    BY <1>1, <2>1
  <2>3. InRange(raw, m)
    BY ONLY <1>5, <2>2 DEF InRange, span
  <2>4. QED  BY <1>4, <2>3 DEF raw
<1>6. CASE ~m.signed
  <2>1. raw \in 0..(span - 1)
    BY <1>1, <1>2, <1>3, <1>6
  <2>2. InRange(raw, m)
    BY ONLY <1>6, <2>1 DEF InRange, span
  <2>3. QED  BY <1>4, <2>2 DEF raw
<1>7. QED  BY <1>5, <1>6

\* The division of a multiple, and of a multiple less a remainder below one
\* half, rounded.
LEMMA ScaleBack ==
  ASSUME NEW den, den \in {2, 16, 256}, NEW raw \in Int
  PROVE  Millionths(raw, den) \in Int /\ OnBus(Millionths(raw, den), den) = raw
<1> USE DEF Millionths, OnBus
<1>1. CASE den = 2
  <2>1. ScaleNum(den) = 500000 /\ ScaleDen(den) = 1
    BY <1>1 DEF ScaleNum, ScaleDen
  <2>2. Quotient(raw * 500000, 1) = raw * 500000
    BY DEF Quotient
  <2>3. Rounded(raw * 500000, 500000) = raw
    BY DEF Rounded, HalfUp
  <2>4. QED  BY <2>1, <2>2, <2>3
<1>2. CASE den = 16
  <2>1. ScaleNum(den) = 62500 /\ ScaleDen(den) = 1
    BY <1>2 DEF ScaleNum, ScaleDen
  <2>2. Quotient(raw * 62500, 1) = raw * 62500
    BY DEF Quotient
  <2>3. Rounded(raw * 62500, 62500) = raw
    BY DEF Rounded, HalfUp
  <2>4. QED  BY <2>1, <2>2, <2>3
<1>3. CASE den = 256
  <2>1. ScaleNum(den) = 15625 /\ ScaleDen(den) = 4
    BY <1>3 DEF ScaleNum, ScaleDen
  <2> DEFINE f == Quotient(raw * 15625, 4)
             r == raw * 15625
  <2>2. /\ f \in Int
        /\ raw >= 0 => f >= 0 /\ r - 3 <= 4 * f /\ 4 * f <= r
        /\ raw < 0 => f < 0 /\ r <= 4 * f /\ 4 * f <= r + 3
    BY DEF Quotient
  <2> HIDE DEF f
  <2>3. CASE raw >= 0
    <3> DEFINE p == f * 4
    <3>1. p \in Nat /\ 15625 * raw - 3 <= p /\ p <= 15625 * raw
      BY <2>2, <2>3
    <3> HIDE DEF p
    <3>2. HalfUp(p, 15625) = raw
      BY <2>3, <3>1 DEF HalfUp
    <3>3. QED  BY <2>1, <2>2, <3>1, <3>2 DEF Rounded, p, f
  <2>4. CASE raw < 0
    <3> DEFINE p == -(f * 4)
               k == -raw
    <3>1. p \in Nat /\ p > 0 /\ 15625 * k - 3 <= p /\ p <= 15625 * k /\ k \in Nat
      BY <2>2, <2>4
    <3> HIDE DEF p, k
    <3>2. HalfUp(p, 15625) = k
      BY <3>1 DEF HalfUp
    <3>3. f * 4 < 0 /\ -k = raw /\ -(f * 4) = p
      BY <2>2, <2>4 DEF p, k
    <3>4. Rounded(f * 4, 15625) = raw
      BY <2>2, <3>2, <3>3 DEF Rounded
    <3>5. QED  BY <2>1, <2>2, <3>4 DEF f
  <2>5. QED  BY <2>3, <2>4
<1>4. QED  BY <1>1, <1>2, <1>3

\* A whole number on the bus is so many millionths.
LEMMA ScaleWhole ==
  ASSUME NEW den, den \in {2, 16, 256}, NEW n \in Int
  PROVE  n * den \in Int /\ Millionths(n * den, den) = n * 1000000
<1> USE DEF Millionths
<1>1. CASE den = 2
  <2>1. ScaleNum(den) = 500000 /\ ScaleDen(den) = 1
    BY <1>1 DEF ScaleNum, ScaleDen
  <2>2. Quotient(n * 2 * 500000, 1) = n * 1000000
    BY DEF Quotient
  <2>3. QED  BY <1>1, <2>1, <2>2
<1>2. CASE den = 16
  <2>1. ScaleNum(den) = 62500 /\ ScaleDen(den) = 1
    BY <1>2 DEF ScaleNum, ScaleDen
  <2>2. Quotient(n * 16 * 62500, 1) = n * 1000000
    BY DEF Quotient
  <2>3. QED  BY <1>2, <2>1, <2>2
<1>3. CASE den = 256
  <2>1. ScaleNum(den) = 15625 /\ ScaleDen(den) = 4
    BY <1>3 DEF ScaleNum, ScaleDen
  <2>2. Quotient(n * 256 * 15625, 4) = n * 1000000
    BY DEF Quotient
  <2>3. QED  BY <1>3, <2>1, <2>2
<1>4. QED  BY <1>1, <1>2, <1>3

\* What Meta says of a type, and which byte comes first.
LEMMA FlipType ==
  ASSUME NEW m, NEW endian
  PROVE  Flip(m, endian) \in BOOLEAN
BY DEF Flip

\* A field that is too short.
LEMMA ShortTrip ==
  ASSUME NEW dt, NEW data, NEW endian, Len(data) < Meta[dt].size, ~(Len(data) >= Meta[dt].size)
  PROVE  Decode(dt, data, endian) = NoValue /\ ~IsValidData(dt, data)
BY DEF Decode, IsValidData

\* A text is its bytes.
LEMMA TextTrip ==
  ASSUME NEW dt \in DataType, dt # "BCD", TextKind(Meta[dt]), NEW data \in Seq(Byte),
         Len(data) = Meta[dt].size, NEW endian
  PROVE  LET v == Decode(dt, data, endian)
         IN  v # NoValue /\ IsValidData(dt, data) /\ Encoded(dt, v, endian) = data
<1> DEFINE m == Meta[dt]
           size == m.size
           s == SubSeq(data, 1, size)
           v == Decode(dt, data, endian)
<1>1. ~m.numeric /\ size \in Nat /\ ~(Len(data) < size) /\ Len(data) >= size
  BY DEF TextKind
<1>2. v = Text(s)
  BY <1>1 DEF Decode
<1>3. s = data
  BY <1>1
<1>4. v.k = "text" /\ v.s = data /\ NoValue.k = "nullopt"
  BY <1>2, <1>3 DEF Text, NoValue
<1> HIDE DEF v, s, size
<1>5. Encoded(dt, v, endian) = [i \in 1..m.size |-> IF i <= Len(v.s) THEN v.s[i] ELSE 0]
  <2>1. ~m.numeric /\ v.k = "text"
    BY <1>1, <1>4
  <2>2. QED  BY <2>1 DEF Encoded
<1>6. data = [i \in 1..Len(data) |-> data[i]] /\ \A i \in 1..Len(data) : i <= Len(data)
  OBVIOUS
<1>7. Encoded(dt, v, endian) = data
  BY <1>4, <1>5, <1>6
<1>8. IsValidData(dt, data)
  BY <1>1 DEF IsValidData, size
<1>9. QED  BY <1>4, <1>7, <1>8 DEF v

\* Two packed digits.
LEMMA BcdTrip ==
  ASSUME NEW dt \in DataType, dt = "BCD", NEW data \in Seq(Byte), Len(data) = Meta[dt].size,
         NEW endian
  PROVE  LET v == Decode(dt, data, endian)
         IN  /\ v = NoValue <=> ~IsValidData(dt, data)
             /\ v # NoValue => Encoded(dt, v, endian) = data
<1> DEFINE m == Meta[dt]
           a == data[1]
           v == Decode(dt, data, endian)
<1>1. m.numeric /\ m.size = 1 /\ m.den = 1 /\ m.sentinel = 255 /\ ~m.signed
  BY MetaKinds DEF BcdKind
<1>2. a \in Byte /\ data = << a >>
  <2>1. Len(data) = 1
    BY <1>1
  <2>2. data = [i \in 1..1 |-> data[i]] /\ a \in Byte
    BY ONLY data \in Seq(Byte), <2>1
  <2>3. << a >> = [i \in 1..1 |-> a]
    OBVIOUS
  <2>4. QED  BY <2>2, <2>3
<1>3. ~(Len(data) < m.size) /\ Len(data) >= m.size /\ \A flip : ReadInt(data, m.size, flip) = a
  BY <1>1 DEF ReadInt
<1>4. IsValidData(dt, data) <=> a = 255 \/ IsBcd(a)
  BY <1>3 DEF IsValidData
<1>5. v = IF a = 255 THEN Null
          ELSE IF IsBcd(a) THEN Whole((a \div 16) * 10 + (a % 16)) ELSE NoValue
  BY <1>1, <1>3 DEF Decode
<1> HIDE DEF v, a
<1>6. CASE a = 255
  <2>1. v.k = "null" /\ NoValue.k = "nullopt"
    BY <1>5, <1>6 DEF Null, NoValue
  <2>2. \A flip : WriteInt(m.sentinel, m.size, flip) = << 255 >>
    BY <1>1 DEF WriteInt
  <2>3. Encoded(dt, v, endian) = << 255 >>
    <3>1. m.numeric /\ v.k = "null"
      BY <1>1, <2>1
    <3>2. QED  BY <2>2, <3>1 DEF Encoded
  <2>4. QED  BY <1>2, <1>4, <1>6, <2>1, <2>3 DEF v
<1>7. CASE a # 255 /\ IsBcd(a)
  <2> DEFINE n == (a \div 16) * 10 + (a % 16)
  <2>1. v = Whole(n)
    BY <1>5, <1>7
  <2>2. n \in 0..99 /\ (n \div 10) * 16 + (n % 10) = a
    <3> DEFINE p == a \div 16
               q == a % 16
    <3>1. p \in 0..9 /\ q \in 0..9 /\ a = 16 * p + q
      BY <1>2, <1>7 DEF IsBcd, Byte
    <3> HIDE DEF p, q
    <3>2. p * 10 + q \in 0..99 /\ (p * 10 + q) \div 10 = p /\ (p * 10 + q) % 10 = q
      BY <3>1
    <3>3. QED  BY <3>1, <3>2 DEF p, q
  <2> HIDE DEF n
  <2>3. v.k = "int" /\ v.v = n /\ NoValue.k = "nullopt"
    BY <2>1 DEF Whole, NoValue
  <2>4. AsInt64(v) = n
    BY <2>3 DEF AsInt64
  <2>5. Encoded(dt, v, endian) = << (n \div 10) * 16 + (n % 10) >>
    BY <1>1, <2>2, <2>3, <2>4 DEF Encoded
  <2>6. QED  BY <1>2, <1>4, <1>7, <2>2, <2>3, <2>5 DEF v
<1>8. CASE a # 255 /\ ~IsBcd(a)
  BY <1>4, <1>5, <1>8 DEF v
<1>9. QED  BY <1>6, <1>7, <1>8

\* A number of one or two bytes.
LEMMA NumberTrip ==
  ASSUME NEW dt \in DataType, dt # "BCD", NumberKind(Meta[dt]), NEW data \in Seq(Byte),
         Len(data) = Meta[dt].size, NEW endian
  PROVE  LET v == Decode(dt, data, endian)
         IN  v # NoValue /\ IsValidData(dt, data) /\ Encoded(dt, v, endian) = data
<1> DEFINE m == Meta[dt]
           flip == Flip(m, endian)
           u == ReadInt(data, m.size, flip)
           raw == IF m.signed THEN Signed(u, m.size) ELSE u
           f == Millionths(raw, m.den)
           v == Decode(dt, data, endian)
<1>1. /\ m.numeric /\ m.size \in {1, 2} /\ m.den \in {1, 2, 16, 256}
      /\ ~(Len(data) < m.size) /\ Len(data) >= m.size /\ flip \in BOOLEAN
  BY FlipType DEF NumberKind
<1>2. IsValidData(dt, data)
  BY <1>1 DEF IsValidData
<1>3. v = IF u = m.sentinel THEN Null ELSE IF m.den # 1 THEN Fixed(f) ELSE Whole(raw)
  BY <1>1 DEF Decode, Millionths
<1> HIDE DEF flip
<1>4. u \in Unsigned(m.size) /\ WriteInt(u, m.size, flip) = data
      /\ WriteInt(raw, m.size, flip) = data
  <2> DEFINE size == m.size
  <2>1. size \in {1, 2} /\ Len(data) = size
    BY <1>1
  <2> HIDE DEF size
  <2>2. LET w == ReadInt(data, size, flip)
        IN  /\ w \in Unsigned(size)
            /\ WriteInt(w, size, flip) = data
            /\ WriteInt(Signed(w, size), size, flip) = data
    BY <1>1, <2>1, ReadWrite
  <2>3. QED  BY <2>2 DEF size
<1> HIDE DEF u
<1>5. raw \in Int /\ InRange(raw, m)
  <2> HIDE DEF m
  <2> QED  BY <1>4, SignedRange DEF m
<1> HIDE DEF v, raw
<1>6. ASSUME m.numeric, v.k # "null", Unscaled(v, m) = raw
      PROVE  Encoded(dt, v, endian) = data
  <2>1. Encoded(dt, v, endian) = WriteInt(raw, m.size, flip)
    BY <1>5, <1>6 DEF Encoded, flip
  <2>2. QED  BY <1>4, <2>1
<1>7. CASE u = m.sentinel
  <2>1. v.k = "null" /\ NoValue.k = "nullopt"
    BY <1>3, <1>7 DEF Null, NoValue
  <2>2. Encoded(dt, v, endian) = WriteInt(m.sentinel, m.size, flip)
    BY <1>1, <2>1 DEF Encoded, flip
  <2>3. QED  BY <1>2, <1>4, <1>7, <2>1, <2>2 DEF v
<1>8. CASE u # m.sentinel /\ m.den # 1
  <2>1. m.den \in {2, 16, 256}
    BY <1>1, <1>8
  <2>2. f \in Int /\ OnBus(f, m.den) = raw
    BY <1>5, <2>1, ScaleBack
  <2>3. v = Fixed(f)
    BY <1>3, <1>8
  <2> HIDE DEF f
  <2>4. v.k = "fixed" /\ v.v = f /\ NoValue.k = "nullopt"
    BY <2>3 DEF Fixed, NoValue
  <2>5. Unscaled(v, m) = raw
    BY <2>2, <2>4 DEF Unscaled, OnBus
  <2>6. QED  BY <1>1, <1>2, <1>6, <2>4, <2>5 DEF v
<1>9. CASE u # m.sentinel /\ m.den = 1
  <2>1. v = Whole(raw)
    BY <1>3, <1>9
  <2>2. v.k = "int" /\ v.v = raw /\ NoValue.k = "nullopt"
    BY <2>1 DEF Whole, NoValue
  <2>3. AsInt64(v) = raw
    BY <2>2 DEF AsInt64
  <2>4. Unscaled(v, m) = raw
    BY <1>5, <1>9, <2>2, <2>3 DEF Unscaled
  <2>5. QED  BY <1>1, <1>2, <1>6, <2>2, <2>4 DEF v
<1>10. QED  BY <1>7, <1>8, <1>9

\* A number that is written, and what is read then.
LEMMA NumberBack ==
  ASSUME NEW dt \in DataType, dt # "BCD", NumberKind(Meta[dt]), NEW n \in Int, NEW endian,
         NEW out, out = Encoded(dt, Whole(n), endian), out # << >>
  PROVE  LET m == Meta[dt]
         IN  Decode(dt, out, endian) =
               IF ReadInt(out, m.size, Flip(m, endian)) = m.sentinel THEN Null
               ELSE IF m.den = 1 THEN Whole(n) ELSE Fixed(n * 1000000)
<1> DEFINE m == Meta[dt]
           flip == Flip(m, endian)
           w == Whole(n)
           raw == n * m.den
<1>1. m.numeric /\ m.size \in {1, 2} /\ m.den \in {1, 2, 16, 256} /\ flip \in BOOLEAN
  BY FlipType DEF NumberKind
<1>2. w.k = "int" /\ w.v = n
  BY DEF Whole
<1>3. raw \in Int /\ Unscaled(w, m) = raw
  <2> HIDE DEF w
  <2>1. AsInt64(w) = n
    BY <1>2 DEF AsInt64
  <2>2. QED  BY <1>1, <1>2, <2>1 DEF Unscaled
<1> HIDE DEF raw
<1>4. InRange(raw, m) /\ out = WriteInt(raw, m.size, flip)
  <2> HIDE DEF w
  <2>1. out = IF InRange(raw, m) THEN WriteInt(raw, m.size, flip) ELSE << >>
    BY <1>1, <1>2, <1>3 DEF Encoded, w
  <2>2. QED  BY <2>1
<1> HIDE DEF flip, w
<1> DEFINE u == raw % Span(m.size)
           read == IF m.signed THEN Signed(u, m.size) ELSE u
<1>5. out \in Seq(Byte) /\ Len(out) = m.size /\ ReadInt(out, m.size, flip) = u
  <2> DEFINE size == m.size
  <2>1. size \in {1, 2} /\ out = WriteInt(raw, size, flip)
    BY <1>1, <1>4
  <2> HIDE DEF size
  <2>2. out \in Seq(Byte) /\ Len(out) = size /\ ReadInt(out, size, flip) = raw % Span(size)
    BY <1>1, <1>3, <2>1, WriteRead
  <2>3. QED  BY <2>2 DEF size
<1>6. read = raw
  <2> HIDE DEF m
  <2> QED  BY <1>3, <1>4, SignedBack DEF m
<1> HIDE DEF u
<1>7. Decode(dt, out, endian) =
        IF u = m.sentinel THEN Null
        ELSE IF m.den # 1 THEN Fixed(Millionths(read, m.den)) ELSE Whole(read)
  <2>1. ~(Len(out) < m.size)
    BY <1>1, <1>5
  <2>2. QED  BY <1>1, <1>5, <2>1 DEF Decode, Millionths, flip
<1>8. CASE m.den = 1
  <2>1. raw = n
    BY <1>8 DEF raw
  <2>2. QED  BY <1>5, <1>6, <1>7, <1>8, <2>1 DEF flip
<1>9. CASE m.den # 1
  <2>1. m.den \in {2, 16, 256}
    BY <1>1, <1>9
  <2>2. Millionths(n * m.den, m.den) = n * 1000000
    BY <2>1, ScaleWhole
  <2>3. Millionths(read, m.den) = n * 1000000
    BY <1>6, <2>2 DEF raw
  <2> HIDE DEF read
  <2>4. QED  BY <1>5, <1>7, <1>9, <2>3 DEF flip
<1>10. QED  BY <1>8, <1>9

\* The same of two packed digits.
LEMMA BcdBack ==
  ASSUME NEW dt \in DataType, dt = "BCD", NEW n \in Int, NEW endian,
         NEW out, out = Encoded(dt, Whole(n), endian), out # << >>
  PROVE  LET m == Meta[dt]
         IN  Decode(dt, out, endian) =
               IF ReadInt(out, m.size, Flip(m, endian)) = m.sentinel THEN Null
               ELSE IF m.den = 1 THEN Whole(n) ELSE Fixed(n * 1000000)
<1> DEFINE m == Meta[dt]
           w == Whole(n)
           u == (n \div 10) * 16 + (n % 10)
<1>1. m.numeric /\ m.size = 1 /\ m.den = 1 /\ m.sentinel = 255 /\ ~m.signed
  BY MetaKinds DEF BcdKind
<1>2. w.k = "int" /\ w.v = n
  BY DEF Whole
<1>3. AsInt64(w) = n
  <2> HIDE DEF w
  <2> QED  BY <1>2 DEF AsInt64
<1>4. n \in 0..99 /\ out = << u >>
  <2> HIDE DEF w
  <2>1. out = IF n \notin 0..99 THEN << >> ELSE << u >>
    BY <1>1, <1>2, <1>3 DEF Encoded, w
  <2>2. QED  BY <2>1
<1>5. u \in Nat /\ u # 255 /\ IsBcd(u) /\ (u \div 16) * 10 + (u % 16) = n
  <2> DEFINE p == n \div 10
             q == n % 10
  <2>1. p \in 0..9 /\ q \in 0..9 /\ n = 10 * p + q
    BY <1>4
  <2> HIDE DEF p, q
  <2>2. (p * 16 + q) \div 16 = p /\ (p * 16 + q) % 16 = q /\ p * 16 + q < 255
        /\ p * 16 + q \in Nat /\ p * 10 + q = n
    BY <2>1
  <2>3. QED  BY <2>1, <2>2 DEF IsBcd, p, q
<1> HIDE DEF u
<1>6. Len(out) = 1 /\ \A flip : ReadInt(out, m.size, flip) = u
  BY <1>1, <1>4 DEF ReadInt
<1>7. Decode(dt, out, endian) = Whole(n)
  <2>1. ~(Len(out) < m.size)
    BY <1>1, <1>6
  <2>2. QED  BY <1>1, <1>5, <1>6, <2>1 DEF Decode
<1>8. QED  BY <1>1, <1>5, <1>6, <1>7

\* What DataRoundTrip says of a field, and of a number.
FieldTrips(dt, data, endian) ==
  LET v == Decode(dt, data, endian)
  IN  /\ v = NoValue <=> ~IsValidData(dt, data)
      /\ v # NoValue => Encoded(dt, v, endian) = data

NumberTrips(dt, n, endian) ==
  LET m   == Meta[dt]
      out == Encoded(dt, Whole(n), endian)
  IN  out # << >> =>
        Decode(dt, out, endian) =
          IF ReadInt(out, m.size, Flip(m, endian)) = m.sentinel THEN Null
          ELSE IF m.den = 1 THEN Whole(n)
          ELSE Fixed(n * 1000000)

\* The field of a type never outgrows it.
DataOK(a) ==
  /\ a \in [dt : DataType, data : Seq(Byte)]
  /\ Len(a.data) <= Meta[a.dt].size

DataInv == unit = "data" => DataOK(x)

\* The field grows by one byte.
LEMMA DataNext ==
  ASSUME DataInv, [PlainNext]_vars
  PROVE  DataInv'
<1>1. CASE UNCHANGED vars
  BY <1>1 DEF DataInv, vars
<1>2. SUFFICES ASSUME PlainNext, unit = "data", unit' = unit, DataOK(x)
               PROVE  DataOK(x')
  BY <1>1, Zenon
     DEF DataInv, PlainNext, MoreBytes, MoreExchange, CutExchange, MoreData, Send,
         FlushSome, Wait, Fetch, ResetAll, ReadWire, Expire, WriteSyn, Transmit, Configure,
         PassByteTime, Of
<1>3. MoreData
  BY <1>2
     DEF PlainNext, MoreBytes, MoreExchange, CutExchange, Send, FlushSome, Wait, Fetch,
         ResetAll, ReadWire, Expire, WriteSyn, Transmit, Configure, PassByteTime, Of
<1>4. PICK b \in DataBytes : x' = [x EXCEPT !.data = Append(@, b)]
  BY <1>3 DEF MoreData
<1> DEFINE more == Append(x.data, b)
           size == Meta[x.dt].size
<1>5. b \in Byte /\ x.data \in Seq(Byte) /\ x.dt \in DataType /\ Len(x.data) < size
  BY <1>2, <1>3, UnitsAssumption DEF DataOK, MoreData
<1>6. size \in Nat
  BY <1>5, MetaKinds DEF BcdKind, TextKind, NumberKind
<1>7. more \in Seq(Byte) /\ Len(more) = Len(x.data) + 1
  BY <1>5
<1>8. x' = [x EXCEPT !.data = more]
  BY <1>4
<1> HIDE DEF more
<1>9. x'.data = more /\ x'.dt = x.dt /\ x' \in [dt : DataType, data : Seq(Byte)]
  BY <1>2, <1>7, <1>8 DEF DataOK
<1> HIDE DEF size
<1>10. Len(more) <= size
  BY <1>5, <1>6, <1>7
<1>11. QED  BY <1>9, <1>10 DEF DataOK, size

\* DataRoundTrip (data_types.cpp) for every byte, every integer and both
\* orders of the bytes.
THEOREM DataRoundTripSpec == PlainSpec => []DataRoundTrip
<1>1. PlainInit => DataInv
  <2>1. SUFFICES ASSUME unit = "data", x \in [dt : DataType, data : {<< >>}]
                 PROVE  DataOK(x)
    BY DEF PlainInit, DataInv
  <2>2. x.data = << >> /\ x \in [dt : DataType, data : Seq(Byte)]
    <3>1. << >> \in Seq(Byte)
      OBVIOUS
    <3> DEFINE none == << >>
    <3>2. none \in Seq(Byte) /\ x \in [dt : DataType, data : {none}]
      BY <2>1, <3>1
    <3> HIDE DEF none
    <3>3. x.data = none /\ x \in [dt : DataType, data : Seq(Byte)]
      BY <3>2
    <3>4. QED  BY <3>3 DEF none
  <2>3. Meta[x.dt].size \in Nat /\ Len(x.data) = 0
    BY <2>2, MetaKinds DEF BcdKind, TextKind, NumberKind
  <2>4. QED  BY <2>2, <2>3 DEF DataOK
<1>2. DataInv => DataRoundTrip
  <2> DEFINE dt == x.dt
             data == x.data
             m == Meta[dt]
  <2>1. ASSUME DataOK(x), NEW endian
        PROVE  FieldTrips(dt, data, endian)
    <3>1. dt \in DataType /\ data \in Seq(Byte) /\ Len(data) <= m.size
      BY <2>1 DEF DataOK
    <3>2. m.size \in Nat
      BY <3>1, MetaKinds DEF BcdKind, TextKind, NumberKind
    <3> HIDE DEF dt, data
    <3>3. CASE Len(data) < m.size
      <4>1. ~(Len(data) >= m.size)
        BY <3>1, <3>2, <3>3
      <4>2. QED  BY <3>3, <4>1, ShortTrip DEF FieldTrips
    <3>4. CASE ~(Len(data) < m.size)
      <4>1. Len(data) = m.size
        BY <3>1, <3>2, <3>4
      <4>2. CASE dt = "BCD"
        BY <3>1, <4>1, <4>2, BcdTrip DEF FieldTrips
      <4>3. CASE dt # "BCD"
        <5>1. TextKind(m) \/ NumberKind(m)
          BY <3>1, <4>3, MetaKinds
        <5>2. QED  BY <3>1, <4>1, <4>3, <5>1, TextTrip, NumberTrip DEF FieldTrips
      <4>4. QED  BY <4>2, <4>3
    <3>5. QED  BY <3>3, <3>4
  <2>2. ASSUME DataOK(x), NEW endian, NEW n \in WholeValues, m.numeric
        PROVE  NumberTrips(dt, n, endian)
    <3>1. n \in Int /\ dt \in DataType
      BY <2>2, UnitsAssumption DEF DataOK
    <3> DEFINE out == Encoded(dt, Whole(n), endian)
    <3> HIDE DEF dt, out
    <3>2. SUFFICES ASSUME out # << >>
                   PROVE  Decode(dt, out, endian) =
                            IF ReadInt(out, m.size, Flip(m, endian)) = m.sentinel THEN Null
                            ELSE IF m.den = 1 THEN Whole(n) ELSE Fixed(n * 1000000)
      BY DEF NumberTrips, out
    <3>3. CASE dt = "BCD"
      BY <3>1, <3>2, <3>3, BcdBack DEF out
    <3>4. CASE dt # "BCD"
      <4>1. NumberKind(m)
        BY <2>2, <3>1, <3>4, MetaKinds DEF TextKind
      <4>2. QED  BY <3>1, <3>2, <3>4, <4>1, NumberBack DEF out
    <3>5. QED  BY <3>3, <3>4
  <2>3. SUFFICES ASSUME unit = "data", DataOK(x)
                 PROVE  DataRoundTrip
    BY DEF DataInv, DataRoundTrip
  <2>4. \A endian \in {"little", "big"} :
          /\ FieldTrips(dt, data, endian)
          /\ data = << >> /\ m.numeric =>
               \A n \in WholeValues : NumberTrips(dt, n, endian)
    BY <2>1, <2>2, <2>3
  <2>5. QED  BY ONLY <2>4 DEF DataRoundTrip, FieldTrips, NumberTrips
<1>3. QED  BY <1>1, <1>2, DataNext, PTL DEF PlainSpec
=============================================================================
