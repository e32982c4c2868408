------------------------- MODULE ArbitrationProofs -------------------------
(***************************************************************************)
(* Arbitration is safe for every set of masters, every assignment of       *)
(* distinct master addresses and lock counters, and every mix of the two   *)
(* platforms.                                                              *)
(***************************************************************************)
EXTENDS Arbitration, RequestProofs

-----------------------------------------------------------------------------
\* What one byte does to one Request that may have been told of its write.

\* A delivery in which the state machine reads a byte other than SYN.
LEMMA DeliverByte ==
  ASSUME NEW r \in RequestType, NEW F, NEW n, NEW b \in Byte \ {Syn},
         NEW d, d = Deliver(r, n \in F, b)
  PROVE  /\ d \in RequestType
         /\ d.request_address = r.request_address
         /\ d.lock_counter_max = r.lock_counter_max
         /\ d.state \in {"observe", "retry"}
         /\ d.state = "retry" =>
              /\ d.bus_request
              /\ d.result \notin WonResults
              /\ r.state = "first" \/ (n \in F /\ r.state = "observe")
              /\ PriorityClass(b) = PriorityClass(r.request_address)
         /\ d.state = "observe" /\ d.bus_request => r.bus_request /\ n \notin F
         /\ IF d.result \in WonResults
            THEN /\ d.lock_counter = r.lock_counter_max
                 /\ b = r.request_address
                 /\ r.state \in {"first", "second"} \/ (n \in F /\ r.state = "observe")
            ELSE d.lock_counter = r.lock_counter
  <1> DEFINE q == IF n \in F THEN BusRequestCompleted(r) ELSE r
  <1>1. /\ q \in RequestType
        /\ q.request_address = r.request_address
        /\ q.lock_counter_max = r.lock_counter_max
        /\ q.lock_counter = r.lock_counter
        /\ q.bus_request => r.bus_request /\ n \notin F
        /\ q.state = IF n \in F /\ r.state = "observe" THEN "first" ELSE r.state
    BY CompletedEffect DEF RequestType
  <1>2. d = Run(q, b)
    BY DEF Deliver
  <1> HIDE DEF q
  <1>3. q.state \in States /\ b # Syn /\ b \in Byte
    BY <1>1 DEF RequestType
  <1>4. CASE q.state = "observe"
    BY <1>1, <1>2, <1>3, <1>4, ObserveEffect DEF Run
  <1>5. CASE q.state = "first"
    <2>1. d = First(q, b)
      BY <1>2, <1>5 DEF Run
    <2> QED  BY <1>1, <1>3, <1>5, <2>1, FirstEffect
  <1>6. CASE q.state = "retry"
    <2>1. d = Retry(q, b)
      BY <1>2, <1>6 DEF Run
    <2> QED  BY <1>1, <1>3, <1>6, <2>1, RetryEffect
  <1>7. CASE q.state = "second"
    <2>1. d = Second(q, b)
      BY <1>2, <1>7 DEF Run
    <2> QED  BY <1>1, <1>3, <1>7, <2>1, SecondEffect
  <1> QED  BY <1>3, <1>4, <1>5, <1>6, <1>7 DEF States

\* What a SYN does to Request r of master n, told of its write if it is in F.
SynEffect(r, F, n, d) ==
  /\ d \in RequestType
  /\ d.request_address = r.request_address
  /\ d.lock_counter_max = r.lock_counter_max
  /\ d.bus_request => r.bus_request /\ n \notin F
  /\ d.state \in {"observe", "first", "second"}
  /\ d.state = "first" => r.state = "first" \/ (n \in F /\ r.state = "observe")
  /\ d.state = "second" <=> r.state = "retry"
  /\ d.result = "observe_syn" => d.state = "observe"
  /\ IF d.result \in WonResults
     THEN r.state = "second" /\ Syn = r.request_address
     ELSE d.lock_counter <= r.lock_counter /\ d.lock_counter + 1 >= r.lock_counter

\* A delivery in which it reads a SYN.
LEMMA DeliverSyn ==
  ASSUME NEW r \in RequestType, NEW F, NEW n, NEW d, d = Deliver(r, n \in F, Syn)
  PROVE  SynEffect(r, F, n, d)
  <1> USE DEF SynEffect
  <1> DEFINE q == IF n \in F THEN BusRequestCompleted(r) ELSE r
  <1>1. /\ q \in RequestType
        /\ q.request_address = r.request_address
        /\ q.lock_counter_max = r.lock_counter_max
        /\ q.lock_counter = r.lock_counter
        /\ q.bus_request => r.bus_request /\ n \notin F
        /\ q.state = IF n \in F /\ r.state = "observe" THEN "first" ELSE r.state
    BY CompletedEffect DEF RequestType
  <1>2. d = Run(q, Syn) /\ Syn \in Byte
    BY DEF Deliver, Syn, Byte
  <1> HIDE DEF q
  <1>3. q.state \in States /\ r.state \in States /\ q.lock_counter \in Nat
    BY <1>1 DEF RequestType, LockLimit
  <1>4. CASE q.state = "observe"
    <2>1. d = Observe(q, Syn)
      BY <1>2, <1>4 DEF Run
    <2> QED  BY <1>1, <1>2, <1>3, <1>4, <2>1, ObserveEffect DEF States
  <1>5. CASE q.state = "first"
    <2>1. d = First(q, Syn)
      BY <1>2, <1>5 DEF Run
    <2>2. "first_syn" \notin WonResults
      BY DEF WonResults
    <2> QED  BY <1>1, <1>2, <1>3, <1>5, <2>1, <2>2, FirstEffect DEF States
  <1>6. CASE q.state = "retry"
    <2>1. d = Retry(q, Syn)
      BY <1>2, <1>6 DEF Run
    <2> QED  BY <1>1, <1>2, <1>3, <1>6, <2>1, RetryEffect DEF States
  <1>7. CASE q.state = "second"
    <2>1. d = Second(q, Syn)
      BY <1>2, <1>7 DEF Run
    <2> QED  BY <1>1, <1>2, <1>3, <1>7, <2>1, SecondEffect DEF States
  <1> QED  BY <1>3, <1>4, <1>5, <1>6, <1>7 DEF States

-----------------------------------------------------------------------------
\* The wire.

\* A set of master nibbles has a least one.
LEMMA LeastNibble ==
  ASSUME NEW T \in SUBSET MasterNibble, T # {}
  PROVE  Least(T) \in T /\ \A y \in T : Least(T) <= y
  <1>1. \A y \in T : y \in {0, 1, 3, 7, 15}
    BY DEF MasterNibble
  <1>2. \E x \in T : \A y \in T : x <= y
    <2>1. CASE 0 \in T
      BY <1>1, <2>1
    <2>2. CASE 0 \notin T /\ 1 \in T
      BY <1>1, <2>2
    <2>3. CASE 0 \notin T /\ 1 \notin T /\ 3 \in T
      BY <1>1, <2>3
    <2>4. CASE 0 \notin T /\ 1 \notin T /\ 3 \notin T /\ 7 \in T
      BY <1>1, <2>4
    <2>5. CASE 0 \notin T /\ 1 \notin T /\ 3 \notin T /\ 7 \notin T
      BY <1>1, <2>5
    <2> QED  BY <2>1, <2>2, <2>3, <2>4, <2>5
  <1> QED  BY <1>2 DEF Least

\* The AND of master addresses is a master address, and no SYN.
LEMMA WiredAndMaster ==
  ASSUME NEW S \in SUBSET {b \in Byte : IsMaster(b)}, S # {}
  PROVE  WiredAnd(S) \in Byte \ {Syn}
  <1>1. ASSUME NEW T \in SUBSET MasterNibble, T # {}
        PROVE  Least(T) \in MasterNibble
    BY <1>1, LeastNibble
  <1>2. {Hi(b) : b \in S} \in SUBSET MasterNibble /\ {Hi(b) : b \in S} # {}
    BY DEF IsMaster
  <1>3. {Lo(b) : b \in S} \in SUBSET MasterNibble /\ {Lo(b) : b \in S} # {}
    BY DEF IsMaster
  <1>4. Least({Hi(b) : b \in S}) \in MasterNibble /\ Least({Lo(b) : b \in S}) \in MasterNibble
    BY <1>1, <1>2, <1>3
  <1> QED  BY <1>4 DEF WiredAnd, MasterNibble, Byte, Syn

\* The AND of master addresses of one priority class is one of them.
LEMMA WiredAndInClass ==
  ASSUME NEW S \in SUBSET {b \in Byte : IsMaster(b)}, S # {},
         \A x, y \in S : PriorityClass(x) = PriorityClass(y)
  PROVE  WiredAnd(S) \in S
  <1> DEFINE H == {Hi(b) : b \in S}
             L == {Lo(b) : b \in S}
  <1>1. H \in SUBSET MasterNibble /\ H # {} /\ L \in SUBSET MasterNibble /\ L # {}
    BY DEF IsMaster
  <1>2. Least(H) \in H /\ Least(L) \in L
    <2> HIDE DEF H, L
    <2> QED  BY <1>1, LeastNibble
  <1>3. PICK x \in S : Least(H) = Hi(x)
    BY <1>2
  <1>4. PICK y \in S : Least(L) = Lo(y)
    BY <1>2
  <1>5. Lo(x) = Lo(y)
    BY DEF PriorityClass
  <1>6. WiredAnd(S) = 16 * Hi(x) + Lo(x)
    BY <1>3, <1>4, <1>5 DEF WiredAnd
  <1>7. x \in 0..255 /\ 16 * Hi(x) + Lo(x) = x
    BY DEF Byte, Hi, Lo
  <1> QED  BY <1>6, <1>7

-----------------------------------------------------------------------------
\* The inductive invariant.

\* The lock counter and the SYNs counted since the last win add up; a master
\* that contends, or whose address has been written, contends with its own
\* address; and bus_request_ is never set while a round is being decided,
\* except by a write that is still to be reported.
MasterInv(n) ==
  /\ req[n].lock_counter_max = LockMax[n]
  /\ quiet[n] <= LockMax[n]
  /\ quiet[n] + req[n].lock_counter >= LockMax[n]
  /\ Contends(n) \/ n \in flag =>
       req[n].request_address = Addr[n] /\ quiet[n] = LockMax[n]
  /\ req[n].state = "first" => ~req[n].bus_request
  /\ req[n].state = "second" /\ req[n].bus_request => n \in flag

\* While somebody owns the bus, no round is being decided.
WireInv ==
  /\ slot = "address" => owner = {} /\ writers # {}
  /\ owner # {} => flag = {} /\ \A n \in Masters : req[n].state \in {"observe", "retry"}
  /\ flag # {} => \A n \in Masters : req[n].state # "retry"

IInv ==
  /\ TypeOK
  /\ \A n \in Masters : MasterInv(n)
  /\ WireInv
  /\ MutualExclusion
  /\ RetryRound

\* The invariant holds when the masters are constructed.
LEMMA InitInv == Init => IInv
  <1> SUFFICES ASSUME Init PROVE IInv
    OBVIOUS
  <1>1. \A n \in Masters : LockMax[n] \in 0..LockLimit /\ LockMax[n] \in Nat
    BY ArbitrationAssumption DEF LockLimit
  <1>2. \A n \in Masters :
          /\ req[n] \in RequestType
          /\ req[n].state = "observe" /\ ~req[n].bus_request
          /\ req[n].lock_counter = LockMax[n] /\ req[n].lock_counter_max = LockMax[n]
    BY <1>1, NewEffect DEF Init
  <1>3. TypeOK
    <2>1. req \in [Masters -> RequestType]
      BY <1>2 DEF Init
    <2>2. quiet \in [Masters -> 0..LockLimit]
      BY DEF Init, LockLimit
    <2> QED  BY <2>1, <2>2 DEF Init, TypeOK
  <1>4. \A n \in Masters : MasterInv(n)
    BY <1>1, <1>2 DEF Init, MasterInv, Contends
  <1>5. WireInv /\ MutualExclusion /\ RetryRound
    BY <1>2 DEF Init, WireInv, MutualExclusion, RetryRound
  <1> QED  BY <1>3, <1>4, <1>5 DEF IInv

\* All masters read a byte other than SYN.  At most one of them can win, and
\* none while another owns the bus.
LEMMA SettleInv ==
  ASSUME IInv, NEW b \in Byte \ {Syn}, Settle(ReadAll(flag, b)),
         slot' \in {"idle", "data"}
  PROVE  IInv'
  <1> USE DEF IInv
  <1> DEFINE r == ReadAll(flag, b)
  <1>1. ASSUME NEW n \in Masters
        PROVE  /\ req[n] \in RequestType /\ (n \in flag) \in BOOLEAN
               /\ req'[n] = Deliver(req[n], n \in flag, b)
    BY DEF TypeOK, Settle, ReadAll
  <1>2. ASSUME NEW n \in Masters
        PROVE  /\ req'[n] \in RequestType
               /\ req'[n].request_address = req[n].request_address
               /\ req'[n].lock_counter_max = req[n].lock_counter_max
               /\ req'[n].state \in {"observe", "retry"}
               /\ req'[n].state = "retry" =>
                    /\ req'[n].bus_request
                    /\ req'[n].result \notin WonResults
                    /\ req[n].state = "first" \/ (n \in flag /\ req[n].state = "observe")
                    /\ PriorityClass(b) = PriorityClass(req[n].request_address)
               /\ req'[n].state = "observe" /\ req'[n].bus_request
                    => req[n].bus_request /\ n \notin flag
               /\ IF req'[n].result \in WonResults
                  THEN /\ req'[n].lock_counter = req[n].lock_counter_max
                       /\ b = req[n].request_address
                       /\ \/ req[n].state \in {"first", "second"}
                          \/ n \in flag /\ req[n].state = "observe"
                  ELSE req'[n].lock_counter = req[n].lock_counter
    BY <1>1, DeliverByte
  <1>3. /\ writers' = {} /\ flag' = {}
        /\ owner' = owner \cup Winners(req')
        /\ want' \subseteq want
        /\ \A n \in Masters :
             quiet'[n] = IF req'[n].result \in WonResults THEN 0 ELSE quiet[n]
        /\ quiet' \in [Masters -> 0..LockLimit]
    <2>1. quiet' = [n \in Masters |-> IF n \in Winners(req') THEN 0 ELSE quiet[n]]
      BY DEF Settle
    <2>2. quiet' \in [Masters -> 0..LockLimit]
      BY <2>1 DEF TypeOK, LockLimit
    <2> QED  BY <2>1, <2>2 DEF Settle, Winners
  <1>4. TypeOK'
    <2>1. req' \in [Masters -> RequestType]
      BY <1>2 DEF Settle, ReadAll
    <2>2. owner' \subseteq Masters
      BY <1>3 DEF TypeOK, Winners
    <2> QED  BY <1>3, <2>1, <2>2 DEF TypeOK
  <1>5. ASSUME NEW n \in Masters, req'[n].result \in WonResults
        PROVE  b = Addr[n] /\ owner = {}
    BY <1>2, <1>5 DEF MasterInv, Contends, WireInv
  <1>6. MutualExclusion'
    <2>1. \A m, n \in Winners(req') : m = n
      BY <1>5, ArbitrationAssumption DEF Winners
    <2>2. Winners(req') # {} => owner = {}
      BY <1>5 DEF Winners
    <2> QED  BY <1>3, <2>1, <2>2 DEF MutualExclusion
  <1>7. ASSUME NEW n \in Masters PROVE MasterInv(n)'
    <2>1. /\ LockMax[n] \in Nat /\ quiet[n] \in Nat
          /\ req[n].lock_counter \in Nat /\ req[n].state \in States
      BY <1>1, ArbitrationAssumption, SMTT(40) DEF TypeOK, RequestType, LockLimit
    <2>2. CASE req'[n].result \in WonResults
      <3>1. /\ req'[n].state = "observe" /\ quiet'[n] = 0
            /\ req'[n].lock_counter = LockMax[n]
        BY <1>2, <1>3, <2>2 DEF MasterInv
      <3>2. ~req'[n].bus_request
        BY <1>2, <2>2, <3>1 DEF MasterInv
      <3> QED  BY <1>2, <1>3, <2>1, <3>1, <3>2 DEF MasterInv, Contends
    <2>3. CASE req'[n].result \notin WonResults
      <3>1. quiet'[n] = quiet[n] /\ req'[n].lock_counter = req[n].lock_counter
        BY <1>2, <1>3, <2>3
      <3>2. Contends(n)' => Contends(n) \/ n \in flag
        BY <1>2 DEF Contends
      <3> QED  BY <1>2, <1>3, <2>1, <3>1, <3>2 DEF MasterInv
    <2> QED  BY <2>2, <2>3
  <1>8. WireInv'
    BY <1>2, <1>3 DEF WireInv
  <1>9. RetryRound'
    <2>1. ASSUME NEW n \in Masters, req'[n].state = "retry"
          PROVE  PriorityClass(b) = PriorityClass(Addr[n]) /\ req'[n].bus_request
      BY <1>2, <2>1 DEF MasterInv, Contends
    <2> QED  BY <1>2, <2>1 DEF RetryRound
  <1> QED  BY <1>4, <1>6, <1>7, <1>8, <1>9

\* All masters read a SYN, and some of them write their address after it.
LEMMA SynInv ==
  ASSUME IInv, SynByte
  PROVE  IInv'
  <1> USE DEF IInv
  <1> DEFINE armed == {n \in Masters : req[n].bus_request}
             F == flag \cup {n \in armed : Platform[n] = "posix"}
             d(n) == Deliver(req[n], n \in F, Syn)
  <1>1. /\ writers' = armed /\ owner' = {} /\ want' = want
        /\ flag' = {n \in armed : Platform[n] = "esp"}
        /\ slot' = IF armed = {} THEN "idle" ELSE "address"
        /\ quiet' = [n \in Masters |->
                       IF quiet[n] < LockMax[n] THEN quiet[n] + 1 ELSE quiet[n]]
    BY DEF SynByte
  <1>2. ASSUME NEW n \in Masters
        PROVE  /\ req'[n] = SynAt(n, armed)
               /\ req'[n] = d(n) \/ req'[n] = RequestBus(d(n), Addr[n], FALSE)
               /\ req[n] \in RequestType
               /\ n \in F => n \in flag \/ req[n].bus_request
               /\ req[n].bus_request /\ n \notin F => n \in flag'
    <2>1. req'[n] = SynAt(n, armed)
      BY DEF SynByte
    <2>2. SynAt(n, armed) \in {d(n), RequestBus(d(n), Addr[n], FALSE)}
      BY DEF SynAt, Deliver
    <2>3. req[n] \in RequestType /\ Platform[n] \in {"posix", "esp"}
      BY ArbitrationAssumption DEF TypeOK
    <2> QED  BY <1>1, <2>1, <2>2, <2>3
  <1>3. ASSUME NEW n \in Masters
        PROVE  /\ d(n) \in RequestType
               /\ d(n).request_address = req[n].request_address
               /\ d(n).lock_counter_max = req[n].lock_counter_max
               /\ d(n).bus_request => req[n].bus_request /\ n \notin F
               /\ d(n).state \in {"observe", "first", "second"}
               /\ d(n).state = "first" =>
                    req[n].state = "first" \/ (n \in F /\ req[n].state = "observe")
               /\ d(n).state = "second" <=> req[n].state = "retry"
               /\ d(n).result = "observe_syn" => d(n).state = "observe"
               /\ d(n).lock_counter <= req[n].lock_counter
               /\ d(n).lock_counter + 1 >= req[n].lock_counter
    <2> HIDE DEF F
    <2>1. req[n].state = "second" => req[n].request_address # Syn
      BY ArbitrationAssumption, SynIsNoMaster DEF MasterInv, Contends
    <2> DEFINE e == d(n)
    <2>2. e = Deliver(req[n], n \in F, Syn) /\ req[n] \in RequestType
      BY <1>2
    <2> HIDE DEF e
    <2>3. SynEffect(req[n], F, n, e)
      BY <2>2, DeliverSyn
    <2>4. e.lock_counter <= req[n].lock_counter /\ e.lock_counter + 1 >= req[n].lock_counter
      BY <2>1, <2>3 DEF SynEffect
    <2> QED  BY <2>3, <2>4 DEF e, SynEffect
  <1> HIDE DEF d, F, armed
  <1>4. ASSUME NEW n \in Masters
        PROVE  /\ req'[n] \in RequestType
               /\ req'[n].lock_counter_max = req[n].lock_counter_max
               /\ req'[n].state = d(n).state
               /\ req'[n].lock_counter = d(n).lock_counter
               /\ \/ req'[n] = d(n)
                  \/ /\ d(n).state = "observe" /\ d(n).lock_counter = 0
                     /\ req'[n].request_address = Addr[n]
    <2>1. Addr[n] \in Byte
      BY ArbitrationAssumption
    <2>2. CASE req'[n] = d(n)
      BY <1>3, <2>2
    <2>3. CASE req'[n] = RequestBus(d(n), Addr[n], FALSE)
      <3> DEFINE e == d(n)
                 q == req'[n]
                 x == FALSE
                 a == Addr[n]
      <3>1. e \in RequestType /\ x \in BOOLEAN /\ a \in Byte /\ q = RequestBus(e, a, x)
        BY <1>3, <2>1, <2>3
      <3> HIDE DEF e, q, x, a
      <3>2. /\ q \in RequestType
            /\ q.lock_counter_max = e.lock_counter_max
            /\ q.lock_counter = e.lock_counter
            /\ q.state = e.state
            /\ \/ q = e
               \/ /\ e.result = "observe_syn" /\ e.lock_counter = 0
                  /\ q.bus_request /\ q.request_address = a
        BY ONLY <3>1, RequestBusEffect
      <3> QED  BY <1>3, <3>2 DEF e, q, a
    <2> QED  BY <1>2, <2>2, <2>3
  <1>5. TypeOK'
    <2>1. req' \in [Masters -> RequestType]
      BY <1>4 DEF SynByte
    <2>2. quiet' \in [Masters -> 0..LockLimit]
      BY <1>1, ArbitrationAssumption DEF TypeOK, LockLimit
    <2> QED  BY <1>1, <2>1, <2>2 DEF TypeOK, armed
  <1>6. ASSUME NEW n \in Masters PROVE MasterInv(n)'
    <2>1. /\ LockMax[n] \in Nat /\ quiet[n] \in Nat /\ req[n].lock_counter \in Nat
          /\ d(n).lock_counter \in Nat
      <3>1. d(n) \in RequestType /\ req[n] \in RequestType
        BY <1>2, <1>3
      <3>2. d(n).lock_counter \in Nat /\ req[n].lock_counter \in Nat
        BY <3>1 DEF RequestType, LockLimit
      <3>3. LockMax[n] \in Nat /\ quiet[n] \in Nat
        BY ArbitrationAssumption DEF TypeOK, LockLimit
      <3> QED  BY <3>2, <3>3
    <2>2. quiet'[n] = IF quiet[n] < LockMax[n] THEN quiet[n] + 1 ELSE quiet[n]
      BY <1>1
    <2>3. /\ req'[n].lock_counter_max = LockMax[n]
          /\ quiet'[n] <= LockMax[n]
          /\ quiet'[n] + req'[n].lock_counter >= LockMax[n]
      BY <1>3, <1>4, <2>1, <2>2 DEF MasterInv
    <2>4. n \in flag' => req[n].bus_request
      BY <1>1 DEF armed
    <2>5. CASE req'[n] = d(n)
      <3>1. Contends(n)' \/ n \in flag' => Contends(n) \/ n \in flag
        BY <1>2, <1>3, <2>4, <2>5 DEF Contends
      <3>2. Contends(n)' \/ n \in flag' =>
              req'[n].request_address = Addr[n] /\ quiet'[n] = LockMax[n]
        BY <1>3, <2>1, <2>2, <2>5, <3>1 DEF MasterInv
      <3>3. req'[n].state = "first" => ~req'[n].bus_request
        BY <1>3, <2>5 DEF MasterInv
      <3>4. req'[n].state = "second" /\ req'[n].bus_request => n \in flag'
        BY <1>2, <1>3, <2>5
      <3> QED  BY <2>3, <3>2, <3>3, <3>4 DEF MasterInv
    <2>6. CASE /\ d(n).state = "observe" /\ d(n).lock_counter = 0
               /\ req'[n].request_address = Addr[n]
      <3>1. req'[n].state = "observe" /\ quiet'[n] = LockMax[n]
        BY <1>4, <2>1, <2>2, <2>3, <2>6
      <3> QED  BY <2>3, <2>6, <3>1 DEF MasterInv
    <2> QED  BY <1>4, <2>5, <2>6
  <1>7. WireInv' /\ MutualExclusion'
    BY <1>1, <1>3, <1>4 DEF WireInv, MutualExclusion
  <1>8. RetryRound'
    <2>1. ASSUME NEW n \in Masters
          PROVE  /\ req'[n].state # "retry"
                 /\ req'[n].state = "second" => req[n].state = "retry" /\ n \in writers'
      BY <1>1, <1>3, <1>4 DEF RetryRound, armed
    <2> QED  BY <2>1 DEF RetryRound
  <1> QED  BY <1>5, <1>6, <1>7, <1>8

-----------------------------------------------------------------------------
\* Every step keeps the invariant.
LEMMA NextInv == IInv /\ [Next]_vars => IInv'
  <1> SUFFICES ASSUME IInv, [Next]_vars PROVE IInv'
    OBVIOUS
  <1>1. ASSUME NEW n \in Masters, Want(n) PROVE IInv'
    BY <1>1 DEF Want, IInv, TypeOK, MasterInv, Contends, WireInv,
                MutualExclusion, RetryRound
  <1>2. CASE SynByte
    BY <1>2, SynInv
  <1>3. CASE AddressByte
    <2>1. PICK b \in {WiredAnd({Addr[n] : n \in writers})} \cup Foreign :
            Settle(ReadAll(flag, b)) /\ slot' \in {"idle", "data"}
      BY <1>3 DEF AddressByte
    <2>2. WiredAnd({Addr[n] : n \in writers}) \in Byte \ {Syn}
      <3>1. writers # {} /\ writers \subseteq Masters
        BY <1>3 DEF AddressByte, IInv, WireInv, TypeOK
      <3> QED  BY <3>1, WiredAndMaster, ArbitrationAssumption
    <2>3. b \in Byte \ {Syn}
      BY <2>1, <2>2, ArbitrationAssumption
    <2> QED  BY <2>1, <2>3, SettleInv
  <1>4. CASE AddressLost
    BY <1>4 DEF AddressLost, IInv, TypeOK, MasterInv, Contends, WireInv,
                MutualExclusion, RetryRound
  <1>5. CASE DataByte
    <2>1. PICK b \in Payload : Settle(ReadAll(flag, b))
      BY <1>5 DEF DataByte
    <2>2. b \in Byte \ {Syn} /\ slot' \in {"idle", "data"}
      BY <1>5, ArbitrationAssumption DEF DataByte
    <2> QED  BY <2>1, <2>2, SettleInv
  <1>6. CASE ForeignByte
    <2>1. PICK b \in Foreign : Settle(ReadAll(flag, b))
      BY <1>6 DEF ForeignByte
    <2>2. b \in Byte \ {Syn} /\ slot' \in {"idle", "data"}
      BY <1>6, ArbitrationAssumption DEF ForeignByte
    <2> QED  BY <2>1, <2>2, SettleInv
  <1>7. CASE UNCHANGED vars
    BY <1>7 DEF vars, IInv, TypeOK, MasterInv, Contends, WireInv,
                MutualExclusion, RetryRound
  <1> QED  BY <1>1, <1>2, <1>3, <1>4, <1>5, <1>6, <1>7 DEF Next

\* The inductive invariant holds in every reachable state.
THEOREM Invariant == Spec => []IInv
  BY InitInv, NextInv, PTL DEF Spec

\* The variables keep their types: the lock counter, which request.cpp
\* decrements in observe, never goes below zero or above its limit.
THEOREM TypeCorrect == Spec => []TypeOK
  <1>1. IInv => TypeOK
    BY DEF IInv
  <1> QED  BY <1>1, Invariant, PTL

\* At most one master owns the bus, whatever the others and the devices that
\* do not run this code put on the wire, and however many writes are lost.
THEOREM MutualExclusionHolds == Spec => []MutualExclusion
  <1>1. IInv => MutualExclusion
    BY DEF IInv
  <1> QED  BY <1>1, Invariant, PTL

\* No master asks or contends for the bus before LockMax SYNs have passed
\* since it last won.
THEOREM LockRespectedHolds == Spec => []LockRespected
  <1>1. IInv => LockRespected
    BY DEF IInv, MasterInv, LockRespected
  <1> QED  BY <1>1, Invariant, PTL

\* Masters in the second round have one priority class and all write.
THEOREM RetryRoundHolds == Spec => []RetryRound
  <1>1. IInv => RetryRound
    BY DEF IInv
  <1> QED  BY <1>1, Invariant, PTL

-----------------------------------------------------------------------------
\* The second round.

\* A master in the second round that reads its own address has won.
LEMMA SecondWins ==
  ASSUME NEW r \in RequestType, r.state = "second", NEW F, NEW n,
         NEW d, d = Deliver(r, n \in F, r.request_address)
  PROVE  d.result \in WonResults
  <1> DEFINE q == IF n \in F THEN BusRequestCompleted(r) ELSE r
  <1>1. /\ q \in RequestType /\ q.state = "second"
        /\ q.request_address = r.request_address
    BY CompletedEffect
  <1>2. d = Run(q, r.request_address)
    BY DEF Deliver
  <1> HIDE DEF q
  <1>3. d = Won(q, "second_won")
    BY <1>1, <1>2 DEF Run, Second
  <1>4. "second_won" \in Results /\ "second_won" \in WonResults
    BY ResultFacts
  <1>5. d.result = "second_won"
    BY <1>1, <1>3, <1>4, WonEffect
  <1> QED  BY <1>4, <1>5

\* The addresses of masters in the second round, and no others, are read.
LEMMA SecondRound ==
  ASSUME IInv, slot = "address", NEW b, b = WiredAnd({Addr[n] : n \in writers}),
         Settle(ReadAll(flag, b)), \A n \in writers : req[n].state = "second"
  PROVE  \E n \in writers : owner' = {n}
  <1> USE DEF IInv
  <1> DEFINE S == {Addr[n] : n \in writers}
  <1>1. writers \subseteq Masters /\ writers # {} /\ owner = {}
    BY DEF TypeOK, WireInv
  <1>2. S \in SUBSET {x \in Byte : IsMaster(x)} /\ S # {}
    BY <1>1, ArbitrationAssumption
  <1>3. \A x, y \in S : PriorityClass(x) = PriorityClass(y)
    BY <1>1 DEF RetryRound
  <1>4. WiredAnd(S) \in S /\ WiredAnd(S) \in Byte \ {Syn}
    <2> HIDE DEF S
    <2> QED  BY <1>2, <1>3, WiredAndInClass, WiredAndMaster
  <1>5. PICK n \in writers : b = Addr[n]
    BY <1>4
  <1>6. /\ n \in Masters /\ req[n] \in RequestType /\ req[n].state = "second"
        /\ b = req[n].request_address /\ b \in Byte \ {Syn}
    BY <1>1, <1>4, <1>5 DEF TypeOK, MasterInv, Contends
  <1>7. \A m \in Masters : req'[m] = Deliver(req[m], m \in flag, b)
    BY DEF Settle, ReadAll
  <1>8. req'[n].result \in WonResults
    <2> DEFINE d == req'[n]
    <2>1. d = Deliver(req[n], n \in flag, req[n].request_address)
      BY <1>6, <1>7
    <2> HIDE DEF d
    <2>2. d.result \in WonResults
      BY <1>6, <2>1, SecondWins
    <2> QED  BY <2>2 DEF d
  <1>9. ASSUME NEW m \in Masters, req'[m].result \in WonResults
        PROVE  m = n
    <2> DEFINE d == req'[m]
    <2>1. d = Deliver(req[m], m \in flag, b) /\ req[m] \in RequestType /\ d.result \in WonResults
      BY <1>7, <1>9 DEF TypeOK
    <2> HIDE DEF d
    <2>2. /\ b = req[m].request_address
          /\ req[m].state \in {"first", "second"} \/ (m \in flag /\ req[m].state = "observe")
      BY <1>6, <2>1, DeliverByte
    <2>3. b = Addr[m]
      BY <2>2 DEF MasterInv, Contends
    <2> QED  BY <1>5, <1>6, <2>3, ArbitrationAssumption
  <1>10. Winners(req') = {n}
    BY <1>6, <1>8, <1>9 DEF Winners
  <1>11. owner' = owner \cup Winners(req')
    BY DEF Settle
  <1> QED  BY <1>1, <1>10, <1>11

\* The retry decides: when only masters of the second round have written and
\* nothing else is read, exactly one of them owns the bus afterwards.
THEOREM SecondRoundDecidesHolds == Spec => SecondRoundDecides
  <1> DEFINE A == /\ slot = "address" /\ slot' # "address"
                  /\ writers # {} /\ \A n \in writers : req[n].state = "second"
             B == \/ \E n \in writers : owner' = {n}
                  \/ req' = req
                  \/ \E b \in Foreign : req' = ReadAll(flag, b)
  <1>1. ASSUME IInv, Next, A PROVE B
    <2>1. AddressByte \/ AddressLost
      BY <1>1 DEF Next, Want, SynByte, DataByte, ForeignByte
    <2>2. CASE AddressLost
      BY <2>2 DEF AddressLost
    <2>3. CASE AddressByte
      <3>1. PICK b \in {WiredAnd({Addr[n] : n \in writers})} \cup Foreign :
              Settle(ReadAll(flag, b))
        BY <2>3 DEF AddressByte
      <3>2. CASE b \in Foreign
        BY <3>1, <3>2 DEF Settle
      <3>3. CASE b = WiredAnd({Addr[n] : n \in writers})
        BY <1>1, <3>1, <3>3, SecondRound
      <3> QED  BY <3>1, <3>2, <3>3
    <2> QED  BY <2>1, <2>2, <2>3
  <1>2. IInv /\ [Next]_vars => [A => B]_vars
    BY <1>1
  <1> QED  BY <1>2, Invariant, PTL DEF Spec, SecondRoundDecides
=============================================================================
