--------------------------- MODULE RequestProofs ---------------------------
(***************************************************************************)
(* What each method of a Request does, for every Request and every byte:   *)
(* the lemmas that ArbitrationProofs and BusHandlerProofs rest on.         *)
(***************************************************************************)
EXTENDS Request, TLAPS

-----------------------------------------------------------------------------
\* What one byte does to one Request.

\* The transitions that the methods ask for are in the table.
LEMMA TargetFacts ==
  /\ \A s \in States : Target(s, "observe") = "observe"
  /\ Target("observe", "first") = "first"
  /\ Target("first", "first") = "first"
  /\ Target("first", "retry") = "retry"
  /\ Target("retry", "second") = "second"
  BY DEF Target, Allowed, States

\* BusRequestCompleted clears bus_request_ and starts the first round from
\* observe only.
LEMMA CompletedEffect ==
  ASSUME NEW r \in RequestType, NEW d, d = BusRequestCompleted(r)
  PROVE  /\ d \in RequestType
         /\ d.request_address = r.request_address
         /\ d.lock_counter_max = r.lock_counter_max
         /\ d.lock_counter = r.lock_counter
         /\ ~d.bus_request
         /\ d.state = IF r.state = "observe" THEN "first" ELSE r.state
  BY TargetFacts DEF BusRequestCompleted, RequestType, States

\* Wins are told from the other results.
LEMMA ResultFacts ==
  /\ {"first_won", "second_won"} \subseteq Results \cap WonResults
  /\ {"first_lost", "first_error", "second_lost", "second_error", "first_syn",
      "first_retry", "retry_syn", "observe_syn", "observe_data", "retry_error"}
       \subseteq Results \ WonResults
  BY DEF Results, WonResults, LostResults, WaitResults, IdleResults

\* To changes the state, the result and the byte count.
LEMMA ToEffect ==
  ASSUME NEW r \in RequestType, NEW next, NEW result \in Results, NEW n \in 0..Many,
         Target(r.state, next) \in States, NEW d, d = To(r, next, result, n)
  PROVE  /\ d \in RequestType
         /\ d.request_address = r.request_address
         /\ d.lock_counter_max = r.lock_counter_max
         /\ d.lock_counter = r.lock_counter
         /\ d.bus_request = r.bus_request
         /\ d.state = Target(r.state, next)
         /\ d.result = result
  BY DEF To, RequestType

\* A win also reloads the lock counter.
LEMMA WonEffect ==
  ASSUME NEW r \in RequestType, NEW result \in Results, NEW d, d = Won(r, result)
  PROVE  /\ d \in RequestType
         /\ d.request_address = r.request_address
         /\ d.lock_counter_max = r.lock_counter_max
         /\ d.lock_counter = r.lock_counter_max
         /\ d.bus_request = r.bus_request
         /\ d.state = "observe"
         /\ d.result = result
  <1> DEFINE t == To(r, "observe", result, 0)
  <1>1. Target(r.state, "observe") = "observe" /\ "observe" \in States /\ 0 \in 0..Many
    BY TargetFacts DEF RequestType, Many, States
  <1>2. /\ t \in RequestType
        /\ t.request_address = r.request_address
        /\ t.lock_counter_max = r.lock_counter_max
        /\ t.bus_request = r.bus_request
        /\ t.state = "observe"
        /\ t.result = result
    BY <1>1, ToEffect
  <1>3. d = [t EXCEPT !.lock_counter = r.lock_counter_max]
    BY DEF Won
  <1> HIDE DEF t
  <1> QED  BY <1>2, <1>3 DEF RequestType

\* In observe, only the lock counter moves, and only on a SYN.
LEMMA ObserveEffect ==
  ASSUME NEW r \in RequestType, r.state = "observe", NEW b \in Byte,
         NEW d, d = Observe(r, b)
  PROVE  /\ d \in RequestType
         /\ d.request_address = r.request_address
         /\ d.lock_counter_max = r.lock_counter_max
         /\ d.bus_request = r.bus_request
         /\ d.state = "observe"
         /\ d.result = IF b = Syn THEN "observe_syn" ELSE "observe_data"
         /\ d.result \notin WonResults
         /\ b # Syn => d.lock_counter = r.lock_counter
         /\ d.lock_counter <= r.lock_counter
         /\ d.lock_counter + 1 >= r.lock_counter
  <1>1. r.lock_counter \in 0..LockLimit /\ r.bytes_since_syn \in 0..Many
    BY DEF RequestType
  <1>2. CASE b = Syn
    <2> DEFINE l == IF r.bytes_since_syn # 1 /\ r.lock_counter > 0
                    THEN r.lock_counter - 1 ELSE r.lock_counter
    <2>1. d = [r EXCEPT !.result = "observe_syn", !.bytes_since_syn = 0, !.lock_counter = l]
      BY <1>2 DEF Observe
    <2>2. /\ l \in 0..LockLimit /\ l <= r.lock_counter /\ l + 1 >= r.lock_counter
          /\ 0 \in 0..Many
      BY <1>1 DEF LockLimit, Many
    <2> HIDE DEF l
    <2> QED  BY <1>1, <1>2, <2>1, <2>2, ResultFacts DEF RequestType
  <1>3. CASE b # Syn
    <2> DEFINE n == IF r.bytes_since_syn < Many THEN r.bytes_since_syn + 1
                    ELSE r.bytes_since_syn
    <2>1. d = [r EXCEPT !.result = "observe_data", !.bytes_since_syn = n]
      BY <1>3 DEF Observe
    <2>2. n \in 0..Many /\ r.lock_counter <= r.lock_counter
             /\ r.lock_counter + 1 >= r.lock_counter
      BY <1>1 DEF Many, LockLimit
    <2> HIDE DEF n
    <2> QED  BY <1>1, <1>3, <2>1, <2>2, ResultFacts DEF RequestType
  <1> QED  BY <1>2, <1>3

\* The first round ends with the first byte that is not a SYN.
LEMMA FirstEffect ==
  ASSUME NEW r \in RequestType, r.state = "first", NEW b \in Byte,
         NEW d, d = First(r, b)
  PROVE  /\ d \in RequestType
         /\ d.request_address = r.request_address
         /\ d.lock_counter_max = r.lock_counter_max
         /\ b = Syn => /\ d.state = "first" /\ d.result = "first_syn"
                       /\ d.bus_request = r.bus_request
                       /\ d.lock_counter = r.lock_counter
         /\ b # Syn =>
              /\ d.state \in {"observe", "retry"}
              /\ d.state = "retry" =>
                   /\ d.bus_request
                   /\ d.result = "first_retry"
                   /\ d.result \notin WonResults
                   /\ PriorityClass(b) = PriorityClass(r.request_address)
              /\ d.state = "observe" =>
                   /\ d.bus_request = r.bus_request
                   /\ d.result \in {"first_won", "first_lost", "first_error"}
              /\ IF d.result \in WonResults
                 THEN d.lock_counter = r.lock_counter_max /\ b = r.request_address
                 ELSE d.lock_counter = r.lock_counter
  <1>1. 0 \in 0..Many /\ 1 \in 0..Many /\ {"observe", "first", "retry"} \subseteq States
    BY DEF Many, States
  <1>2. CASE b = Syn
    <2>1. d = To(r, "first", "first_syn", 0)
      BY <1>2 DEF First
    <2> QED  BY <1>1, <1>2, <2>1, ToEffect, TargetFacts, ResultFacts
  <1>3. CASE b # Syn /\ b = r.request_address
    <2>1. d = Won(r, "first_won")
      BY <1>3 DEF First
    <2>2. "first_won" \in Results /\ "first_won" \in WonResults
      BY DEF Results, WonResults
    <2> QED  BY <1>1, <1>3, <2>1, <2>2, WonEffect
  <1>4. CASE b # Syn /\ b # r.request_address /\ d = To(r, "observe", "first_error", 1)
    BY <1>1, <1>4, ToEffect, TargetFacts, ResultFacts
  <1>5. CASE b # Syn /\ b # r.request_address /\ d = To(r, "observe", "first_lost", 1)
    BY <1>1, <1>5, ToEffect, TargetFacts, ResultFacts
  <1>6. CASE /\ b # Syn /\ b # r.request_address
             /\ PriorityClass(b) = PriorityClass(r.request_address)
             /\ d = [To(r, "retry", "first_retry", 1) EXCEPT !.bus_request = TRUE]
    <2> DEFINE t == To(r, "retry", "first_retry", 1)
    <2>1. /\ t \in RequestType
          /\ t.request_address = r.request_address
          /\ t.lock_counter_max = r.lock_counter_max
          /\ t.lock_counter = r.lock_counter
          /\ t.state = "retry"
          /\ t.result = "first_retry"
      BY <1>1, ToEffect, TargetFacts, ResultFacts
    <2>2. d = [t EXCEPT !.bus_request = TRUE]
      BY <1>6
    <2> HIDE DEF t
    <2>3. /\ d \in RequestType
          /\ d.request_address = r.request_address
          /\ d.lock_counter_max = r.lock_counter_max
          /\ d.lock_counter = r.lock_counter
          /\ d.state = "retry" /\ d.bus_request /\ d.result = "first_retry"
      BY <2>1, <2>2 DEF RequestType
    <2> QED  BY <1>6, <2>3, ResultFacts
  <1> QED  BY <1>2, <1>3, <1>4, <1>5, <1>6 DEF First

\* A retry is the next SYN or nothing.
LEMMA RetryEffect ==
  ASSUME NEW r \in RequestType, r.state = "retry", NEW b \in Byte,
         NEW d, d = Retry(r, b)
  PROVE  /\ d \in RequestType
         /\ d.request_address = r.request_address
         /\ d.lock_counter_max = r.lock_counter_max
         /\ d.lock_counter = r.lock_counter
         /\ d.bus_request = r.bus_request
         /\ d.result \notin WonResults
         /\ d.result = IF b = Syn THEN "retry_syn" ELSE "retry_error"
         /\ d.state = IF b = Syn THEN "second" ELSE "observe"
  <1>1. 0 \in 0..Many /\ 1 \in 0..Many /\ {"observe", "retry", "second"} \subseteq States
    BY DEF Many, States
  <1>2. CASE b = Syn
    <2>1. d = To(r, "second", "retry_syn", 0)
      BY <1>2 DEF Retry
    <2> QED  BY <1>1, <1>2, <2>1, ToEffect, TargetFacts, ResultFacts
  <1>3. CASE b # Syn
    <2>1. d = To(r, "observe", "retry_error", 1)
      BY <1>3 DEF Retry
    <2> QED  BY <1>1, <1>3, <2>1, ToEffect, TargetFacts, ResultFacts
  <1> QED  BY <1>2, <1>3

\* The second round ends with the next byte.
LEMMA SecondEffect ==
  ASSUME NEW r \in RequestType, r.state = "second", NEW b \in Byte,
         NEW d, d = Second(r, b)
  PROVE  /\ d \in RequestType
         /\ d.request_address = r.request_address
         /\ d.lock_counter_max = r.lock_counter_max
         /\ d.bus_request = r.bus_request
         /\ d.result \in {"second_won", "second_lost", "second_error"}
         /\ d.state = "observe"
         /\ IF d.result \in WonResults
            THEN d.lock_counter = r.lock_counter_max /\ b = r.request_address
            ELSE d.lock_counter = r.lock_counter
  <1>1. 1 \in 0..Many /\ {"observe", "second"} \subseteq States
    BY DEF Many, States
  <1>2. CASE b = r.request_address
    <2>1. d = Won(r, "second_won")
      BY <1>2 DEF Second
    <2>2. "second_won" \in Results /\ "second_won" \in WonResults
      BY DEF Results, WonResults
    <2> QED  BY <1>2, <2>1, <2>2, WonEffect
  <1>3. CASE b # r.request_address
    <2>1. \/ d = To(r, "observe", "second_lost", 1)
          \/ d = To(r, "observe", "second_error", 1)
      BY <1>3 DEF Second
    <2> QED  BY <1>1, <1>3, <2>1, ToEffect, TargetFacts, ResultFacts
  <1> QED  BY <1>2, <1>3

\* A new Request observes, locked.
LEMMA NewEffect ==
  ASSUME NEW l \in 0..LockLimit
  PROVE  /\ New(l) \in RequestType
         /\ New(l).state = "observe" /\ ~New(l).bus_request
         /\ New(l).lock_counter = l /\ New(l).lock_counter_max = l
  BY DEF New, RequestType, States, Results, WonResults, LostResults,
         WaitResults, IdleResults, LockLimit, Many, Byte

\* RequestBus asks only for a Request that observes and is not locked.
LEMMA RequestBusEffect ==
  ASSUME NEW r \in RequestType, NEW a \in Byte, NEW x \in BOOLEAN,
         NEW d, d = RequestBus(r, a, x)
  PROVE  /\ d \in RequestType
         /\ d.lock_counter_max = r.lock_counter_max
         /\ d.lock_counter = r.lock_counter
         /\ d.state = r.state /\ d.result = r.result
         /\ \/ d = r
            \/ /\ r.result = "observe_syn" /\ r.lock_counter = 0
               /\ d.bus_request /\ d.request_address = a
  BY DEF RequestBus, BusAvailable, RequestType

\* No master has the address SYN.
LEMMA SynIsNoMaster == Syn \in Byte /\ ~IsMaster(Syn)
  BY DEF Syn, Byte, IsMaster, Hi, Lo, MasterNibble

-----------------------------------------------------------------------------
\* The summary of run(byte): r reads b and becomes d.
RunEffect(r, b, d) ==
  /\ d \in RequestType
  /\ d.request_address = r.request_address
  /\ r.state = "observe" =>
       /\ d.state = "observe" /\ d.bus_request = r.bus_request
       /\ d.result = IF b = Syn THEN "observe_syn" ELSE "observe_data"
  /\ r.state = "first" =>
       \/ /\ b = Syn
          /\ d.state = "first" /\ d.bus_request = r.bus_request /\ d.result = "first_syn"
       \/ /\ b # Syn
          /\ d.state = "observe" /\ d.bus_request = r.bus_request
          /\ d.result \in {"first_won", "first_lost", "first_error"}
       \/ /\ b # Syn
          /\ d.state = "retry" /\ d.bus_request /\ d.result = "first_retry"
  /\ r.state = "retry" =>
       /\ d.bus_request = r.bus_request
       /\ d.state = IF b = Syn THEN "second" ELSE "observe"
       /\ d.result = IF b = Syn THEN "retry_syn" ELSE "retry_error"
  /\ r.state = "second" =>
       /\ d.state = "observe" /\ d.bus_request = r.bus_request
       /\ d.result \in {"second_won", "second_lost", "second_error"}
       /\ d.result = "second_won" => b = r.request_address

\* run(byte) has the effect of the handler of its state.
LEMMA RunFacts ==
  ASSUME NEW r \in RequestType, NEW b \in Byte, NEW d, d = Run(r, b)
  PROVE  RunEffect(r, b, d)
  <1>1. r.state \in States
    BY DEF RequestType
  <1>2. CASE r.state = "observe"
    <2>1. d = Observe(r, b)
      BY <1>2 DEF Run
    <2> QED  BY <1>2, <2>1, ObserveEffect DEF RunEffect
  <1>3. CASE r.state = "first"
    <2>1. d = First(r, b)
      BY <1>3 DEF Run
    <2> QED  BY <1>3, <2>1, FirstEffect DEF RunEffect
  <1>4. CASE r.state = "retry"
    <2>1. d = Retry(r, b)
      BY <1>4 DEF Run
    <2> QED  BY <1>4, <2>1, RetryEffect DEF RunEffect
  <1>5. CASE r.state = "second"
    <2>1. d = Second(r, b)
      BY <1>5 DEF Run
    <2>2. "second_won" \in WonResults
      BY DEF WonResults
    <2> QED  BY <1>5, <2>1, <2>2, SecondEffect DEF RunEffect
  <1> QED  BY <1>1, <1>2, <1>3, <1>4, <1>5 DEF States

\* The calls from other threads.

\* reset goes back to observe.
LEMMA ResetEffect ==
  ASSUME NEW r \in RequestType, NEW d, d = Reset(r)
  PROVE  /\ d \in RequestType
         /\ d.request_address = r.request_address /\ d.result = r.result
         /\ d.state = "observe" /\ ~d.bus_request
  <1>1. 0 \in 0..Many /\ Target(r.state, "observe") = "observe" /\ "observe" \in States
    BY TargetFacts DEF RequestType, States, Many
  <1> QED  BY <1>1 DEF Reset, RequestType

\* startBit goes back to observe and forgets the request.
LEMMA StartBitEffect ==
  ASSUME NEW r \in RequestType, NEW d, d = StartBit(r)
  PROVE  /\ d \in RequestType
         /\ d.request_address = r.request_address /\ d.result = "observe_syn"
         /\ d.state = "observe" /\ ~d.bus_request
  BY TargetFacts, ResultFacts DEF StartBit, RequestType, States

\* setLockCounter changes the counters alone.
LEMMA SetLockCounterEffect ==
  ASSUME NEW r \in RequestType, NEW n \in Nat, NEW d, d = SetLockCounter(r, n)
  PROVE  /\ d \in RequestType
         /\ d.request_address = r.request_address /\ d.result = r.result
         /\ d.state = r.state /\ d.bus_request = r.bus_request
  <1> DEFINE m == IF n < LockLimit THEN n ELSE LockLimit
             l == IF r.lock_counter > m THEN m ELSE r.lock_counter
  <1>1. m \in 0..LockLimit /\ r.lock_counter \in 0..LockLimit
    BY DEF LockLimit, RequestType
  <1>2. l \in 0..LockLimit
    BY <1>1 DEF LockLimit
  <1>3. d = [r EXCEPT !.lock_counter_max = m, !.lock_counter = l]
    BY DEF SetLockCounter
  <1> HIDE DEF m, l
  <1> QED  BY <1>1, <1>2, <1>3 DEF RequestType
=============================================================================
