------------------------------ MODULE Request ------------------------------
(***************************************************************************)
(* The arbitration state machine of one master (src/ebus/core/request.cpp).*)
(* A Request object is a record; every method is an operator that takes    *)
(* the object and returns the object after the call, so that the modules   *)
(* that own one Request (BusHandler) or several (Arbitration) apply the    *)
(* methods in the order in which the bus thread calls them.                *)
(*                                                                         *)
(*   state            state_                                               *)
(*   result           result_                                              *)
(*   bus_request      bus_request_: an address byte is to be written       *)
(*                    after the next SYN                                   *)
(*   external         external_bus_request_: a bridge client asked         *)
(*   request_address  request_address_                                     *)
(*   lock_counter, lock_counter_max                                        *)
(*   bytes_since_syn  bytes_since_syn_, saturated at Many: the code only   *)
(*                    compares it with collision_byte_count (1)            *)
(***************************************************************************)
EXTENDS Address

States == {"observe", "first", "retry", "second"}

WonResults  == {"first_won", "second_won"}
LostResults == {"first_lost", "first_error", "second_lost", "second_error"}
WaitResults == {"first_syn", "first_retry", "retry_syn"}
IdleResults == {"observe_syn", "observe_data", "retry_error"}
Results     == WonResults \cup LostResults \cup WaitResults \cup IdleResults

Many == 2

\* RequestLimits::lock_counter_max
LockLimit == 25

RequestType ==
  [state : States, result : Results, bus_request : BOOLEAN, external : BOOLEAN,
   request_address : Byte, lock_counter : 0..LockLimit,
   lock_counter_max : 0..LockLimit, bytes_since_syn : 0..Many]

\* A Request as it is constructed: both lock counters come from the
\* configured value, the result is observe_syn.
New(lock) ==
  [state |-> "observe", result |-> "observe_syn", bus_request |-> FALSE,
   external |-> FALSE, request_address |-> 0, lock_counter |-> lock,
   lock_counter_max |-> lock, bytes_since_syn |-> 0]

-----------------------------------------------------------------------------
\* transition_masks and transitionTo: a transition the table does not allow
\* falls back to observe.
Allowed ==
  [observe |-> {"observe", "first"},
   first   |-> {"observe", "first", "retry"},
   retry   |-> {"observe", "second"},
   second  |-> {"observe"}]

Target(from, next) ==
  IF next = from \/ next \in Allowed[from] THEN next ELSE "observe"

-----------------------------------------------------------------------------
\* The methods.

Reset(r) ==
  [r EXCEPT !.lock_counter = r.lock_counter_max, !.bytes_since_syn = 0,
            !.bus_request = FALSE, !.state = Target(r.state, "observe")]

SetLockCounter(r, n) ==
  LET m == IF n < LockLimit THEN n ELSE LockLimit
  IN  [r EXCEPT !.lock_counter_max = m,
                !.lock_counter = IF @ > m THEN m ELSE @]

BusAvailable(r) ==
  r.result = "observe_syn" /\ r.lock_counter = 0 /\ ~r.bus_request

RequestBus(r, address, external) ==
  IF BusAvailable(r)
  THEN [r EXCEPT !.request_address = address, !.external = external,
                 !.bus_request = TRUE]
  ELSE r

\* The physical layer wrote the address byte.  The callback that
\* busRequestCompleted makes (to the handler or to the client manager) is
\* the caller's part of the step.
BusRequestCompleted(r) ==
  [r EXCEPT !.bus_request = FALSE,
            !.state = IF @ = "observe" THEN Target(@, "first") ELSE @]

StartBit(r) ==
  [r EXCEPT !.bus_request = FALSE, !.state = Target(r.state, "observe"),
            !.result = "observe_syn"]

-----------------------------------------------------------------------------
\* run(byte): one operator per state handler.

To(r, next, result, bytes) ==
  [r EXCEPT !.state = Target(r.state, next), !.result = result,
            !.bytes_since_syn = bytes]

\* Mutant: the win does not reload the lock counter.
WonKeepsLock(r, result) == To(r, "observe", result, 0)

Won(r, result) ==
  [To(r, "observe", result, 0) EXCEPT !.lock_counter = r.lock_counter_max]

\* Mutant: the lock counter is decremented below zero.
ObserveUnderflow(r, byte) ==
  IF byte = Syn
  THEN [r EXCEPT !.result = "observe_syn", !.bytes_since_syn = 0,
                 !.lock_counter = IF r.bytes_since_syn # 1 THEN @ - 1 ELSE @]
  ELSE [r EXCEPT !.result = "observe_data",
                 !.bytes_since_syn = IF @ < Many THEN @ + 1 ELSE @]

\* Mutant: the collision test of the lock counter is inverted.
ObserveCountsCollisions(r, byte) ==
  IF byte = Syn
  THEN [r EXCEPT !.result = "observe_syn", !.bytes_since_syn = 0,
                 !.lock_counter =
                    IF r.bytes_since_syn = 1 /\ @ > 0 THEN @ - 1 ELSE @]
  ELSE [r EXCEPT !.result = "observe_data",
                 !.bytes_since_syn = IF @ < Many THEN @ + 1 ELSE @]

Observe(r, byte) ==
  IF byte = Syn
  THEN [r EXCEPT !.result = "observe_syn", !.bytes_since_syn = 0,
                 !.lock_counter =
                    IF r.bytes_since_syn # 1 /\ @ > 0 THEN @ - 1 ELSE @]
  ELSE [r EXCEPT !.result = "observe_data",
                 !.bytes_since_syn = IF @ < Many THEN @ + 1 ELSE @]

\* Mutant: the priority class alone decides the first round.
FirstWonByClass(r, byte) ==
  IF byte = Syn THEN To(r, "first", "first_syn", 0)
  ELSE IF PriorityClass(byte) = PriorityClass(r.request_address)
  THEN Won(r, "first_won")
  ELSE To(r, "observe", "first_lost", 1)

\* Mutant: the retry is not armed at once.
FirstNotArmed(r, byte) ==
  IF byte = Syn THEN To(r, "first", "first_syn", 0)
  ELSE IF byte = r.request_address THEN Won(r, "first_won")
  ELSE IF ~IsMaster(byte) THEN To(r, "observe", "first_error", 1)
  ELSE IF PriorityClass(byte) = PriorityClass(r.request_address)
  THEN To(r, "retry", "first_retry", 1)
  ELSE To(r, "observe", "first_lost", 1)

First(r, byte) ==
  IF byte = Syn THEN To(r, "first", "first_syn", 0)
  ELSE IF byte = r.request_address THEN Won(r, "first_won")
  ELSE IF ~IsMaster(byte) THEN To(r, "observe", "first_error", 1)
  ELSE IF PriorityClass(byte) = PriorityClass(r.request_address)
  THEN [To(r, "retry", "first_retry", 1) EXCEPT !.bus_request = TRUE]
  ELSE To(r, "observe", "first_lost", 1)

Retry(r, byte) ==
  IF byte = Syn THEN To(r, "second", "retry_syn", 0)
  ELSE To(r, "observe", "retry_error", 1)

\* Mutant: the second round compares the priority class, as the first does.
SecondByClass(r, byte) ==
  IF PriorityClass(byte) = PriorityClass(r.request_address)
  THEN Won(r, "second_won")
  ELSE To(r, "observe", "second_lost", 1)

\* Mutant: who loses the second round waits for another one.
SecondAgain(r, byte) ==
  IF byte = r.request_address THEN Won(r, "second_won")
  ELSE IF IsMaster(byte)
  THEN [r EXCEPT !.state = "retry", !.result = "second_lost",
                 !.bytes_since_syn = 1, !.bus_request = TRUE]
  ELSE To(r, "observe", "second_error", 1)

Second(r, byte) ==
  IF byte = r.request_address THEN Won(r, "second_won")
  ELSE IF IsMaster(byte) THEN To(r, "observe", "second_lost", 1)
  ELSE To(r, "observe", "second_error", 1)

Run(r, byte) ==
  IF r.state = "observe" THEN Observe(r, byte)
  ELSE IF r.state = "first" THEN First(r, byte)
  ELSE IF r.state = "retry" THEN Retry(r, byte)
  ELSE Second(r, byte)
=============================================================================
