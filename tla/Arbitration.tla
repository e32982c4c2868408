---------------------------- MODULE Arbitration ----------------------------
(***************************************************************************)
(* Several masters that run request.cpp contend for one wire.              *)
(*                                                                         *)
(* The wire is a wired AND: when masters write at the same time, all of    *)
(* them read the AND of what they wrote.  After a SYN every master whose   *)
(* bus_request_ is set writes its address (BusPosix::armRequestTimer,      *)
(* BusEsp::onBusIsrTimer); what they read back decides who owns the bus.   *)
(* All masters read every byte, and a step of this module is one byte.     *)
(*                                                                         *)
(* The two platforms report the write at different bytes: the POSIX reader *)
(* sets bus_request on the SYN event itself, the ESP timer sets a flag     *)
(* after the SYN event, which the next event carries.                      *)
(***************************************************************************)
EXTENDS Request, FiniteSets

CONSTANTS
  Masters,   \* the masters that run this code
  Addr,      \* their addresses
  LockMax,   \* their configured lock counters
  Platform,  \* "posix" or "esp" for each of them
  Payload,   \* bytes that an owner sends after its address
  Foreign,   \* bytes that other devices, or noise, may put on the wire
  Lossy      \* may a written address fail to appear on the wire?

ASSUME ArbitrationAssumption ==
  /\ Addr \in [Masters -> {b \in Byte : IsMaster(b)}]
  /\ \A m, n \in Masters : Addr[m] = Addr[n] => m = n
  /\ LockMax \in [Masters -> 0..LockLimit]
  /\ Platform \in [Masters -> {"posix", "esp"}]
  /\ Payload \subseteq Byte \ {Syn}
  /\ Foreign \subseteq Byte \ {Syn}
  /\ Lossy \in BOOLEAN

VARIABLES
  req,      \* the Request object of each master
  want,     \* masters whose handler holds an active message
  writers,  \* masters that write their address in the current slot
  flag,     \* ESP masters whose bus_request_flag_ is set
  owner,    \* masters that believe they own the bus
  slot,     \* "idle", "address" (SYN seen, addresses written) or "data"
  quiet     \* history: SYNs since a master last won, up to its LockMax

vars == <<req, want, writers, flag, owner, slot, quiet>>

-----------------------------------------------------------------------------
\* The AND of master addresses.  Their nibbles are 0, 1, 3, 7 or 15, a chain
\* of bit sets, so the AND is the smaller one, nibble by nibble.
Least(S) == CHOOSE x \in S : \A y \in S : x <= y

WiredAnd(S) == 16 * Least({Hi(b) : b \in S}) + Least({Lo(b) : b \in S})

Init ==
  /\ req = [n \in Masters |-> New(LockMax[n])]
  /\ want = {} /\ writers = {} /\ flag = {} /\ owner = {}
  /\ slot = "idle"
  /\ quiet = [n \in Masters |-> 0]

\* The scheduler hands the handler of n a message (sendActiveMessage).
Want(n) ==
  /\ n \notin want
  /\ want' = want \cup {n}
  /\ UNCHANGED <<req, writers, flag, owner, slot, quiet>>

\* BusHandler::onBusEvent, as far as the Request object is concerned.
Deliver(r, bus_request, byte) ==
  Run(IF bus_request THEN BusRequestCompleted(r) ELSE r, byte)

\* Every master reads byte b; the ones in completed are told that their
\* address has been written.
ReadAll(completed, b) ==
  [n \in Masters |-> Deliver(req[n], n \in completed, b)]

\* What a SYN does to master n when armed have their address written after
\* it.  The handler asks for the bus at the end of the SYN event when it has
\* a message and is in passive_receive_master; the master that has just sent
\* is in release_bus.
SynAt(n, armed) ==
  LET told == n \in flag \/ (n \in armed /\ Platform[n] = "posix")
      r    == Deliver(req[n], told, Syn)
  IN  IF n \in want /\ n \notin owner THEN RequestBus(r, Addr[n], FALSE) ELSE r

SynByte ==
  LET armed == {n \in Masters : req[n].bus_request}
  IN  /\ slot # "address"
      /\ req' = [n \in Masters |-> SynAt(n, armed)]
      /\ writers' = armed
      /\ flag' = {n \in armed : Platform[n] = "esp"}
      /\ owner' = {}
      /\ slot' = IF armed = {} THEN "idle" ELSE "address"
      /\ quiet' = [n \in Masters |->
                     IF quiet[n] < LockMax[n] THEN quiet[n] + 1 ELSE quiet[n]]
      /\ UNCHANGED want

\* Masters that read byte b as their own address have won.
Winners(r) == {n \in Masters : r[n].result \in WonResults}

\* Handler::requestBus: the message leaves active_message_ when the master
\* wins and sends it, and is dropped when it loses; the scheduler may offer
\* it again (Want).
Dropped(r) ==
  {n \in Masters : r[n].result \in WonResults \cup LostResults \cup {"retry_error"}}

\* The masters read a byte other than SYN and have the Requests r after it.
Settle(r) ==
  /\ req' = r
  /\ owner' = owner \cup Winners(r)
  /\ want' = want \ Dropped(r)
  /\ quiet' = [n \in Masters |-> IF n \in Winners(r) THEN 0 ELSE quiet[n]]
  /\ writers' = {}
  /\ flag' = {}

\* The addresses written after the SYN arrive: their AND, or, when another
\* device interferes, some other byte.
AddressByte ==
  /\ slot = "address"
  /\ \E b \in {WiredAnd({Addr[n] : n \in writers})} \cup Foreign :
       LET r == ReadAll(flag, b)
       IN  /\ Settle(r)
           /\ slot' = IF Winners(r) # {} \/ b \in Foreign THEN "data" ELSE "idle"

\* The written addresses never appear on the wire; the ESP flag stays set.
AddressLost ==
  /\ Lossy
  /\ slot = "address"
  /\ writers' = {}
  /\ slot' = "idle"
  /\ UNCHANGED <<req, want, flag, owner, quiet>>

\* The owner sends a further byte.
DataByte ==
  /\ slot = "data"
  /\ owner # {}
  /\ \E b \in Payload : Settle(ReadAll(flag, b))
  /\ UNCHANGED slot

\* Another device sends a byte without having taken part in an arbitration.
ForeignByte ==
  /\ slot # "address"
  /\ owner = {}
  /\ \E b \in Foreign : Settle(ReadAll(flag, b))
  /\ slot' = "data"

Next ==
  \/ \E n \in Masters : Want(n)
  \/ SynByte
  \/ AddressByte
  \/ AddressLost
  \/ DataByte
  \/ ForeignByte

\* Bytes keep coming: a SYN follows every idle or finished slot (the SYN
\* generator), and written addresses are read back.
Fairness == WF_vars(SynByte) /\ WF_vars(AddressByte)

Spec     == Init /\ [][Next]_vars
FairSpec == Spec /\ Fairness

-----------------------------------------------------------------------------
TypeOK ==
  /\ req \in [Masters -> RequestType]
  /\ want \subseteq Masters
  /\ writers \subseteq Masters
  /\ flag \subseteq Masters
  /\ owner \subseteq Masters
  /\ slot \in {"idle", "address", "data"}
  /\ quiet \in [Masters -> 0..LockLimit]

\* At most one master believes that it owns the bus.  request.cpp decides
\* this from the byte it reads back (first, second), including a byte read
\* in the middle of another master's message.
MutualExclusion == \A m, n \in owner : m = n

Contends(n) == req[n].state # "observe" \/ req[n].bus_request

\* A master that asks for the bus or contends for it has let LockMax SYNs
\* pass since it last won (lock_counter_ is reloaded by both wins, counts
\* down in observe only, and gates requestBus).
LockRespected ==
  \A n \in Masters : Contends(n) => quiet[n] = LockMax[n]

\* Masters in the second round were beaten by the same byte in the first:
\* they have one priority class, and all of them write after the SYN.
RetryRound ==
  \A n \in Masters :
    /\ req[n].state = "retry" => req[n].bus_request
    /\ req[n].state = "second" /\ slot = "address" => n \in writers
    /\ \A m \in Masters :
         {req[m].state, req[n].state} \subseteq {"retry", "second"}
            => PriorityClass(Addr[m]) = PriorityClass(Addr[n])

\* The retry at the next SYN decides: when the addresses of the masters in
\* the second round, and no others, are read, exactly one master wins.
SecondRoundDecides ==
  [][ /\ slot = "address" /\ slot' # "address"
      /\ writers # {} /\ \A n \in writers : req[n].state = "second"
      => \/ \E n \in writers : owner' = {n}
         \/ req' = req                          \* AddressLost
         \/ \E b \in Foreign : req' = ReadAll(flag, b) ]_vars

\* The address that n wrote never appeared, and n waits for the next byte that
\* is no SYN: first and second pass over a SYN (request.cpp), and the ESP driver
\* still has its flag set.  Without AddressLost nobody gets here.
Stranded(n) ==
  slot # "address" /\ (n \in flag \/ req[n].state \in {"first", "second"})

\* A step with a lost address or a byte of another device.
Disturbed ==
  \/ AddressLost
  \/ ForeignByte
  \/ slot = "address" /\ \E b \in Foreign : req' = ReadAll(flag, b)

\* Once the handlers are offered no further messages and nothing disturbs the
\* wire any more, every message that one of them holds leaves it, won or lost,
\* unless its address was lost: no master waits for the bus forever
\* (requestBus, the lock counter and the two rounds never block each other,
\* whatever state the disturbances have left).  While messages keep being
\* offered this fails: a SYN after one byte leaves lock_counter_ alone, and
\* newcomers can spoil every second round.
MessageLeaves ==
  <>[][want' \subseteq want /\ ~Disturbed]_vars
    => \A n \in Masters : n \in want ~> n \notin want \/ Stranded(n)

\* No master stays in the arbitration, whatever the others and other devices do,
\* but for one whose address was lost: request.cpp has no timeout for it.
EveryContentionEnds ==
  \A n \in Masters :
    req[n].state # "observe" ~> req[n].state = "observe" \/ Stranded(n)
=============================================================================
