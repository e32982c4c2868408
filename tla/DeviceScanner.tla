--------------------------- MODULE DeviceScanner ---------------------------
(***************************************************************************)
(* The device scanner (src/ebus/app/device_scanner.cpp) with the inventory *)
(* it asks (src/ebus/app/device_manager.cpp, src/ebus/models/device.cpp),  *)
(* as operators on two records.                                            *)
(*                                                                         *)
(* Inventory d: known are the addresses with a device in the pool, ident   *)
(* those whose identification (07 04) was read, parts[a] the vendor data   *)
(* (B5 09 24..27) read so far, seen what getObservedSlaves derives from    *)
(* masters_ and slaves_.  Scanner s: pend, failed and quar are the three   *)
(* bitsets, cnt the attempt counters, cur and cursor the deep scan under   *)
(* way, full and at the full scan, on, count and due the startup scan,     *)
(* attempt tells whether last_scan_attempt_ is its initial minimum, recent *)
(* or more than 30 minutes old, and own is the slave address of            *)
(* own_address_.                                                           *)
(*                                                                         *)
(* Addresses are 1..Top, all of them slave addresses.  0 is the broadcast  *)
(* address, and no address (256 in the code) where one is looked for.      *)
(***************************************************************************)
EXTENDS Integers, FiniteSets, Once

CONSTANTS
  Top,         \* the last slave address
  Vaillants,   \* the devices whose identification names the vendor
  Parts,       \* the number of vendor commands, 4 in the code
  MaxDevices,  \* DeviceLimits::max_devices
  ScanLimit,   \* attempts before an address is quarantined, 10 in the code
  MaxStartup   \* max_startup_scans_

ASSUME ScannerAssumption ==
  /\ Top \in Nat \ {0} /\ Vaillants \subseteq 1..Top
  /\ Parts \in Nat \ {0} /\ MaxDevices \in Nat
  /\ ScanLimit \in Nat \ {0} /\ MaxStartup \in Nat

Addresses == 1..Top
NoAddress == 0

\* A command: where it goes, and what it asks for: the identification (0),
\* one part of the vendor data (1..Parts), who is there (the inquiry of
\* existence, a broadcast) or anything else.  A malformed message is rejected
\* by the handler.
Other     == Parts + 1
Malformed == Parts + 2
Existence == Parts + 3
Nothing   == Parts + 4
Command   == [to : 0..Top, what : 0..Nothing]
NoCommand == [to |-> NoAddress, what |-> Nothing]

Least(S) == CHOOSE a \in S : \A b \in S : a <= b

----------------------------------------------------------------------------
(* The inventory.                                                          *)

NewInventory ==
  [known |-> {}, ident |-> {}, parts |-> [a \in Addresses |-> {}], seen |-> {}]

\* updateEntry: the device takes a place in the pool when it is new, and
\* its answer is stored.
Enter(d, a, own) ==
  IF a \in d.known \cup {own, NoAddress} \/ Cardinality(d.known) >= MaxDevices THEN d
  ELSE [d EXCEPT !.known = @ \cup {a}]

\* Device::update.
Store(d, a, what) ==
  IF a \notin d.known THEN d
  ELSE IF what = 0 THEN [d EXCEPT !.ident = @ \cup {a}]
  ELSE IF what \in 1..Parts THEN [d EXCEPT !.parts[a] = @ \cup {what}]
  ELSE d

\* DeviceManager::update: the slave address of the master that sent the
\* telegram, then the target with its answer.
Update(d, from, to, what, own) ==
  LET met  == [d EXCEPT !.seen = @ \cup ({from, to} \ {NoAddress})]
      both == Enter(Enter(met, from, own), to, own)
  IN IF to = own THEN both ELSE Store(both, to, what)

\* getObservedSlaves.
Observed(d, own) == d.seen \ {own}

\* isIdentified.
IsIdentified(d, a) == a \in d.ident

\* Device::isVaillant, then the vendor data that is still missing.
Missing(d, a) ==
  IF a \in d.ident \cap Vaillants THEN (1..Parts) \ d.parts[a] ELSE {}

\* needsDeepScan: findNextPendingVendorCommand takes any device from this
\* address on.
NeedsDeepScan(d, a) ==
  IsIdentified(d, a) /\ \E b \in a..Top : Missing(d, b) # {}

----------------------------------------------------------------------------
(* The scanner.                                                            *)

NewScanner(own) ==
  [pend |-> {}, failed |-> {}, quar |-> {}, cnt |-> [a \in 0..Top |-> 0],
   cur |-> NoAddress, cursor |-> 0, full |-> FALSE, at |-> 1,
   on |-> FALSE, count |-> 0, due |-> FALSE, attempt |-> "never", own |-> own]

\* setOwnAddress: what is pending for the new address stays pending.
ScannerOwn(s, own) == [s EXCEPT !.own = own]

\* setScanOnStartup(true): the first pass is due after initial_scan_delay_.
ScanOnStartup(s) == [s EXCEPT !.on = TRUE, !.count = 0, !.due = FALSE]

\* initFullScan.
InitFullScan(s, enable) ==
  [s EXCEPT !.full = enable, !.at = IF enable THEN 1 ELSE @]

\* scanAddressInternal, for each of several addresses.
ScanAddresses(s, A) ==
  LET new == A \ (s.pend \cup {s.own})
  IN [s EXCEPT !.pend = @ \cup new, !.failed = @ \ new, !.quar = @ \ new]

\* Steps 1 and 2 of nextCommand.  The cooldown of 60 seconds never ends:
\* last_failure_reset_time_ starts as time_point::min(), the difference
\* now - min overflows to a negative duration, and only this branch would
\* set it.  The epoch reset compares with last_scan_attempt_, which is the
\* same minimum until the first attempt.
CooldownOver(s) == FALSE
Amnesty(s) ==
  IF s.attempt = "old"
    THEN [s EXCEPT !.failed = {}, !.quar = {}, !.cnt = [a \in 0..Top |-> 0]]
  ELSE IF CooldownOver(s) THEN [s EXCEPT !.failed = {}]
  ELSE s

Barred(s) == s.failed \cup s.quar

\* What the deep scan of address a, at the given vendor cursor, asks for
\* next: nothing when the address is barred or has been read completely.
Asks(s, d, a, cursor) ==
  IF a \in Barred(s) THEN {}
  ELSE IF ~IsIdentified(d, a) THEN {0}
  ELSE {p \in Missing(d, a) : p > cursor}

\* Priority 1: the address under way, then the pending ones in order.  The
\* ones that ask for nothing are forgotten on the way.
Deep(s, d) ==
  LET goOn   == s.cur # NoAddress /\ Asks(s, d, s.cur, s.cursor) # {}
      asking == IF goOn THEN {s.cur} ELSE {a \in s.pend : Asks(s, d, a, 0) # {}}
      Ask(a, what) ==
        [s   |-> [s EXCEPT !.pend    = IF goOn THEN @ ELSE {b \in @ : b > a},
                           !.cur     = IF what = 0 THEN NoAddress ELSE a,
                           !.cursor  = what,
                           !.attempt = "recent"],
         cmd |-> [to |-> a, what |-> what]]
  IN IF asking = {}
       THEN [s   |-> [s EXCEPT !.pend = {}, !.cur = NoAddress, !.cursor = 0],
             cmd |-> NoCommand]
     ELSE With(Least(asking), LAMBDA a :
            With(Least(Asks(s, d, a, IF goOn THEN s.cursor ELSE 0)),
                 LAMBDA what : Ask(a, what)))

\* Mutant: the last address is left out.
LeftShort(s, d) ==
  {a \in s.at..(Top - 1) : a # s.own /\ a \notin Barred(s) /\ ~IsIdentified(d, a)}

\* Priority 2: the next slave address that is not ours, not barred and not
\* identified; after the last one the full scan is over.
Left(s, d) ==
  {a \in s.at..Top : a # s.own /\ a \notin Barred(s) /\ ~IsIdentified(d, a)}

Surface(s, d) ==
  IF Left(s, d) = {}
    THEN [s |-> [s EXCEPT !.full = FALSE, !.at = Top + 1], cmd |-> NoCommand]
  ELSE With(Least(Left(s, d)), LAMBDA a :
         [s   |-> [s EXCEPT !.at = a + 1, !.attempt = "recent"],
          cmd |-> [to |-> a, what |-> 0]])

\* Priority 3: a pass over the observed devices, until there were enough.
Startup(s, d) ==
  IF s.count >= MaxStartup THEN [s EXCEPT !.on = FALSE]
  ELSE [ScanAddresses(s, Observed(d, s.own)) EXCEPT !.count = @ + 1, !.due = FALSE]

\* nextCommand: the command, and the scanner after the call.  Only the deep
\* scan goes on while the system is busy; a startup pass that added addresses
\* goes back to the deep scan.
Background(s, d) ==
  LET quiet == [s |-> s, cmd |-> NoCommand]
  IN With(IF s.full THEN Surface(s, d) ELSE quiet, LAMBDA r :
       IF r.cmd # NoCommand \/ ~(r.s.on /\ r.s.due) THEN r
       ELSE With(Startup(r.s, d), LAMBDA started :
              IF Observed(d, s.own) # {} /\ started.on THEN Deep(started, d)
              ELSE [s |-> started, cmd |-> NoCommand]))

NextCommand(s, d, busy) ==
  With(Amnesty(s), LAMBDA fresh :
    With(Deep(fresh, d), LAMBDA r :
      IF r.cmd # NoCommand \/ busy THEN r ELSE Background(r.s, d)))

\* Mutant: the counter reaches the limit.
CountedLate(s, a, more) ==
  IF s.cnt[a] >= ScanLimit THEN [s EXCEPT !.cnt[a] = 0, !.quar = @ \cup {a}]
  ELSE [s EXCEPT !.cnt[a] = @ + 1, !.pend = @ \cup more]

\* Mutant: no quarantine.
CountedForever(s, a, more) == [s EXCEPT !.pend = @ \cup more]

\* One more attempt counted: at the limit the address is quarantined.
Counted(s, a, more) ==
  IF s.cnt[a] + 1 >= ScanLimit
    THEN [s EXCEPT !.cnt[a] = 0, !.quar = @ \cup {a}]
  ELSE [s EXCEPT !.cnt[a] = @ + 1, !.pend = @ \cup more]

\* onScanResult.
OnScanResult(s, d, a, success) ==
  IF ~success THEN Counted([s EXCEPT !.failed = @ \cup {a}], a, {})
  ELSE IF NeedsDeepScan(d, a) THEN Counted([s EXCEPT !.failed = @ \ {a}], a, {a})
  ELSE [s EXCEPT !.failed = @ \ {a}, !.cnt[a] = 0]
=============================================================================
