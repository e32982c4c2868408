---------------------------- MODULE SynGenerator ----------------------------
(***************************************************************************)
(* The SYN generators of the nodes on one wire, with the thread of the     *)
(* POSIX driver (src/ebus/platform/posix/bus_posix.cpp) or the timers of   *)
(* the ESP32 driver (src/ebus/platform/esp/bus_esp.cpp).  Who hears        *)
(* nothing for the time that belongs to its address writes a SYN, and who  *)
(* reads its own SYN goes on at the base rate.                             *)
(*                                                                         *)
(* A tick is the time of one byte; the threads keep up with the bytes.  A  *)
(* bus is a record of its nodes, of the SYNs and of whether other bytes    *)
(* were begun in this tick, and of the history settled: since the timers   *)
(* were last set by hand a byte other than SYN was on the wire that found  *)
(* no alarm of an ESP32 due or postponed.  A node:                         *)
(*   esp, addr      its platform and its address                           *)
(*   on             syn_running_                                           *)
(*   left, every    time to next_syn_expiry_ or to the timer's alarm, and  *)
(*                  the interval that the alarm reloads                    *)
(*   active         syn_active_                                            *)
(*   since          time since the last activity, at most CarrierSense     *)
(*   firing         POSIX: between the unlock and writeByte of synThread   *)
(*   post           ESP32: time to the postponed alarm, or NoAlarm         *)
(*   got            the byte that waits for the reader                     *)
(***************************************************************************)
EXTENDS Integers, FiniteSets

CONSTANTS Base, Tolerance, Factor, CarrierSense, Postpone, Serialization

\* What makes the times of two addresses differ by more than a byte, and a
\* postponed alarm come before the next regular one (50 > 5 + 2 ms).
ASSUME SynAssumption ==
  /\ {Base, Tolerance, Factor} \subseteq Nat \ {0, 1}
  /\ {CarrierSense, Postpone, Serialization} \subseteq Nat \ {0}
  /\ Base > CarrierSense + Postpone

NoAlarm == -1

Unique(g) == Base + Factor * g.addr + Tolerance

NewGenerator(esp, addr) ==
  LET unique == Base + Factor * addr + Tolerance
  IN  [esp |-> esp, addr |-> addr, on |-> FALSE, left |-> unique,
       every |-> unique, active |-> FALSE, since |-> CarrierSense,
       firing |-> FALSE, post |-> NoAlarm, got |-> "none"]

NewBus(nodes) == [node |-> nodes, syns |-> 0, data |-> FALSE, settled |-> FALSE]

Armed(g, interval) == [g EXCEPT !.left = interval, !.every = interval]

-----------------------------------------------------------------------------
(* What the reader and the writer of a node do to its generator.           *)

\* Plausible error: a byte of a telegram leaves the generator active.
ResetSynTimerStaysActive(g, byte) ==
  Armed(g, IF g.active /\ byte = "syn" THEN Base ELSE Unique(g))

\* resetSynTimerInternal, and the same in ebusUartEventRunner.
ResetSynTimer(g, byte) ==
  IF g.active /\ byte = "syn" THEN Armed(g, Base)
  ELSE Armed([g EXCEPT !.active = FALSE], Unique(g))

\* The reader takes the byte.  The ESP32 does not touch the timer of a
\* generator that is switched off; its falling edges were the activity.
ReadByte(g) ==
  LET r == [g EXCEPT !.got = "none"]
  IN  IF g.esp THEN (IF g.on THEN ResetSynTimer(r, g.got) ELSE r)
      ELSE ResetSynTimer([r EXCEPT !.since = 0], g.got)

\* BusPosix::writeByte postpones the SYN; BusEsp::writeByte leaves the timer.
WriteByte(g, byte) ==
  IF g.esp THEN [g EXCEPT !.since = 0]
  ELSE [Armed(g, Unique(g) + Serialization) EXCEPT
          !.since = 0, !.active = @ /\ byte = "syn"]

\* setRuntimeConfig switches the generator on or off, or sets the timer of
\* one that runs.  The ESP32 timer counts on from where it was stopped, and
\* a postponed alarm is not cancelled.
Enable(g) ==
  [Armed(g, Unique(g)) EXCEPT
     !.on = TRUE, !.active = FALSE,
     !.left = IF g.esp THEN @ - (g.every - g.left) ELSE @]

Disable(g) == [g EXCEPT !.on = FALSE]

Realign(g) ==
  IF g.esp THEN Armed(g, Unique(g))
  ELSE ResetSynTimer([g EXCEPT !.since = 0], "syn")

-----------------------------------------------------------------------------
(* The expiry.                                                             *)

Due(g) ==
  /\ ~g.firing
  /\ \/ g.on /\ g.left = 0
     \/ g.post = 0

\* Carrier sense, of the bus b; the edges of a byte that is being written
\* are activity for the ESP32.
Carrier(b, g) ==
  \/ g.since < CarrierSense
  \/ g.esp /\ (b.syns > 0 \/ b.data)

\* synThread postpones its expiry, or is about to write.
PosixExpired(b, g) ==
  IF Carrier(b, g) THEN [g EXCEPT !.left = Postpone]
  ELSE [g EXCEPT !.active = TRUE, !.firing = TRUE]

\* onSynGenTimer, of the alarm (which reloads) or of the postponed alarm.
EspExpired(b, g) ==
  LET r == [g EXCEPT !.post = IF @ = 0 THEN NoAlarm ELSE @,
                     !.left = IF g.post # 0 THEN g.every ELSE @]
  IN  IF Carrier(b, g)
      THEN [r EXCEPT !.post = IF @ = NoAlarm THEN Postpone ELSE @]
      ELSE [r EXCEPT !.active = TRUE, !.since = 0]

\* Node i, which is due; the ESP32 writes its SYN in the interrupt.
Expired(b, i) ==
  LET g   == b.node[i]
      esp == EspExpired(b, g)
  IN  IF ~g.esp THEN [b EXCEPT !.node[i] = PosixExpired(b, g)]
      ELSE [b EXCEPT !.node[i] = esp,
                     !.syns = IF Carrier(b, g) THEN @ ELSE @ + 1]

\* synThread writes.
SynWritten(b, i) ==
  [b EXCEPT !.node[i] = [WriteByte(@, "syn") EXCEPT !.firing = FALSE],
            !.syns = @ + 1]

-----------------------------------------------------------------------------
\* The tick is over when everybody has done what there was to do in it.
Over(b) ==
  \A i \in DOMAIN b.node :
    LET g == b.node[i] IN g.got = "none" /\ ~g.firing /\ ~Due(g)

\* What is read: SYNs that overlap need not make a SYN.
Heard(b) ==
  IF b.data THEN {"data"}
  ELSE IF b.syns = 0 THEN {"none"}
  ELSE IF b.syns = 1 THEN {"syn"} ELSE {"syn", "data"}

Down(t) == IF t > 0 THEN t - 1 ELSE t

TimerTick(g, byte) ==
  [g EXCEPT !.got   = byte,
            !.left  = IF g.on \/ ~g.esp THEN Down(@) ELSE @,
            !.post  = Down(@),
            !.since = IF g.esp /\ byte # "none" THEN 0
                      ELSE IF @ < CarrierSense THEN @ + 1 ELSE @]

\* The byte finds an alarm that it does not cancel: it is due, or postponed
\* (bus_esp.cpp:557), and will write its SYN and become active although the
\* byte has just reset the timer.
Uncancelled(g) == g.esp /\ (Due(g) \/ g.post # NoAlarm)

\* A byte settles the bus unless it finds such an alarm.  Without that
\* condition two ESP32 generators may stay active side by side.
BusTick(b, byte) ==
  LET node == [i \in DOMAIN b.node |-> TimerTick(b.node[i], byte)]
  IN  [node    |-> node, syns |-> 0, data |-> FALSE,
       settled |-> \/ b.settled
                   \/ byte = "data" /\ \A i \in DOMAIN node : ~Uncancelled(node[i])]
=============================================================================
