----------------------------- MODULE BusMonitor -----------------------------
(***************************************************************************)
(* The congestion alarm of BusMonitor (src/ebus/core/bus_monitor.cpp).     *)
(* Utilization is the share of the time since the last reset in which the  *)
(* bus was low; fetchMetrics compares it with a threshold each time it is  *)
(* called and keeps the alarm between calls.  Time is in steps of which    *)
(* Detection make up the ten seconds of the detection time.                *)
(*                                                                         *)
(*   now                 the clock                                         *)
(*   start, low          uptime_start_, total_low_bits_ in steps           *)
(*   since               congestion_start_point_, Unset if it has none     *)
(*   active              congestion_active_                                *)
(***************************************************************************)
EXTENDS Integers

CONSTANT Detection

ASSUME DetectionAssumption == Detection \in Nat \ {0}

Unset == -1

NewMonitor ==
  [now |-> 0, start |-> 0, low |-> 0, since |-> Unset, active |-> FALSE]

\* A step of the clock; recordLowBits counts the time the bus was low in it.
Elapse(b, low) == [b EXCEPT !.now = @ + 1, !.low = @ + low]

\* Above bus_congestion_threshold_percent, which is 70.
Congested(b) == 100 * b.low > 70 * (b.now - b.start)

\* resetMetrics leaves the alarm and its starting point alone.
ResetMetrics(b) == [b EXCEPT !.start = b.now, !.low = 0]

\* Plausible error: a quiet bus clears the alarm, not its starting point.
CalmedHalf(b) == [b EXCEPT !.active = FALSE]

Calmed(b) == [b EXCEPT !.active = FALSE, !.since = Unset]

\* The part of fetchMetrics that changes state.
FetchMetrics(b) ==
  IF b.now = b.start THEN b
  ELSE IF ~Congested(b) THEN Calmed(b)
  ELSE IF b.now - b.start >= Detection THEN [b EXCEPT !.active = TRUE]
  ELSE IF b.since = Unset THEN [b EXCEPT !.since = b.now]
  ELSE [b EXCEPT !.active = @ \/ b.now - b.since >= Detection]
=============================================================================
