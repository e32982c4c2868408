---------------------------- MODULE HandlerPort ----------------------------
(***************************************************************************)
(* What the Handler promises its Scheduler about the active message, with  *)
(* everything else about the bus left open.  BusHandler implements this    *)
(* specification (its property ImplementsPort); Scheduler is built on it.  *)
(***************************************************************************)
EXTENDS Naturals

VARIABLES
  phase,     \* "idle", or active_message_ is "queued" or being sent ("sending")
  refusals,  \* slave parts of the message being sent that were refused
  event      \* the callback that the last step of the bus thread made

port == <<phase, refusals, event>>

Finals   == {"telegram", "error"}
Overheard == {"passive_telegram", "passive_error"}
Events   == {"none", "won", "lost", "slave_error"} \cup Finals \cup Overheard

PortInit == phase = "idle" /\ refusals = 0 /\ event = "none"

-----------------------------------------------------------------------------
\* The reactor thread: sendActiveMessage accepts a message, reset drops it.
\* Neither makes a callback.

Accept ==
  /\ phase = "idle"
  /\ phase' = "queued"
  /\ UNCHANGED <<refusals, event>>

Drop ==
  /\ phase' = "idle"
  /\ refusals' = 0
  /\ UNCHANGED event

-----------------------------------------------------------------------------
\* The bus thread.

WinBus ==
  /\ phase = "queued"
  /\ phase' = "sending"
  /\ event' = "won"
  /\ UNCHANGED refusals

LoseBus ==
  /\ phase = "queued"
  /\ phase' = "idle"
  /\ event' = "lost"
  /\ UNCHANGED refusals

\* The message ends, acknowledged or not.
Finish ==
  /\ phase = "sending"
  /\ phase' = "idle"
  /\ refusals' = 0
  /\ event' \in Finals

\* A slave part is answered NAK: the slave repeats it once, so this error
\* comes at most twice and does not end the message.
RefuseSlavePart ==
  /\ phase = "sending"
  /\ refusals < 2
  /\ refusals' = refusals + 1
  /\ event' = "slave_error"
  /\ UNCHANGED phase

\* Telegrams of other nodes, and errors in them, are reported while a
\* message is queued, but not while it is being sent.
Overhear ==
  /\ phase # "sending"
  /\ event' \in Overheard
  /\ UNCHANGED <<phase, refusals>>

\* A byte without a callback.
Quiet ==
  /\ event' = "none"
  /\ UNCHANGED <<phase, refusals>>

BusStep == WinBus \/ LoseBus \/ Finish \/ RefuseSlavePart \/ Overhear \/ Quiet

PortNext == Accept \/ Drop \/ BusStep

PortSpec == PortInit /\ [][PortNext]_port
=============================================================================
