------------------------------ MODULE Reactor ------------------------------
(***************************************************************************)
(* The reactor thread (src/ebus/app/reactor.cpp) with what it drives: the  *)
(* poll manager, the device scanner and the scheduler's queue; the bus     *)
(* thread, which ends the message under way and reports foreign telegrams; *)
(* and the application thread, which calls the Controller                  *)
(* (src/ebus/app/controller.cpp).                                          *)
(*                                                                         *)
(* The scheduler is reduced to what the reactor sees of it: its queue in   *)
(* order, the active item, and the message that the handler holds; module  *)
(* Scheduler has its attempts and timeouts.  Time advances by one tick     *)
(* (controller_tick_ms, the longest sleep of the loop) when the reactor    *)
(* sleeps, and at no other step: the steps themselves take no time.        *)
(***************************************************************************)
EXTENDS Queue, PollManager, DeviceScanner

CONSTANTS
  Own,          \* the slave addresses the node may get, the first one at start
  MaxItems,     \* SchedulerLimits::max_items
  Threshold,    \* SchedulerLimits::scan_threshold
  SignalSize,   \* ReactorLimits::signal_queue_size
  ProtocolSize, \* ReactorLimits::protocol_queue_size
  Intervals,    \* intervals of the poll items
  PollTo,       \* slaves that are polled
  Reliable,     \* slaves that answer every message; the others may fail to
  Budgets,      \* bounds: for each scenario, how many calls for polls and
                \* scans, changes of the address, messages, foreign
                \* telegrams, starts and stops there may be, and
                \* whether a start asks who is there (system_inquiry)
  MaxLate       \* bound: ticks an item may be late before time stands still

Calls == {"poll", "scan", "address", "message", "foreign", "start", "stop", "inquiry"}

ASSUME ReactorAssumption ==
  /\ Own \in [1..2 -> Addresses]
  /\ MaxItems \in Nat \ {0} /\ Threshold \in Nat \ {0}
  /\ SignalSize \in Nat \ {0} /\ ProtocolSize \in Nat \ {0}
  /\ Intervals \subseteq Nat
  /\ PollTo \subseteq Addresses /\ Reliable \subseteq Addresses
  /\ MaxLate \in Nat
  /\ Budgets \subseteq [Calls -> Nat]

VARIABLES
  pc,        \* reactor thread: the step of run(), "off" without a thread
  running,   \* running_
  activity,  \* the local flag of the loop
  issued,    \* the command that nextCommand returned
  signals,   \* signal_queue_
  events,    \* protocol_queue_
  polls,     \* the PollManager
  scanner,   \* the DeviceScanner
  devices,   \* the DeviceManager
  sched,     \* scheduled_items_, the first to be sent in front
  active,    \* active_item_
  held,      \* the message the Handler holds
  app,       \* application thread: "idle" or the step of stop()
  budget,    \* calls and telegrams left
  probed,    \* history: addresses asked for their identification since the
             \* full scan began
  refused,   \* history: addresses whose turn came since then when the scheduler
             \* had been filled meanwhile
  wanted,    \* history: the full scan was started and not given up
  mute       \* history: addresses that an error was reported for

vars == <<pc, running, activity, issued, signals, events, polls, scanner,
          devices, sched, active, held, app, budget, probed, refused,
          wanted, mute>>

loop    == <<pc, running, activity, issued>>
bus     == <<sched, active, held>>
managed == <<polls, scanner, devices>>
history == <<probed, refused, wanted, mute>>

Init ==
  /\ pc = "off" /\ running = FALSE /\ activity = FALSE /\ issued = NoCommand
  /\ signals = NewQueue(SignalSize) /\ events = NewQueue(ProtocolSize)
  /\ polls = NewPolls(Own[1]) /\ scanner = NewScanner(Own[1])
  /\ devices = NewInventory
  /\ sched = <<>> /\ active = NoCommand /\ held = NoCommand
  /\ app = "idle"
  /\ budget \in Budgets
  /\ probed = {} /\ refused = {} /\ wanted = FALSE /\ mute = {}

\* Scheduler::enqueue: refused when the queue is full.
Enqueued(q, cmd) == IF Len(q) < MaxItems THEN Append(q, cmd) ELSE q

\* The inquiry of existence, and the broadcast that answers one.
InquiryOfExistence == [to |-> NoAddress, what |-> Existence]
SignOfLife         == [to |-> NoAddress, what |-> Other]

Goto(step) == pc' = step

----------------------------------------------------------------------------
(* The loop of the reactor thread.  A step that finds nothing to do is     *)
(* part of the step that follows it.                                       *)

\* The first statement of run().
Enter_run ==
  /\ pc = "boot"
  /\ running' = TRUE /\ Goto("loop")
  /\ UNCHANGED <<activity, issued, signals, events, managed, bus, app, budget, history>>

\* The end of an iteration: processPublicEvents has drained the queue.
AtLoop == pc = "loop" \/ (pc \in {"drain", "again"} /\ ~CanTryPop(events))

\* while (running_): the thread ends, or ...
Leave_run ==
  /\ AtLoop /\ ~running
  /\ Goto("exit")
  /\ UNCHANGED <<running, activity, issued, signals, events, managed, bus, app, budget, history>>

\* ... the scheduler's tick starts the next message when none is under way.
\* An item whose event was lost is given up by the timeout; no step of this
\* model waits for it.
Tick ==
  /\ AtLoop /\ running
  /\ Goto("events")
  /\ IF active = NoCommand /\ held = NoCommand /\ sched # <<>>
       THEN /\ active' = Head(sched) /\ held' = Head(sched)
            /\ sched' = Tail(sched) /\ activity' = TRUE
     ELSE /\ active' = IF held = NoCommand /\ ~CanPop(events) THEN NoCommand
                       ELSE active
          /\ activity' = FALSE
          /\ UNCHANGED <<sched, held>>
  /\ UNCHANGED <<running, issued, signals, events, managed, app, budget, history>>

\* One turn of processPublicEvents, before the polls ("events") and after
\* the signals ("drain", "again").  An event with a session ends the active
\* item and is a scan result for its target, whatever the message was; only
\* a broadcast that succeeded is not.  An inquiry of existence is answered
\* with a sign of life, unless it comes from own_address_: the address the
\* Reactor was made with, which setAddress does not change.
ProcessPublicEvent ==
  LET e      == Head(events.buf)
      known  == IF e.ok THEN Update(devices, e.from, e.to, e.what, polls.own)
                ELSE devices
      result == e.session /\ ~(e.ok /\ e.to = NoAddress)
      answer == e.ok /\ e.what = Existence /\ e.from # Own[1]
  IN
  /\ pc \in {"events", "drain", "again"} /\ CanTryPop(events)
  /\ Goto(IF pc = "events" THEN "events" ELSE "again")
  /\ events' = Popped(events)
  /\ active' = IF e.session THEN NoCommand ELSE active
  /\ devices' = known
  /\ scanner' = IF result THEN OnScanResult(scanner, known, e.to, e.ok) ELSE scanner
  /\ sched' = IF answer THEN Enqueued(sched, SignOfLife) ELSE sched
  /\ mute' = IF result /\ ~e.ok THEN mute \cup {e.to} ELSE mute
  /\ UNCHANGED <<running, activity, issued, signals, polls, held, app, budget,
                 probed, refused, wanted>>

\* isSchedulerFull, the busy predicate of the poll manager.
SchedulerFull == Len(sched) >= MaxItems

\* The loop of processDueItems, entered when the events are drained.
AtPolls  == pc = "polls" \/ (pc = "events" /\ ~CanTryPop(events))
PollsDue == FrontDue(polls) /\ ~SchedulerFull

\* One turn of it, with the callback of run().
ProcessDueItem ==
  /\ AtPolls /\ PollsDue
  /\ sched' = Enqueued(sched, [to |-> polls.items[1].to, what |-> Other])
  /\ polls' = Fired(polls)
  /\ activity' = TRUE /\ Goto("polls")
  /\ UNCHANGED <<running, issued, signals, events, scanner, devices, active, held,
                 app, budget, history>>

\* Step 4 of run(): the next scan command, when the scheduler has room.
\* isSystemBusy is true for a message of the handler or a bridge session.
NextScan(session) ==
  /\ AtPolls /\ ~PollsDue
  /\ \E next \in {IF Len(sched) < Threshold
                    THEN NextCommand(scanner, devices, session \/ held # NoCommand)
                  ELSE [s |-> scanner, cmd |-> NoCommand]} :
       /\ scanner' = next.s /\ issued' = next.cmd
       /\ Goto(IF next.cmd = NoCommand THEN "wait" ELSE "issue")
  /\ UNCHANGED <<running, activity, signals, events, polls, devices, bus, app, budget, history>>

\* The command is enqueued; it is lost when the queue was filled meanwhile.
IssueScan ==
  /\ pc = "issue"
  /\ sched' = Enqueued(sched, issued)
  /\ activity' = (activity \/ ~SchedulerFull)
  /\ LET asked == IF issued.what = 0 /\ wanted THEN {issued.to} ELSE {}
     IN IF SchedulerFull
          THEN refused' = refused \cup asked /\ UNCHANGED probed
        ELSE probed' = probed \cup asked /\ UNCHANGED refused
  /\ issued' = NoCommand /\ Goto("wait")
  /\ UNCHANGED <<running, signals, events, managed, active, held, app, budget, wanted, mute>>

\* Something is due, so that the timeout is 0.
Hurry == activity \/ (active = NoCommand /\ held = NoCommand /\ sched # <<>>) \/ PollsDue

\* processSignal.
Handled(signal) == running' = IF signal = "shutdown" THEN FALSE ELSE running

\* signal_queue_.pop returns a signal ...
PopSignal ==
  /\ pc = "wait" /\ CanPop(signals)
  /\ Handled(Head(signals.buf)) /\ signals' = Popped(signals)
  /\ activity' = FALSE /\ Goto("drain")
  /\ UNCHANGED <<issued, events, managed, bus, app, budget, history>>

\* ... or nothing at once, because the timeout is 0 or the queue shut down ...
PopNothing ==
  /\ pc = "wait" /\ ~CanPop(signals) /\ (Hurry \/ signals.shut)
  /\ activity' = FALSE /\ Goto(IF Hurry THEN "again" ELSE "loop")
  /\ UNCHANGED <<running, issued, signals, events, managed, bus, app, budget, history>>

\* No scan is under way or waiting: only then can 30 minutes have passed
\* since the last attempt.
ScansOver ==
  /\ scanner.pend = {} /\ scanner.cur = NoAddress /\ ~scanner.full
  /\ active = NoCommand /\ held = NoCommand /\ sched = <<>> /\ ~CanPop(events)

\* ... or nothing after a tick.  A startup pass may become due meanwhile,
\* and the last scan attempt more than 30 minutes old.
Sleep(due, old) ==
  /\ pc = "wait" /\ ~CanPop(signals) /\ ~Hurry /\ ~signals.shut
  /\ \A i \in DOMAIN polls.items : polls.items[i].due > -MaxLate
  /\ polls' = Aged(polls)
  /\ due => scanner.on
  /\ old => scanner.attempt = "recent" /\ ScansOver
  /\ scanner' = [scanner EXCEPT !.due = @ \/ due,
                                !.attempt = IF old THEN "old" ELSE @]
  /\ Goto("loop")
  /\ UNCHANGED <<running, activity, issued, signals, events, devices, bus, app, budget, history>>

\* The drain loop after a signal; more than reactor_yield_burst_limit
\* signals in a row leave it early, here any number.
DrainSignal ==
  /\ pc = "drain" /\ CanTryPop(signals)
  /\ Handled(Head(signals.buf)) /\ signals' = Popped(signals)
  /\ Goto(IF running' THEN "drain" ELSE "exit")
  /\ UNCHANGED <<activity, issued, events, managed, bus, app, budget, history>>

ReactorStep ==
  \/ Enter_run \/ Leave_run \/ Tick \/ ProcessPublicEvent \/ ProcessDueItem
  \/ \E session \in BOOLEAN : NextScan(session)
  \/ IssueScan \/ PopSignal \/ PopNothing
  \/ \E due, old \in BOOLEAN : Sleep(due, old)
  \/ DrainSignal

----------------------------------------------------------------------------
(* The bus thread.                                                         *)

\* pushProtocolEvent, with the session stamped by the scheduler.
Post(ok, from, to, what) ==
  /\ events' = PushNewest(events, [ok |-> ok, session |-> active # NoCommand,
                                   from |-> from, to |-> to, what |-> what])
  /\ signals' = TryPush(signals, "wakeup")

\* The message of the handler ends, with a telegram or with an error.  The
\* error of a malformed message has no master bytes: the second byte that
\* the reactor reads is whatever was there before.
Finish(ok, junk) ==
  /\ held # NoCommand /\ pc # "off"
  /\ ok => held.what # Malformed
  /\ ~ok => held.what = Malformed \/ held.to \notin Reliable
  /\ junk # held.to => held.what = Malformed
  /\ Post(ok, polls.own, junk, held.what)
  /\ held' = NoCommand
  /\ UNCHANGED <<loop, managed, sched, active, app, budget, history>>

\* Another master reads a slave, or asks who is there.
ForeignTelegram(from, to, what) ==
  /\ (to = NoAddress) = (what = Existence)
  /\ budget.foreign > 0 /\ budget' = [budget EXCEPT !.foreign = @ - 1]
  /\ from # polls.own /\ from # to /\ pc # "off"
  /\ Post(TRUE, from, to, what)
  /\ UNCHANGED <<loop, managed, bus, app, history>>

BusStep ==
  \/ \E ok \in BOOLEAN, junk \in 0..Top : Finish(ok, junk)
  \/ \E from \in Addresses, to \in 0..Top, what \in {0, Other, Existence} :
       ForeignTelegram(from, to, what)

----------------------------------------------------------------------------
(* The application thread.                                                 *)

\* A call, counted by the bound b; it wakes the reactor up when told to.
Call(b, wake) ==
  /\ app = "idle" /\ budget[b] > 0
  /\ budget' = [budget EXCEPT ![b] = @ - 1]
  /\ signals' = IF wake THEN PushNewest(signals, "wakeup") ELSE signals
  /\ UNCHANGED <<events, app, devices>>

\* The loop of processDueItems holds the poll manager's mutex.
PollsUnlocked == pc # "polls"

AddPoll(to, interval) ==
  /\ PollsUnlocked /\ CanAdd(polls, to)
  /\ polls' = AddPollItem(polls, to, interval)
  /\ Call("poll", TRUE)
  /\ UNCHANGED <<loop, scanner, bus, history>>

RemovePoll(id) ==
  /\ PollsUnlocked /\ \E i \in DOMAIN polls.items : polls.items[i].id = id
  /\ polls' = RemovePollItem(polls, id)
  /\ Call("poll", FALSE)
  /\ UNCHANGED <<loop, scanner, bus, history>>

ClearPolls ==
  /\ PollsUnlocked
  /\ polls' = ClearItems(polls)
  /\ Call("poll", FALSE)
  /\ UNCHANGED <<loop, scanner, bus, history>>

\* setAddress: the scanner, then the poll manager; the handler's message is
\* dropped by its reset.  Who called for the message is not told.
SetAddress(own) ==
  /\ PollsUnlocked /\ own # polls.own
  /\ scanner' = ScannerOwn(scanner, own) /\ polls' = SetOwnAddress(polls, own)
  /\ held' = NoCommand
  /\ Call("address", FALSE)
  /\ UNCHANGED <<loop, sched, active, history>>

\* scanAddress and scanAddresses: the reactor is woken when every address
\* was taken.
Scan(A) ==
  /\ scanner' = ScanAddresses(scanner, A)
  /\ Call("scan", scanner.own \notin A)
  /\ UNCHANGED <<loop, polls, bus, history>>

ScanObserved ==
  /\ scanner' = ScanAddresses(scanner, Observed(devices, scanner.own))
  /\ Call("scan", FALSE)
  /\ UNCHANGED <<loop, polls, bus, history>>

FullScan(enable) ==
  /\ scanner' = InitFullScan(scanner, enable)
  /\ wanted' = enable /\ probed' = {} /\ refused' = {}
  /\ Call("scan", FALSE)
  /\ UNCHANGED <<loop, polls, bus, mute>>

StartupScan ==
  /\ scanner' = ScanOnStartup(scanner)
  /\ Call("scan", FALSE)
  /\ UNCHANGED <<loop, polls, bus, history>>

Enqueue(to, what) ==
  /\ sched' = Enqueued(sched, [to |-> to, what |-> what])
  /\ Call("message", sched' # sched)
  /\ UNCHANGED <<loop, polls, scanner, active, held, history>>

\* start: a new thread; an inquiry of existence may be configured.
Start ==
  /\ pc = "off" /\ Goto("boot")
  /\ sched' = IF budget.inquiry > 0 THEN Enqueued(sched, InquiryOfExistence) ELSE sched
  /\ Call("start", sched' # sched)
  /\ UNCHANGED <<running, activity, issued, polls, scanner, active, held, history>>

\* stop: the shutdown signal, in the place of an older signal if need be,
StopSignal ==
  /\ app = "idle" /\ pc # "off" /\ budget.stop > 0
  /\ signals' = PushNewest(signals, "shutdown")
  /\ app' = "shutdown" /\ budget' = [budget EXCEPT !.stop = @ - 1]
  /\ UNCHANGED <<loop, events, managed, bus, history>>

\* then the queue is shut down,
StopShutdown ==
  /\ app = "shutdown"
  /\ signals' = Shutdown(signals)
  /\ app' = "flag"
  /\ UNCHANGED <<loop, events, managed, bus, budget, history>>

\* then the flag of the loop is cleared,
StopFlag ==
  /\ app = "flag"
  /\ running' = FALSE
  /\ app' = "join"
  /\ UNCHANGED <<pc, activity, issued, signals, events, managed, bus, budget, history>>

\* and when the thread has ended the scheduler is emptied.
StopJoin ==
  /\ app = "join" /\ pc = "exit"
  /\ Goto("off") /\ app' = "idle"
  /\ sched' = <<>> /\ active' = NoCommand
  /\ UNCHANGED <<running, activity, issued, signals, events, managed, held, budget, history>>

StopStep == StopShutdown \/ StopFlag \/ StopJoin

AppStep ==
  \/ \E to \in PollTo, interval \in Intervals : AddPoll(to, interval)
  \/ \E id \in 1..MaxId : RemovePoll(id)
  \/ ClearPolls
  \/ \E n \in 1..2 : SetAddress(Own[n])
  \/ \E A \in SUBSET Addresses \ {{}} : Scan(A)
  \/ ScanObserved
  \/ \E enable \in BOOLEAN : FullScan(enable)
  \/ StartupScan
  \/ \E to \in Addresses, what \in {Other, Malformed} : Enqueue(to, what)
  \/ Start \/ StopSignal \/ StopStep

Next == ReactorStep \/ BusStep \/ AppStep

Spec == Init /\ [][Next]_vars

\* The reactor thread runs, the bus ends every message, and a stop() that
\* has begun goes on as far as it can.  The application need not call.
Fairness ==
  /\ WF_vars(ReactorStep)
  /\ WF_vars(\E ok \in BOOLEAN, junk \in 0..Top : Finish(ok, junk))
  /\ WF_vars(StopStep)

FairSpec == Spec /\ Fairness

----------------------------------------------------------------------------
(* Properties.                                                             *)

Item  == [id : 0..MaxId, to : Addresses, every : Nat, due : Int]
Event == [ok : BOOLEAN, session : BOOLEAN, from : Addresses, to : 0..Top,
          what : 0..Nothing]
OwnAddress == {Own[1], Own[2]}

QueueOf(S, size) == [buf : Seq(S), cap : {size}, shut : BOOLEAN]
PollManagers == [items : Seq(Item), next : 0..MaxId, own : OwnAddress]
Scanners ==
  [pend : SUBSET Addresses, failed : SUBSET (0..Top), quar : SUBSET (0..Top),
   cnt : [0..Top -> 0..ScanLimit - 1], cur : 0..Top, cursor : 0..Parts,
   full : BOOLEAN, at : 1..Top + 1, on : BOOLEAN, count : 0..MaxStartup,
   due : BOOLEAN, attempt : {"never", "recent", "old"}, own : OwnAddress]
Inventories ==
  [known : SUBSET Addresses, ident : SUBSET Addresses,
   parts : [Addresses -> SUBSET (1..Parts)], seen : SUBSET Addresses]

\* Every variable has its type; the queues keep within their capacities
\* (ReactorLimits, SchedulerLimits, PollLimits), the device pool within its
\* own, no attempt counter of the scanner reaches the limit, only devices
\* of the pool are identified, the poll manager and the scanner agree on
\* the node's address, and no poll item is due later than its interval from
\* now.
TypeOK ==
  /\ pc \in {"off", "boot", "loop", "events", "polls", "issue", "wait", "drain",
             "again", "exit"}
  /\ running \in BOOLEAN /\ activity \in BOOLEAN /\ issued \in Command
  /\ signals \in QueueOf({"wakeup", "shutdown"}, SignalSize)
  /\ events \in QueueOf(Event, ProtocolSize)
  /\ Len(signals.buf) <= SignalSize /\ Len(events.buf) <= ProtocolSize
  /\ polls \in PollManagers /\ Len(polls.items) <= MaxPolls
  /\ \A i \in DOMAIN polls.items : polls.items[i].due <= polls.items[i].every
  /\ scanner \in Scanners /\ scanner.own = polls.own
  /\ devices \in Inventories /\ devices.ident \subseteq devices.known
  /\ Cardinality(devices.known) <= MaxDevices
  /\ sched \in Seq(Command) /\ Len(sched) <= MaxItems
  /\ active \in Command /\ held \in Command
  /\ app \in {"idle", "shutdown", "flag", "join"}
  /\ budget \in [Calls -> Nat]
  /\ probed \subseteq Addresses /\ refused \subseteq Addresses
  /\ wanted \in BOOLEAN /\ mute \subseteq 0..Top

Alive == pc \notin {"off", "exit"}

\* Every item that is due is fired, again and again, as long as it is
\* registered and the reactor runs: an erase that leaves the array without
\* the heap's order (removePollItem, setOwnAddress) delays items, it does
\* not starve them.
PollFires ==
  \A id \in 1..MaxId :
    LET Waits == \E i \in DOMAIN polls.items : polls.items[i].id = id /\ polls.items[i].due <= 0
    IN Alive /\ Waits ~> ~Alive \/ ~Waits

\* No poll item has the node's own slave address as its target, whatever
\* order addPollItem and setAddress are called in.
NoSelfPoll == \A i \in DOMAIN polls.items : polls.items[i].to # polls.own

\* When a full scan is over, each slave address was asked for its
\* identification since it began, or is identified, or an error was
\* reported for it (initFullScan, priority 2 of nextCommand), or its command
\* was refused by a scheduler that the application had filled after the
\* reactor looked: the scanner has moved on by then and does not come back.
FullScanCovers ==
  wanted /\ ~scanner.full =>
    \A a \in Addresses \ OwnAddress : a \in probed \cup refused \cup devices.ident \cup mute

\* An address that waits for its deep scan is taken: the lower addresses,
\* which nextCommand serves first and onScanResult adds again, do not keep
\* it waiting for ever.  (Polls that are faster than the bus do: they keep
\* the scheduler above scan_threshold, so no scenario has both.)
PendingTaken ==
  \A a \in Addresses : Alive /\ a \in scanner.pend ~> ~Alive \/ a \notin scanner.pend

\* What stop says of itself: "Ensure shutdown signal is delivered even if queue
\* is full", and running_ is cleared "before join so the loop can exit even if
\* pop() returns false" (reactor.cpp:57, 65).  The thread ends and stop
\* returns, also after a restart.
StopReturns == app = "join" ~> app = "idle"
=============================================================================
