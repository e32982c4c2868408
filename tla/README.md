# A verification of the eBUS stack

The repository is a C++ implementation of the eBUS: a two-wire bus with one
byte at a time, on which up to 25 masters arbitrate by writing their addresses
simultaneously after a SYN byte, send telegrams of a master part and sometimes
a slave part, and acknowledge each part. This directory models the parts of the
code that decide who sends, what a node makes of the bytes that it reads, what
becomes of a message that an application has handed over, and how network
clients, polls and scans share the bus.

## Inventory

| Component | State | Operations | Works with |
|---|---|---|---|
| `Request` (`core/request.cpp`) | FSM of four states, last result, pending request, lock counter, bytes since SYN | `requestBus`, `busRequestCompleted`, `startBit`, `run`, `reset`, `setLockCounter` | called by the bus thread for each byte; by `Handler`, `ClientManager` and `Controller` from other threads |
| `Handler` (`core/handler.cpp`) | FSM of fifteen states, buffers and repeat flags of the passive, reactive and active roles, the active message | `sendActiveMessage`, `run`, `reset`, `onBusRequested`, `onStartBit` | asks `Request` for the bus; its callbacks go to `Scheduler` |
| `BusHandler` (`core/bus_handler.cpp`) | none of its own | `onBusEvent` | passes each byte to `Request`, then to `Handler`, then to listeners |
| Bus drivers (`platform/posix`, `platform/esp`) | request flag, start bit flag | reader loop, request timer | read `Request::bus_request_`, create the bus events |
| SYN generator (in the drivers) | timer, `syn_active_`, postponed alarm | timer reset by every byte, expiry, configuration | the wire |
| `Scheduler` (`app/scheduler.cpp`) | heap of items, active attempt, current session id | `enqueue`, `enqueueAt`, `tick`, `injectProtocolEvent`, `stop`, callbacks | hands messages to `Handler`; its events go through `Reactor` back to it |
| `Reactor` (`app/reactor.cpp`) | `running_`, signal and protocol queues | `start`, `run`, `pushProtocolEvent`, `pushSignal`, `stop` | one thread: ticks `Scheduler`, fires polls, asks `DeviceScanner`, drains events |
| `ClientManager`, clients (`app/client*.cpp`) | clients with their queues, session state, active sender | I/O thread, bus callbacks, session timeout, `stop`, `removeClient` | external bus requests through `Request` |
| `PollManager` (`app/poll_manager.cpp`) | heap of periodic items | add, remove, `processDueItems`, `setOwnAddress` | driven by `Reactor` |
| `DeviceScanner`, `DeviceManager` | pending, failed and quarantined addresses, full scan, startup scan; device table | `nextCommand`, `onScanResult`, scans | driven by `Reactor` |
| `Telegram`, `Sequence` | byte buffers | parse, CRC, escape | used by `Handler` |
| Data types, JSON reader and writer | text, buffers | decode, encode; tokens, `get`, `validate`, `feed`; writer calls | used by the application and the configuration |
| `BusMonitor` | counters, congestion alarm | `record…`, `fetchMetrics`, `resetMetrics` | informed by all |
| `Controller` | configuration, lifecycle | start, stop, setters | wires everything |
| Logging, simulation | | | no part in the control flow |

The threads that meet: the *bus thread* (driver, `Request`, `Handler`,
callbacks), the *reactor thread* (`Scheduler`, polls, scans), the *I/O thread* of
the network clients, the *SYN thread* and the threads of the user. `Handler` and
`Request` have no lock.

What is hard: simultaneous writers on the wire; an address that is written
after a decision made one SYN earlier; resets from another thread between two
steps of the bus thread; two threads that drive one client session and release
the lock between any two steps; events that travel through a lossy queue and
meet a scheduler that has moved on; timeouts that race with results; a stop
that races with a start; repetitions that must happen once; scans that must
reach everybody although each result changes what is asked next; timers of
several nodes that must leave one generator. `PROJECT.json` lists these hazards
with the line of each and the property that watches over it.

What makes each part correct:

* arbitration: one owner at a time; the retry round decides; a master waits for
  its lock counter after a win; nobody contends forever;
* handler: a message that was accepted is reported once; each part is repeated
  once at most; no transition outside the table; buffers fit the state; the
  wait for the bus ends;
* scheduler: a session is in one place; it is tried at most `max_attempts_`
  times; the handler never refuses a valid message; every session ends;
* bridge: a client whose telegram was cut short does not stay connected as if
  it had been sent; nobody holds a silent bus, as long as the I/O thread is not
  caught in a push into a full queue;
* reactor: every due poll fires; a full scan covers every slave; a pending
  deep scan is taken; nobody polls itself; `stop` returns (it does not always:
  see the runs);
* byte algorithms and text: what is written is read back, the parser accepts
  exactly the exchanges of the protocol, chunks of a JSON text show only where a
  key is cut off from its colon;
* SYN generators: one at a time once a byte of a telegram has been sent that
  found no ESP32 alarm due or postponed.

## Modules

| Module | Models |
|---|---|
| `Address` | byte symbols and address classes (`include/ebus/address.hpp`) |
| `Request` | the `Request` object: a record, one operator per method |
| `Arbitration`, `MCArbitration` | any number of masters, each with a `Request`, on one wire; a step is a byte |
| `RequestProofs`, `ArbitrationProofs` | what each method of a `Request` does; theorems about `Arbitration` |
| `Handler` | the `Handler` object: a record, one operator per method |
| `BusHandler`, `MCBusHandler` | one node: bus thread (`Receive`, `Handle`) and the calls of other threads (`Send`, `Abort`, `ResetRequest`, `ChangeLock`) |
| `BusHandlerProofs` | what each state of the `Handler` does with a byte; theorems about `BusHandler` |
| `HandlerPort` | abstract specification: what the handler promises the scheduler |
| `Scheduler`, `MCScheduler` | the scheduler with the reactor thread and the bus thread, built on `HandlerPort` |
| `SchedulerProofs` | theorems about `Scheduler` |
| `Enhanced`, `Client` | the two-byte protocol of enhanced clients; the three kinds of clients |
| `Bridge`, `MCBridge` | `ClientManager` with its clients, its three threads, the driver and the `Request` |
| `BridgeProofs` | what a chunk of bytes does to a client; theorems about `Bridge` |
| `Queue` | the POSIX queue |
| `PollManager`, `DeviceScanner`, `Once` | the objects that the reactor drives (`Once` binds a value once, for TLC's speed) |
| `Reactor`, `MCReactor` | the reactor thread with both, the signal and protocol queues, the bus thread and the user |
| `ReactorProofs` | theorems about `Reactor` |
| `ByteSequence`, `Telegram` | escaping, CRC and the telegram parser, byte by byte |
| `DataTypes` | the eBUS types of one and two bytes |
| `Outbound` | the ring of bytes in front of a client's socket |
| `JsonReader`, `JsonWriter` | the pull parser with its streaming mode, and the writer |
| `BusMonitor` | the congestion alarm |
| `SynGenerator` | the SYN timers of the nodes on one wire, POSIX and ESP32 |
| `PlainUnits` | `ByteSequence` to `SynGenerator` without JSON, each on its own, with what it is compared to; no recursive operators |
| `Units`, `MCUnits` | `PlainUnits` and the JSON reader and writer |
| `TelegramProofs`, `PlainUnitsProofs` | theorems about stuffing and the parser; about the other units |

`BusHandler` composes `Request` and `Handler` and implements `HandlerPort`
(`ImplementsPort`); `Scheduler` is built on `HandlerPort`, so the two halves
meet in it. `Bridge` composes `Request`, `Client` and the driver; `Reactor`
composes `Queue`, `PollManager` and `DeviceScanner`. The object modules return
the object after a call, so that the composing modules can apply calls in the
order of the code. Definitions whose comment begins with "Mutant" or "Plausible
error" are wrong variants that show that a property can fail.

### From code to model

*Request.* The record has the fields of the class. `bytes_since_syn_` saturates
at 2, since the code only compares it with 1. Callbacks that
`busRequestCompleted` and `startBit` make are part of the caller's step.

*The wire.* A master address consists of two nibbles of the form `0…01…1`, so
the AND of addresses is the smaller nibble in each half. On POSIX the request
timer's future is destroyed at the end of `armRequestTimer`, which waits for
it: the address is written, and the flag set, before the SYN event is built.
On the ESP32 the timer fires after the SYN event, and the next event carries
the flag. `Arbitration` has both kinds of masters on one wire. Whether a
handler wants the bus is the set `want`; the owner is the master that has read
its own address.

*Handler.* Buffers are abstracted to their sizes and to the bytes that are
missing; the addresses in them to the kinds that the code tells apart. The
verdict of a parser, the echo of a byte and the answer of the application are
chosen by `Handle`, constrained by what the plausibility filter has let into
the buffer (`ParsesOf`). Metrics, timing samples and log levels are left out.
The data bytes of a message are not modelled; its encoded length is
`MessageLen`.

*Threads.* `Receive` is the driver and `onBusEvent` up to `Request::run`;
`Handle` is `Handler::run`. Calls of other threads come before, between or
after them. A torn call (a data race inside `Handler::run`) is not modelled.

*Scheduler.* Time is abstract: items ripen and attempts expire at any moment.
Any item that is due may be started, which includes the order of the heap.
`tick` is split at its unlock (`TickPick`, `TickSend`); a callback of the bus
thread is split between reading `current_session_id_` and pushing the event
(`HandlerStep`, `Post`). The queue loses its oldest event when it is full.
`Stop` happens at the loop boundary, where `Controller::stop` has joined the
thread. The protocol queue is pushed atomically.

*Bridge.* `mutex_` is released between the parts of each operation, so a step is
what one thread does under the lock or between two locks; `th` holds the place
of each thread and the locals it has read. `Receive` is the POSIX driver with
the suppressed SYN of an external request. The bytes for a client's socket
decide nothing about a session and are in `Outbound`. Whether the timeout has
passed is the flag `late`, which time may set whenever a session is open.

*Reactor.* `run` is one step per statement that takes a lock or calls another
object. The scheduler is reduced to its queue, its active item and the message
in the handler. Time advances by one tick when the reactor sleeps, and at no
other step. The heap functions of the standard library are modelled on the
array, because `removePollItem` hands them arrays that are no heaps. Cooldown
and quarantine times are choices. `probed`, `refused`, `mute` and `wanted` are
history: what a full scan has asked, what the scheduler did not take, what was
reported with an error, and whether a full scan was started and not given up.

*Units.* `unit` names the part that a behaviour is about and never changes, so a
behaviour of `Units` that is about one of the `PlainUnits` is one of
`PlainSpec`, and what is proved of `PlainSpec` is what the run `units` checks.
Each unit's state is the input it was given so far, so that every
input up to the bound is a state and the property compares the code's answer
with the reference. The stream keeps a second reader that has the whole text.
The JSON texts are what `JsonWriter` makes of small trees, through a buffer of
four characters. A character is a one-letter string: quote, backslash, newline
and a control character are written `'`, `/`, `~` and `^`. The `value_` of the
reader is a view: the model keeps the memory of the fixed buffer (`json` and the
stale `rest` behind it) and places in it, so that the `memmove` and `memcpy` of
`feed` change what a view shows. The ring counts its bytes modulo `Sizes`, the
number of values of a `size_t`.

*SYN generators.* A tick is the time of one byte, within which every thread and
interrupt does what there is to do, in any order. The times keep the order that
the code's constants have (base 50 ms, tolerance 5, 10 per address, carrier
sense 5, postponement 2), counted in byte times of 4 ms, with smaller bases.
Timers are set by hand when the generator is configured; `settled` says that a
telegram byte has come since that found no ESP32 alarm due or postponed. The
bytes that others write are those of telegrams; SYNs that the handler or the
bridge write through `writeByte` are left out.

## Runs

| Run | Instance | Shows |
|---|---|---|
| `arbitration` | masters 0x13, 0x31, 0x71, 0x33 (POSIX, ESP, POSIX, ESP), lock counters 0, 1, 3, 0, foreign bytes 0x10 and 0x08, lost writes, fairness | `MutualExclusion`, `LockRespected`, `RetryRound`, `SecondRoundDecides`, `MessageLeaves`, `EveryContentionEnds` |
| `bus_handler` | POSIX node 0x31, seven bytes with Ext, master-slave messages, lost writes, resets by other threads, fairness | `ActiveBuffers`, `WaitIsContention`, `MessageAnswered`, `ImplementsPort`, `WaitEnds`, `Settles` |
| `bus_handler_esp` | ESP node, start bits, resets, lock counters 0 and 1, messages of all three kinds | `RepeatOnce`, `NoIllegalTransition` |
| `scheduler` | three sessions, one of them malformed, one place in the heap, two attempts, two places in the queue, restarts | `OnePlace`, `AttemptBound`, `SendAccepted`, `StampMatches`, `SessionEnds` |
| `bridge` | a regular and an enhanced client, one may hang up or be removed, queues of two bytes that fill up, two bus bytes, one stop | `CutTelegramDisconnects`, `SilentBusReleases` |
| `reactor` | three slaves, eight scenarios of polls, scans, messages, foreign telegrams, a new address, a stop; queues of one place | `NoSelfPoll`, `FullScanCovers`, `PollFires`, `PendingTaken` |
| `units` | all inputs up to the bounds below | `StuffingRoundTrip`, `ParseExact`, `DataRoundTrip`, `OutboundNewest`, `ChunkingInvisible`, `GetFinds`, `AlarmSustained`, `OneGenerator` |

Five runs show that the code does not keep what a comment says (`findings` in
`PROJECT.json`):

* `no_ghost_request`: after `retry_error` the address is still written for a
  message that the handler has dropped;
* `correlated`: a telegram of another node, overheard while a message waits for
  the bus, is stamped with its session and concludes it; the handler keeps the
  message and no timeout watches it any more;
* `session_in_progress`: the bus thread decides on a copy of the active sender
  to skip a wait, another thread ends the session, and the bus thread then sets
  `session_state_` to transmit: there is no client any more, no later call ends
  such a session, and `isSessionActive` stays true;
* `stop_returns`: a reactor that is stopped, started and stopped again. The
  signal queue stays shut down, so the second shutdown signal is refused, and
  `running_` is set again by a thread that begins after `stop` has cleared it:
  `join` waits for ever (`reactor.cpp:57, 65` say that the signal is delivered
  and the loop exits);
* `strict_validate`: `validate` takes `1 , 1` for a valid text, although
  `json_reader.hpp:156-158` promises strict validation with correct comma
  placement.

TLC shows more that is not a run of its own, and is listed as a hazard:
`ValidTelegrams` of `BusHandler` fails (a telegram whose master part failed its
check is published when somebody acknowledges it), and so does `RepeatHasBytes`
with start bits (the buffers are emptied, the state is kept, and a NAK makes the
handler read an empty buffer); `BytesForwarded` of `Bridge` fails (a byte that
was taken from a client is dropped when the other thread changes the session
before the lock is taken again; `trySendNextByte` has popped it by then);
without the condition on pending alarms in `BusTick`, `OneGenerator` fails on a
bus with two ESP32 nodes; without `At("io", "push")`, `SilentBusReleases` fails,
because the I/O thread that waits for room in a client's queue holds the
`io_mutex_` that `pop` needs, and checks no timeout any more; and
`CutTelegramDisconnects` fails when `SendWrite` takes only the mark of the client
that sent the SYN: the stale SYN of a client whose session is over is written
into the telegram of the next one, which ends there and stays connected. In the
model a SYN ends whatever telegram is on the wire, and this case is a hazard of
its own.

### Bounds, and why they are enough

*Arbitration.* Three masters are the fewest that show a collision without a
winner (0x13 AND 0x31 = 0x11), a loss by class and a retry round (0x31 and 0x71
after 0x11); the fourth, 0x33, loses by class while others retry. The theorems
lift the safety properties to every set of masters. A lock counter of 3 is the
first that makes a master wait longer than a telegram and its SYN do.

*BusHandler.* The bytes of the two runs together are chosen so that each branch
on a byte value is taken both ways: SYN, Ext, ACK, NAK, the own address, another
slave, a master of the same class and a better one, lengths 0 and 1 in
`bus_handler`; the own slave address and broadcast in `bus_handler_esp`.
Three bytes of an encoded message give a first, a middle and a last byte; two
bytes of an answer likewise. `sends` and `asked` are unbounded in the model and
bounded by `RepeatOnce`.

*Scheduler.* `MaxSession` bounds the sessions that are ever enqueued. One place
in the heap and two in the queue make both overflow.

*Bridge.* Two clients are the fewest that compete for the session. Two bytes
suffice for an arbitration and the byte that ends it; `MaxChunks` and `MaxBytes`
bound what clients and bus still send, after which the bus is silent. A chunk
of three bytes overfills a queue of two, so the blocking push happens (the
deadlock that it leads to is why the run does not check for deadlock).

*Reactor.* Three polls make a heap in which an erase can break the order; three
slaves have one that is the node itself, one with vendor data and one that may
fail. Queues of one place overflow at once. Each scenario has a budget of calls,
since all of them together are too many states. Two places in the scheduler and
a scenario with a scan, a message and an inquiry let the scheduler refuse a scan
command; two failures put an address into quarantine.

*Units.* Five bytes of the stuffing hold two escapes and a plain byte; eight
pieces are the longest exchange (both parts refused once and repeated); the data
bytes are the edges of each type; a ring of four bytes overflows with odd and
even alignment; chunks of one to three characters cut every token and escape,
and buffers of 16 and 64 characters refuse a chunk or take the whole text; five
lexemes nest beyond the depth of two. The ring of one byte, of which TLC checks
nothing here, is covered by the theorems. Two SYN generators of either driver are
the fewest that can both be active.

### Fairness

* Bytes keep coming (`SynByte`, `AddressByte`; `Receive`, `Handle`): an eBUS has
  a SYN generator, and the reader loop handles what it reads.
* `MessageLeaves` assumes that eventually no new messages are offered and no
  address is lost or foreign byte read (`Disturbed`); both may have happened
  before. Without that it fails: slots with one byte do not count for the lock
  counter, and newcomers may spoil every retry round.
* A node whose written address never appeared waits in `first` or `second` for a
  byte that is no SYN, and `request.cpp` has no timeout for it. This state
  (`Stranded`) is the one exception of `MessageLeaves`, `EveryContentionEnds`,
  `WaitEnds` and `Settles`; it is reached only through a lost write.
* `Settles` assumes that SYNs keep being read. It accepts `passive_receive_slave`,
  which SYNs do not end.
* Scheduler: the reactor loop runs, time passes, callbacks return (weak
  fairness); the bus thread gets through with a message again and again (strong
  fairness, since telegrams of others may come in between). `SessionEnds`
  assumes that the reactor catches up with the queue infinitely often, because
  `processPublicEvents` drains until the queue is empty.
* Bridge: each thread goes on with what it has begun; `select` returns at its
  timeout, so the I/O loop comes around; time passes. No fairness is assumed of
  the clients, the bus and the user.
* Reactor: the reactor thread runs, the bus ends a message that the handler
  holds, and a stop that was begun goes on. No fairness is assumed of calls.

## Proofs

The theorems hold for every value of the constants that the module's named
assumption admits: any masters with distinct addresses and lock counters up to
25, any capacities, sessions, attempts, clients, chunks, polls and slaves. Each
component has one inductive invariant `IInv` and the theorem `Invariant`
(`Spec => []IInv`); the properties follow from it. Every `IInv` was an invariant
of a TLC run first. The units are independent of each other; each has an
invariant of its own, about `PlainSpec`.

| Module | Theorems |
|---|---|
| `ArbitrationProofs` | `TypeCorrect`, `MutualExclusionHolds`, `LockRespectedHolds`, `RetryRoundHolds`, `SecondRoundDecidesHolds` |
| `BusHandlerProofs` | `TypeCorrect`, `ActiveBuffersHolds`, `RepeatOnceHolds`, `NoIllegalTransitionHolds`, `WaitIsContentionHolds`, `MessageAnsweredHolds`, `ImplementsPortHolds` |
| `SchedulerProofs` | `TypeCorrect`, `OnePlaceHolds`, `AttemptBoundHolds`, `SendAcceptedHolds`, `StampMatchesHolds` |
| `BridgeProofs` | `TypeCorrect`, `CutTelegramDisconnectsHolds` |
| `ReactorProofs` | `TypeCorrect`, `NoSelfPollHolds`, `FullScanCoversHolds` |
| `PlainUnitsProofs` | `OneGeneratorSpec`, `AlarmSustainedSpec`, `OutboundNewestSpec`, `OneByteRingWraps`, `DataRoundTripSpec` |
| `TelegramProofs` | `StuffingRoundTripSpec`, `ParseExactSpec` |

`RequestProofs` and the first parts of `BusHandlerProofs` and `BridgeProofs` hold
lemmas about the objects that are composed (`Request`, `Handler`, `Client`): for
each method, what it returns and what it leaves alone. The proof about a
component then goes action by action and cites them.

*Arbitration.* `IInv` adds for each master that lock counter and SYNs since the
last win sum up to at least `LockMax`, and that a master that contends, or whose
ESP flag is set, has written its own address and has waited; this makes
`LockRespected` inductive. For the wire it adds that in an address slot nobody
owns the bus and somebody writes, and that while somebody owns it no flag is set
and the others observe or await a retry; this excludes a second winner in the
middle of a message. A win is decided by `WiredAndMaster`: the AND of master
addresses is a master address, hence at most one writer's. For the second round,
`WiredAndInClass`: within one priority class the AND is one of the addresses, so
somebody reads his own.

*BusHandler.* The first part splits what `Handler::run` can do into a few
effects (`HandlerEffect`): it listens, asks for the bus, wins or loses it, sends
on, or ends the message with one report. Each of the fifteen states is shown to
have one of them. `IInv` relates the `Request` and the `Handler`: while the
handler sends, the `Request` is at rest (`BusIsHeld`), so none of its callbacks
takes the handler away from its message; the repeat flags count what the history
variables count (`Counts`); a wait in `request_bus` is for a result that is still
to come (`Waiting`); a run makes at most one callback (`OneCallback`).
`ImplementsPortHolds` proves the refinement of `HandlerPort` step by step.

Three of these theorems have hypotheses, since the statement is false without
them and TLC shows it. `WaitIsContentionHolds`, `MessageAnsweredHolds` and
`ImplementsPortHolds` assume `~StartBits`: a spurious start bit makes
`onStartBit` drop the message without a report and keep the state (hazard at
`handler.cpp:856`). The constants of the run `bus_handler` satisfy this.
`WaitIsContention` names the one case in which a waiting handler has a `Request`
that does not contend: another thread has reset it (`Aborts`). That the wait ends
all the same is `WaitEnds`. The other four theorems have no hypothesis.

*Scheduler.* `IInv` adds that session ids below `next` are the only ones in use
(`IdsGivenOut`), that the item between the unlock and `sendActiveMessage` is the
one whose id is `current_session_id_` (`CarriedItem`), and that an item has at
least as many attempts counted as sends made, one less while it is active
(`AttemptsCounted`). The last one is what makes the bound on attempts inductive.

*Bridge.* `IInv` adds that a thread within a call that takes bytes holds a client
(`TakesFromClient`) and that a client that is yet to connect has neither socket
nor session nor half a telegram (`NotYetConnected`). Between two locks a thread
holds a copy of the sender that may be stale; `CutTelegramDisconnects` therefore
speaks of the threads that are about to close a client. That a chunk of bytes
keeps the capacity of the inbound queue and the state of the two-byte protocol
needs an induction over the chunk: `FoldKeeps` carries it out over the length,
as a set of lengths (`NatSets`), because the library's induction theorem takes an
operator.

*Reactor.* The heap functions work on arrays that are no heaps after
`removePollItem`; what is proved of them is what the property needs: they move
items and invent none (`RisenKept`, `RestKept`, `OthersKept`), so a poll of the
own address cannot come back. For the full scan, `Swept` says that every address
that the scan has behind it is covered, but for the one whose command is on its
way to the scheduler, and `BarredKnown` that the scanner passes over an address
only after an error or when it is identified. `NextCommandOK` follows the scanner
through deep, startup and full scan.

*SYN generators* (`OneGenerator`). For any number of nodes with different
addresses, of either driver, and all times with `Base > CarrierSense + Postpone`
(`SynAssumption`). On a settled bus the invariant `Settled` has that at most one node can write a
SYN before it hears another (`OneLow`) and that it is the active one if there is
one (`OneActive`). What makes this inductive is `Counting`: while nothing is
written, the timers of the nodes that listen are in step (`InStep`: they differ
as their intervals do, which the addresses set at least two byte times apart),
carrier sense ends before a timer does, and a postponed alarm of an ESP32 comes
before every timer. Until a bus has settled only the types and the timer of each
node are claimed (`BusOK`).

*Alarm* (`AlarmSustained`). `AlarmOK` says that the starting point that
`fetchMetrics` keeps lies within the row of congested calls, and that a row
which raised the alarm lasted the detection time.

*Ring* (`OutboundNewest`). `Holds` says that the ring's bytes are the last ones
of all that were ever given to it, whatever `send` takes; `EndsWith` that the
unit stored last is whole. `CapAssumption` admits every capacity that the
configuration does, from one byte on. The two-byte unit of the enhanced client
makes room for itself in a loop, whose steps are lemmas about dropping the oldest
byte; with a ring of one byte this loop takes `count_` below zero. The property
therefore asks for two bytes where the client is an enhanced one (`Fits`), and
`OneByteRingWraps` proves that the case it leaves out goes wrong at every
response.

*Data types* (`DataRoundTrip`). One lemma for each kind of type (text, BCD,
integers of either sign and byte order, fixed point), since they differ in what
they refuse; for the scaled types, that scaling back after scaling is the
identity.

*Stuffing* (`StuffingRoundTrip`). `extend` and `reduce` rewrite a buffer in
place, from the back and from the front. The proof marks the place `p[i]` of
byte `i` on the wire (`Marked`), which is never before `i`; `Extending` and
`Reducing` say which part of the buffer has been rewritten after a step, and
that what is still to be read has not been overwritten. Checksums agree because
`calculateCRC` passes over the same bytes at the marks. Each loop is a recursive
function that is unrolled to the list of its intermediate values (`CrcRuns`,
`ExtendRuns`, `ReduceRuns`); induction over the number of steps is
`NatSets`: a set of numbers with 0 and every successor is `Nat`.

*Parser* (`ParseExact`). `MasterPartParsed` and `SlavePartParsed` say of a part
at any place that it is refused, a broadcast or taken together with its answer,
and whether the grammar has a part there. A part has one end (`PartEnds`), so
the existential quantifiers of the grammar have one candidate each, and the
cases of the parser (acknowledged, repeated and acknowledged, refused twice,
refused for its form) decide them. `checkMasterSequence` leaves out the offset
for a repeated part, so a broadcast that repeats a refused part may lack its
checksum; the proof shows that this changes no verdict, since the refusal of the
first part still stands in `ack`. The checksum in the grammar is the one of the
wire form, the parser's that of the logical bytes: they agree by the lemma about
stuffing.

Two statements turned out to be wrong while they were being proved.
`FullScanCovers` did not count commands that a full scheduler refuses
(`reactor.cpp:249-252` ignores what `enqueue` returns, and the scanner has moved
on by then): the address is not asked in that scan. The model has `refused` for
it now, and the run a scenario in which it happens. And the session of the bridge
that has no client, found as a state that the invariant could not exclude, is the
run `session_in_progress`.

### Only model-checked

* All liveness properties (`MessageLeaves`, `EveryContentionEnds`, `WaitEnds`,
  `Settles`, `SessionEnds`, `SilentBusReleases`, `PollFires`, `PendingTaken`):
  liveness under fairness is out of the prover's reach.
* `ChunkingInvisible`, `GetFinds`: the JSON reader and writer
  have recursive operators, for which the prover has no backend.
* Fairness as such: `HandlerPort` states none, and the strong fairness that
  `Scheduler` assumes of it is justified above, not proved.

## Not modelled

* Data: types of four bytes and floating point (beyond TLC's integers), the text
  of numbers and times, names and versions of devices.
* Statistics: counters, error table, utilization history, trace; no control flow
  reads them.
* Configuration: `config.cpp`, `config_validator.cpp`, `mergeFromJson` of the
  poll manager, the templates that visit JSON fields.
* Hardware and system: UART, GPIO and timer set-up, sockets, the auto-detection
  of a client's kind, the FreeRTOS queue, memory of small vectors.
* A new source address as such (only the resets that go with it, and the poll
  and scan side of it); stopping a driver while its SYN timer runs.
* Simulation doubles, logging, tools and examples.

`PROJECT.json` gives the reason for each component.

## Plan

1. Core (done): `Request`, `Arbitration`, `Handler`, `BusHandler`,
   `HandlerPort`, `Scheduler`; first theorems.
2. Extension (done): the bridge, the reactor with polls and scans, queues, byte
   algorithms, data types, JSON, the alarm and the SYN generators.
3. Proofs (done): one inductive invariant per component, the action properties
   `SecondRoundDecides` and `MessageAnswered`, the refinement of `HandlerPort`,
   and the units but for JSON. Every invariant of a passing run is a theorem
   except the two about JSON.
4. Left: action properties about the bridge and the reactor (a session changes
   hands only through idle, a removed poll does not fire again); the JSON reader
   as a recursive function, to prove about it.
