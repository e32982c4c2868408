----------------------------- MODULE Scheduler -----------------------------
(***************************************************************************)
(* The scheduler of active messages (src/ebus/app/scheduler.cpp) with the  *)
(* two threads that drive it: the reactor thread (Reactor::run), which     *)
(* ticks the scheduler and drains the queue of protocol events into it,    *)
(* and the bus thread, which makes the callbacks of the Handler.  The      *)
(* Handler is the one that HandlerPort describes.                          *)
(*                                                                         *)
(* Time is abstract: an item becomes due (Ripen) and an attempt exceeds    *)
(* total_timeout_ (Expire) at any moment.  The tick may start any item     *)
(* that is due, whatever the heap's order.                                 *)
(***************************************************************************)
EXTENDS HandlerPort, Sequences, FiniteSets

CONSTANTS
  MaxSession,   \* bound: the last session id that is given out
  Malformed,    \* sessions whose message the handler rejects
  MaxAttempts,  \* max_attempts_
  MaxItems,     \* SchedulerLimits::max_items
  QueueSize,    \* ReactorLimits::protocol_queue_size
  Stops         \* may the controller be stopped and started again?

ASSUME SchedulerAssumption ==
  /\ MaxSession \in Nat
  /\ Malformed \subseteq 1..MaxSession
  /\ MaxAttempts \in Nat \ {0}
  /\ MaxItems \in Nat \ {0}
  /\ QueueSize \in Nat \ {0}
  /\ Stops \in BOOLEAN

Sessions == 1..MaxSession

Item == [id : Sessions, attempts : 0..MaxAttempts, ready : BOOLEAN]

\* No item, and the value 0 of current_session_id_.
NoItem    == [id |-> 0, attempts |-> 0, ready |-> FALSE]
NoSession == 0

VARIABLES
  items,    \* scheduled_items_
  active,   \* active_item_
  late,     \* the active attempt has exceeded total_timeout_
  current,  \* current_session_id_
  next,     \* next_session_id_
  pc,       \* reactor thread: "tick", "send" or "drain"
  picked,   \* reactor thread: item_to_start
  queue,    \* protocol_queue_
  stamp,    \* bus thread: the session id read by the callback being made
  held,     \* history: the session whose message the handler holds
  sends     \* history: how often a session's message was handed over

vars == <<phase, refusals, event, items, active, late, current, next, pc,
          picked, queue, stamp, held, sends>>

handler == <<phase, refusals, event, held>>
reactor == <<pc, picked>>

Init ==
  /\ PortInit
  /\ items = {} /\ active = NoItem /\ late = FALSE /\ current = NoSession
  /\ next = 1
  /\ pc = "tick" /\ picked = NoItem
  /\ queue = <<>> /\ stamp = NoSession
  /\ held = NoSession /\ sends = [s \in Sessions |-> 0]

-----------------------------------------------------------------------------
\* Mutant: the queue is not bounded.
PushUnbounded(q, what, session) == Append(q, [what |-> what, session |-> session])

\* Reactor::pushProtocolEvent: a full queue loses its oldest event.
Push(q, what, session) ==
  Append(IF Len(q) < QueueSize THEN q ELSE Tail(q),
         [what |-> what, session |-> session])

\* enqueue and enqueueAt (any thread), with an item that is due or not; a
\* refused one has used up its id.
Enqueue(ready) ==
  /\ next <= MaxSession
  /\ next' = next + 1
  /\ items' = IF Cardinality(items) < MaxItems
              THEN items \cup {[id |-> next, attempts |-> 0, ready |-> ready]}
              ELSE items
  /\ UNCHANGED <<handler, reactor, active, late, current, queue, stamp, sends>>

\* Time passes.
Ripen(i) ==
  /\ i \in items /\ ~i.ready
  /\ items' = (items \ {i}) \cup {[i EXCEPT !.ready = TRUE]}
  /\ UNCHANGED <<handler, reactor, active, late, current, next, queue, stamp, sends>>

Expire ==
  /\ active # NoItem /\ ~late
  /\ late' = TRUE
  /\ UNCHANGED <<handler, reactor, items, active, current, next, queue, stamp, sends>>

\* Controller::stop, once the reactor thread has ended, and a later start.
Stop ==
  /\ Stops
  /\ pc = "tick"
  /\ items' = {} /\ active' = NoItem /\ late' = FALSE
  /\ UNCHANGED <<handler, reactor, current, next, queue, stamp, sends>>

-----------------------------------------------------------------------------
\* The reactor thread: tick, then drain the protocol events, and so on.

\* Mutant: the timeout resets the handler and reports nothing.
TickTimeoutSilent ==
  /\ pc = "tick" /\ late
  /\ Drop /\ held' = NoSession
  /\ pc' = "drain"
  /\ UNCHANGED <<items, active, late, current, next, picked, queue, stamp, sends>>

\* tick, with an attempt that has run too long.
TickTimeout ==
  /\ pc = "tick" /\ late
  /\ Drop /\ held' = NoSession
  /\ queue' = Push(queue, "timeout", active.id)
  /\ pc' = "drain"
  /\ UNCHANGED <<items, active, late, current, next, picked, stamp, sends>>

Due == {i \in items : i.ready}

\* Mutant: the item that is started stays in the heap.
TickPickKeeps(i) ==
  /\ pc = "tick" /\ active = NoItem /\ i \in Due /\ phase = "idle"
  /\ current' = i.id
  /\ picked' = i
  /\ pc' = "send"
  /\ UNCHANGED <<handler, items, active, late, next, queue, stamp, sends>>

\* Mutant: the tick does not ask the handler whether it is busy.
TickPickUnchecked(i) ==
  /\ pc = "tick" /\ active = NoItem /\ i \in Due
  /\ items' = items \ {i}
  /\ current' = i.id
  /\ picked' = i
  /\ pc' = "send"
  /\ UNCHANGED <<handler, active, late, next, queue, stamp, sends>>

\* Mutant: the tick does not publish the session.
TickPickAnonymous(i) ==
  /\ pc = "tick" /\ active = NoItem /\ i \in Due /\ phase = "idle"
  /\ items' = items \ {i}
  /\ picked' = i
  /\ pc' = "send"
  /\ UNCHANGED <<handler, active, late, current, next, queue, stamp, sends>>

\* tick, up to the first unlock: an item that is due is taken, unless the
\* handler still has a message.
TickPick(i) ==
  /\ pc = "tick" /\ active = NoItem /\ i \in Due /\ phase = "idle"
  /\ items' = items \ {i}
  /\ current' = i.id
  /\ picked' = i
  /\ pc' = "send"
  /\ UNCHANGED <<handler, active, late, next, queue, stamp, sends>>

\* tick, after it: active_item_ is set and the message handed over.
TickSend ==
  /\ pc = "send"
  /\ active' = picked /\ late' = FALSE
  /\ IF phase = "idle" /\ picked.id \notin Malformed
     THEN /\ Accept /\ held' = picked.id
          /\ sends' = [sends EXCEPT ![picked.id] = @ + 1]
          /\ queue' = queue
     ELSE /\ queue' = Push(queue, "invalid_message", picked.id)
          /\ UNCHANGED <<handler, sends>>
  /\ picked' = NoItem
  /\ pc' = "drain"
  /\ UNCHANGED <<items, current, next, stamp>>

\* tick, with nothing to do.
TickNothing ==
  /\ pc = "tick"
  /\ IF active # NoItem THEN ~late ELSE Due = {} \/ phase # "idle"
  /\ pc' = "drain"
  /\ UNCHANGED <<handler, items, active, late, current, next, picked, queue, stamp, sends>>

Failures == {"lost", "error", "slave_error", "passive_error", "timeout"}

\* Mutant: the attempts are compared before they are counted.
RetryableOffByOne(e) == e.what \in Failures /\ active.attempts < MaxAttempts

\* Is the item tried again after event e?  (attempts++ precedes the test;
\* invalid_message is fatal.)
Retryable(e) == e.what \in Failures /\ active.attempts + 1 < MaxAttempts

\* The item goes back with a backoff; push_back does nothing when the queue
\* is full, and its result is ignored.
Again(i) ==
  IF Cardinality(items) < MaxItems
  THEN items \cup {[i EXCEPT !.attempts = @ + 1, !.ready = FALSE]} ELSE items

\* processPublicEvents pops an event and injects it.
Inject ==
  /\ pc = "drain" /\ queue # <<>>
  /\ queue' = Tail(queue)
  /\ LET e == Head(queue)
     IN  IF active = NoItem \/ e.session # active.id \/ e.what = "won"
         THEN UNCHANGED <<items, active, late, current>>
         ELSE /\ items' = IF Retryable(e) THEN Again(active) ELSE items
              /\ active' = NoItem /\ late' = FALSE /\ current' = NoSession
  /\ UNCHANGED <<handler, reactor, next, stamp, sends>>

DrainDone ==
  /\ pc = "drain" /\ queue = <<>>
  /\ pc' = "tick"
  /\ UNCHANGED <<handler, items, active, late, current, next, picked, queue, stamp, sends>>

-----------------------------------------------------------------------------
\* The bus thread: a step of the handler, whose callback reads the session
\* id, and then the push of the event.  The callbacks of won and lost push
\* nothing when there is no session.

HandlerStep ==
  /\ event = "none"
  /\ BusStep
  /\ stamp' = IF event' = "none" THEN NoSession ELSE current
  /\ held' = IF phase' = "idle" THEN NoSession ELSE held
  /\ UNCHANGED <<reactor, items, active, late, current, next, queue, sends>>

Post ==
  /\ event # "none"
  /\ event' = "none" /\ stamp' = NoSession
  /\ queue' = IF event \in {"won", "lost"} /\ stamp = NoSession THEN queue
              ELSE Push(queue, event, stamp)
  /\ UNCHANGED <<phase, refusals, held, reactor, items, active, late, current, next, sends>>

Next ==
  \/ \E ready \in BOOLEAN : Enqueue(ready)
  \/ \E i \in items : Ripen(i)
  \/ Expire
  \/ Stop
  \/ TickTimeout
  \/ \E i \in items : TickPick(i)
  \/ TickSend
  \/ TickNothing
  \/ Inject
  \/ DrainDone
  \/ HandlerStep
  \/ Post

\* The reactor loop runs, time passes, callbacks return, and the bus thread
\* is through with a message that the handler holds sooner or later, however
\* many telegrams of others it reports before.
Fairness ==
  /\ WF_vars(TickTimeout) /\ WF_vars(\E i \in items : TickPick(i))
  /\ WF_vars(TickSend) /\ WF_vars(TickNothing)
  /\ WF_vars(Inject) /\ WF_vars(DrainDone)
  /\ WF_vars(Expire) /\ WF_vars(Post)
  /\ \A s \in Sessions : WF_vars(\E i \in items : i.id = s /\ Ripen(i))
  /\ SF_vars(HandlerStep /\ phase' # phase)

Spec     == Init /\ [][Next]_vars
FairSpec == Spec /\ Fairness

-----------------------------------------------------------------------------
ProtocolEvent ==
  [what : Events \cup {"timeout", "invalid_message"},
   session : Sessions \cup {NoSession}]

TypeOK ==
  /\ phase \in {"idle", "queued", "sending"}
  /\ refusals \in 0..2
  /\ event \in Events
  /\ items \subseteq Item
  /\ active \in Item \cup {NoItem} /\ picked \in Item \cup {NoItem}
  /\ late \in BOOLEAN
  /\ {current, stamp, held} \subseteq Sessions \cup {NoSession}
  /\ next \in 1..(MaxSession + 1)
  /\ pc \in {"tick", "send", "drain"}
  /\ queue \in Seq(ProtocolEvent) /\ Len(queue) <= QueueSize
  /\ sends \in [Sessions -> Nat]

\* A session is in one place: scheduled once, or active, or about to be.
OnePlace ==
  /\ Cardinality(items) <= MaxItems
  /\ \A i, j \in items : i.id = j.id => i = j
  /\ \A i \in items : i.id \notin {active.id, picked.id}

\* The message of a session is handed to the handler at most MaxAttempts
\* times, whatever the retries, timeouts and stray events.
AttemptBound == \A s \in Sessions : sends[s] <= MaxAttempts

\* tick checks the handler under its lock and calls sendActiveMessage after
\* it: the handler is still free then, and no valid message is refused (and
\* given up as an invalid_message).
SendAccepted == pc = "send" => phase = "idle" /\ active = NoItem

\* Callbacks are stamped with the session of the active attempt.
StampMatches == active # NoItem => current = active.id

\* As long as the reactor catches up with the bus again and again, every
\* message that was accepted leaves the scheduler: retries, timeouts, events
\* that were dropped and events of others never hold it back for good.
SessionEnds ==
  []<>(pc = "tick") =>
    \A s \in Sessions :
      (\E i \in items : i.id = s)
        ~> s \notin {i.id : i \in items} \cup {active.id, picked.id}

-----------------------------------------------------------------------------
\* A statement of the source that the code does not keep.

\* "Correlation FIX: Set active_item_ BEFORE calling the handler": while the
\* handler holds the message of a session, active_item_ is that session, so
\* that its results map to it and the timeout watches over it.
Correlated == held # NoSession /\ pc = "tick" => active.id = held
=============================================================================
