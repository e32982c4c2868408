-------------------------- MODULE SchedulerProofs --------------------------
(***************************************************************************)
(* The scheduler is safe for any number of sessions and attempts, any      *)
(* sizes of its heap and of the event queue, any set of messages that the  *)
(* handler rejects, and with or without stops of the controller.           *)
(***************************************************************************)
EXTENDS Scheduler, FiniteSetTheorems, SequenceTheorems, TLAPS

-----------------------------------------------------------------------------
(***************************************************************************)
(* The inductive invariant.  Four parts are needed beyond the properties:  *)
(* the ids that are in use were given out before next; the reactor thread  *)
(* carries an item exactly between the two halves of tick, and then the    *)
(* session is published already; the timeout only runs for an active item; *)
(* and the attempts of an item count how often it was handed over, one     *)
(* behind while it is active.                                              *)
(***************************************************************************)
IdsGivenOut ==
  /\ \A i \in items : i.id < next
  /\ active.id < next /\ picked.id < next
  /\ \A s \in Sessions : s >= next => sends[s] = 0

CarriedItem ==
  /\ pc = "send" <=> picked # NoItem
  /\ pc = "send" => current = picked.id
  /\ late => active # NoItem

AttemptsCounted ==
  /\ \A i \in items : i.attempts < MaxAttempts /\ sends[i.id] <= i.attempts
  /\ picked # NoItem =>
       picked.attempts < MaxAttempts /\ sends[picked.id] <= picked.attempts
  /\ active # NoItem =>
       active.attempts < MaxAttempts /\ sends[active.id] <= active.attempts + 1

IInv ==
  /\ TypeOK
  /\ IsFiniteSet(items)
  /\ OnePlace
  /\ AttemptBound
  /\ SendAccepted
  /\ StampMatches
  /\ IdsGivenOut
  /\ CarriedItem
  /\ AttemptsCounted

-----------------------------------------------------------------------------
\* The value of active_item_ and item_to_start when there is none.
LEMMA NoItemFacts ==
  /\ NoItem \notin Item /\ NoItem.id = 0
  /\ \A i \in Item : i.id \in Sessions /\ i.id # 0 /\ i.id \in Nat
  BY SchedulerAssumption DEF NoItem, Item, Sessions

\* An item that has become due.
LEMMA ItemRipe ==
  ASSUME NEW i \in Item, NEW j, j = [i EXCEPT !.ready = TRUE]
  PROVE  j \in Item /\ j.id = i.id /\ j.attempts = i.attempts
  BY DEF Item

\* An item that goes back to the heap.
LEMMA ItemBack ==
  ASSUME NEW i \in Item, i.attempts + 1 < MaxAttempts,
         NEW j, j = [i EXCEPT !.attempts = @ + 1, !.ready = FALSE]
  PROVE  j \in Item /\ j.id = i.id /\ j.attempts = i.attempts + 1
  <1>1. i.attempts + 1 \in 0..MaxAttempts
    BY SchedulerAssumption DEF Item
  <1>2. j = [id |-> i.id, attempts |-> i.attempts + 1, ready |-> FALSE]
    BY DEF Item
  <1> QED  BY <1>1, <1>2 DEF Item

\* pushProtocolEvent keeps the queue within its size.
LEMMA PushBounded ==
  ASSUME NEW q \in Seq(ProtocolEvent), Len(q) <= QueueSize,
         NEW what \in Events \cup {"timeout", "invalid_message"},
         NEW session \in Sessions \cup {NoSession}
  PROVE  /\ Push(q, what, session) \in Seq(ProtocolEvent)
         /\ Len(Push(q, what, session)) <= QueueSize
  <1> DEFINE e == [what |-> what, session |-> session]
             r == IF Len(q) < QueueSize THEN q ELSE Tail(q)
  <1>1. e \in ProtocolEvent
    BY DEF ProtocolEvent
  <1>2. QueueSize \in Nat /\ QueueSize > 0 /\ Len(q) \in Nat
    BY SchedulerAssumption
  <1>3. r \in Seq(ProtocolEvent) /\ Len(r) \in Nat /\ Len(r) < QueueSize
    <2>1. CASE Len(q) < QueueSize
      BY <2>1, <1>2
    <2>2. CASE ~(Len(q) < QueueSize)
      <3>1. q # << >>
        BY <2>2, <1>2
      <3> QED  BY <2>2, <3>1, <1>2, HeadTailProperties
    <2> QED  BY <2>1, <2>2
  <1>4. Push(q, what, session) = Append(r, e)
    BY DEF Push
  <1> HIDE DEF e, r
  <1> QED  BY <1>1, <1>2, <1>3, <1>4, AppendProperties

\* An item more in the heap, if it has room.
LEMMA ItemAdded ==
  ASSUME NEW S, IsFiniteSet(S), Cardinality(S) < MaxItems, NEW i
  PROVE  IsFiniteSet(S \cup {i}) /\ Cardinality(S \cup {i}) <= MaxItems
  <1>1. /\ IsFiniteSet(S \cup {i})
        /\ Cardinality(S \cup {i}) = IF i \in S THEN Cardinality(S)
                                     ELSE Cardinality(S) + 1
    BY FS_AddElement
  <1>2. Cardinality(S) \in Nat
    BY FS_CardinalityType
  <1> QED  BY <1>1, <1>2, SchedulerAssumption

\* An item less.
LEMMA ItemTaken ==
  ASSUME NEW S, IsFiniteSet(S), Cardinality(S) <= MaxItems, NEW i \in S
  PROVE  IsFiniteSet(S \ {i}) /\ Cardinality(S \ {i}) < MaxItems
  <1>1. /\ IsFiniteSet(S \ {i})
        /\ Cardinality(S \ {i}) = Cardinality(S) - 1
    BY FS_RemoveElement
  <1>2. Cardinality(S) \in Nat
    BY FS_CardinalityType
  <1> QED  BY <1>1, <1>2, SchedulerAssumption

-----------------------------------------------------------------------------
\* The invariant holds when the scheduler starts.
LEMMA InitInv == Init => IInv
  <1> SUFFICES ASSUME Init PROVE IInv
    OBVIOUS
  <1> USE DEF Init, PortInit
  <1>1. TypeOK
    <2>1. queue \in Seq(ProtocolEvent) /\ Len(queue) <= QueueSize
      BY EmptySeq, SchedulerAssumption
    <2>2. sends \in [Sessions -> Nat] /\ next \in 1..(MaxSession + 1)
      BY SchedulerAssumption
    <2>3. {current, stamp, held} \subseteq Sessions \cup {NoSession}
      OBVIOUS
    <2>4. /\ phase \in {"idle", "queued", "sending"} /\ refusals \in 0..2
          /\ event \in Events /\ pc \in {"tick", "send", "drain"}
      BY DEF Events
    <2> QED  BY <2>1, <2>2, <2>3, <2>4, Zenon DEF TypeOK
  <1>2. IsFiniteSet(items) /\ Cardinality(items) = 0
    BY FS_EmptySet
  <1>3. OnePlace
    BY <1>2, SchedulerAssumption DEF OnePlace
  <1>4. AttemptBound /\ AttemptsCounted
    BY SchedulerAssumption DEF AttemptBound, AttemptsCounted
  <1>5. SendAccepted /\ StampMatches /\ IdsGivenOut /\ CarriedItem
    BY DEF SendAccepted, StampMatches, IdsGivenOut, CarriedItem, NoItem, Sessions
  <1> QED  BY <1>1, <1>2, <1>3, <1>4, <1>5 DEF IInv

\* enqueue: the id is new, so nothing else has it.
LEMMA EnqueueInv ==
  ASSUME IInv, NEW ready \in BOOLEAN, Enqueue(ready) PROVE IInv'
  <1> DEFINE i == [id |-> next, attempts |-> 0, ready |-> ready]
  <1> USE DEF Enqueue, handler, reactor
  <1>1. i \in Item /\ i.id = next /\ i.attempts = 0 /\ next \in Sessions
    BY SchedulerAssumption DEF Item, Sessions, IInv, TypeOK
  <1>2. items' \in {items, items \cup {i}}
    OBVIOUS
  <1> HIDE DEF i
  <1>3. TypeOK'
    BY <1>1, <1>2, SchedulerAssumption DEF IInv, TypeOK, Sessions
  <1>4. IsFiniteSet(items)' /\ (Cardinality(items) <= MaxItems)'
    BY ItemAdded DEF IInv, OnePlace
  <1>5. /\ \A j \in items : j.id < next /\ j.id # next
        /\ active.id # next /\ picked.id # next
        /\ next \in Nat /\ next' = next + 1
    BY NoItemFacts, SchedulerAssumption DEF IInv, TypeOK, IdsGivenOut
  <1>6. OnePlace'
    BY <1>1, <1>2, <1>4, <1>5 DEF IInv, OnePlace
  <1>7. IdsGivenOut'
    <2>1. active.id \in Nat /\ picked.id \in Nat /\ \A j \in items : j.id \in Nat
      BY NoItemFacts DEF IInv, TypeOK
    <2> QED  BY <1>1, <1>2, <1>5, <2>1 DEF IInv, IdsGivenOut, Sessions
  <1>8. AttemptsCounted'
    <2>1. sends[next] = 0 /\ 0 < MaxAttempts
      BY <1>1, <1>5, SchedulerAssumption DEF IInv, IdsGivenOut
    <2> QED  BY <1>1, <1>2, <2>1 DEF IInv, AttemptsCounted
  <1>9. (AttemptBound /\ SendAccepted /\ StampMatches /\ CarriedItem)'
    BY DEF IInv, AttemptBound, SendAccepted, StampMatches, CarriedItem
  <1> QED  BY <1>3, <1>4, <1>6, <1>7, <1>8, <1>9 DEF IInv

\* Time makes an item due; it stays the same session.
LEMMA RipenInv ==
  ASSUME IInv, NEW i \in items, Ripen(i) PROVE IInv'
  <1> DEFINE j == [i EXCEPT !.ready = TRUE]
  <1> USE DEF Ripen, handler, reactor
  <1>1. i \in Item /\ j \in Item /\ j.id = i.id /\ j.attempts = i.attempts
    <2>1. i \in Item
      BY DEF IInv, TypeOK
    <2> QED  BY <2>1, ItemRipe
  <1>2. items' = (items \ {i}) \cup {j}
    OBVIOUS
  <1> HIDE DEF j
  <1>3. TypeOK'
    BY <1>1, <1>2 DEF IInv, TypeOK
  <1>4. IsFiniteSet(items)' /\ (Cardinality(items) <= MaxItems)'
    <2>1. IsFiniteSet(items \ {i}) /\ Cardinality(items \ {i}) < MaxItems
      BY ItemTaken DEF IInv, OnePlace
    <2> HIDE DEF Ripen
    <2> QED  BY <1>2, <2>1, ItemAdded
  <1>5. OnePlace'
    BY <1>1, <1>2, <1>4 DEF IInv, OnePlace
  <1>6. (IdsGivenOut /\ AttemptsCounted)'
    BY <1>1, <1>2 DEF IInv, IdsGivenOut, AttemptsCounted
  <1>7. (AttemptBound /\ SendAccepted /\ StampMatches /\ CarriedItem)'
    BY DEF IInv, AttemptBound, SendAccepted, StampMatches, CarriedItem
  <1> QED  BY <1>3, <1>4, <1>5, <1>6, <1>7 DEF IInv

\* stop empties the scheduler.
LEMMA StopInv ==
  ASSUME IInv, Stop PROVE IInv'
  <1> USE DEF Stop, handler, reactor
  <1>1. IsFiniteSet(items)' /\ (Cardinality(items) <= MaxItems)'
    BY FS_EmptySet, SchedulerAssumption
  <1>2. TypeOK'
    BY DEF IInv, TypeOK
  <1>3. OnePlace'
    BY <1>1 DEF OnePlace
  <1>4. IdsGivenOut'
    BY NoItemFacts, SchedulerAssumption DEF IInv, IdsGivenOut, TypeOK
  <1>5. (AttemptBound /\ SendAccepted /\ StampMatches /\ CarriedItem
           /\ AttemptsCounted)'
    BY DEF IInv, AttemptBound, SendAccepted, StampMatches, CarriedItem,
           AttemptsCounted
  <1> QED  BY <1>1, <1>2, <1>3, <1>4, <1>5 DEF IInv

-----------------------------------------------------------------------------
\* The timeout drops the message of the handler and reports itself.
LEMMA TickTimeoutInv ==
  ASSUME IInv, TickTimeout PROVE IInv'
  <1> USE DEF TickTimeout, Drop
  <1>1. active.id \in Sessions \cup {NoSession}
    BY NoItemFacts DEF IInv, TypeOK, NoSession
  <1>2. queue' \in Seq(ProtocolEvent) /\ Len(queue') <= QueueSize
    BY <1>1, PushBounded DEF IInv, TypeOK
  <1>3. TypeOK'
    BY <1>2 DEF IInv, TypeOK, NoSession
  <1>4. (OnePlace /\ AttemptBound /\ SendAccepted /\ StampMatches /\ IdsGivenOut
           /\ CarriedItem /\ AttemptsCounted)' /\ IsFiniteSet(items)'
    BY DEF IInv, OnePlace, AttemptBound, SendAccepted, StampMatches, IdsGivenOut,
           CarriedItem, AttemptsCounted
  <1> QED  BY <1>3, <1>4 DEF IInv

\* The item that is taken leaves the heap and is carried to the second half.
LEMMA TickPickInv ==
  ASSUME IInv, NEW i \in items, TickPick(i) PROVE IInv'
  <1> USE DEF TickPick, handler
  <1>1. i \in Item /\ i # NoItem /\ i.id \in Sessions
    BY NoItemFacts DEF IInv, TypeOK
  <1>2. TypeOK'
    BY <1>1 DEF IInv, TypeOK
  <1>3. IsFiniteSet(items)' /\ (Cardinality(items) <= MaxItems)'
    <2>1. IsFiniteSet(items)' /\ Cardinality(items') < MaxItems
      BY ItemTaken DEF IInv, OnePlace
    <2>2. Cardinality(items') \in Nat
      BY <2>1, FS_CardinalityType
    <2> QED  BY <2>1, <2>2, SchedulerAssumption
  <1>4. OnePlace'
    BY <1>3 DEF IInv, OnePlace
  <1>5. (IdsGivenOut /\ AttemptsCounted)'
    BY <1>1 DEF IInv, IdsGivenOut, AttemptsCounted
  <1>6. (AttemptBound /\ SendAccepted /\ StampMatches /\ CarriedItem)'
    BY <1>1 DEF IInv, AttemptBound, SendAccepted, StampMatches, CarriedItem
  <1> QED  BY <1>2, <1>3, <1>4, <1>5, <1>6 DEF IInv

\* The item that is carried becomes active and, if its message is valid, has
\* been handed over once more.
LEMMA TickSendInv ==
  ASSUME IInv, TickSend PROVE IInv'
  <1> USE DEF TickSend, handler
  <1>1. picked \in Item /\ picked # NoItem /\ picked.id \in Sessions
          /\ active = NoItem /\ current = picked.id
    BY NoItemFacts DEF IInv, TypeOK, CarriedItem, SendAccepted
  <1>2. /\ picked.attempts \in Nat /\ picked.attempts < MaxAttempts
        /\ sends \in [Sessions -> Nat] /\ sends[picked.id] \in Nat
        /\ sends[picked.id] <= picked.attempts /\ MaxAttempts \in Nat
    BY <1>1, SchedulerAssumption DEF IInv, TypeOK, AttemptsCounted, Item
  <1>3. \/ sends' = [sends EXCEPT ![picked.id] = @ + 1]
        \/ sends' = sends
    OBVIOUS
  <1>4. /\ sends' \in [Sessions -> Nat]
        /\ sends'[picked.id] <= picked.attempts + 1
        /\ \A s \in Sessions : s # picked.id => sends'[s] = sends[s]
    BY <1>1, <1>2, <1>3
  <1>5. queue' \in Seq(ProtocolEvent) /\ Len(queue') <= QueueSize
    BY <1>1, PushBounded DEF IInv, TypeOK
  <1>6. TypeOK'
    BY <1>1, <1>4, <1>5 DEF IInv, TypeOK, Accept
  <1>7. OnePlace' /\ IsFiniteSet(items)'
    BY <1>1, NoItemFacts DEF IInv, OnePlace, TypeOK
  <1>8. AttemptBound'
    BY <1>1, <1>2, <1>4 DEF IInv, AttemptBound
  <1>9. IdsGivenOut'
    <2>1. picked.id < next /\ \A s \in Sessions : s >= next => s # picked.id
      BY <1>1, SchedulerAssumption DEF IInv, IdsGivenOut, TypeOK, Sessions
    <2>2. 0 < next
      BY SchedulerAssumption DEF IInv, TypeOK
    <2> QED  BY <1>4, <2>1, <2>2, NoItemFacts DEF IInv, IdsGivenOut
  <1>10. AttemptsCounted'
    <2>1. \A i \in items : i.id \in Sessions /\ i.id # picked.id
      BY NoItemFacts DEF IInv, TypeOK, OnePlace
    <2> QED  BY <1>1, <1>2, <1>4, <2>1 DEF IInv, AttemptsCounted
  <1>11. (SendAccepted /\ StampMatches /\ CarriedItem)'
    BY <1>1 DEF SendAccepted, StampMatches, CarriedItem
  <1> QED  BY <1>6, <1>7, <1>8, <1>9, <1>10, <1>11 DEF IInv

\* An event for the active session ends the attempt; the item goes back to
\* the heap with one attempt more, or leaves for good.
LEMMA InjectInv ==
  ASSUME IInv, Inject PROVE IInv'
  <1> DEFINE e == Head(queue)
             back == [active EXCEPT !.attempts = @ + 1, !.ready = FALSE]
  <1> USE DEF Inject, handler, reactor
  <1>1. queue' \in Seq(ProtocolEvent) /\ Len(queue') <= QueueSize
    <2>1. queue \in Seq(ProtocolEvent) /\ queue # << >> /\ Len(queue) <= QueueSize
            /\ QueueSize \in Nat
      BY SchedulerAssumption DEF IInv, TypeOK
    <2>2. Tail(queue) \in Seq(ProtocolEvent) /\ Len(Tail(queue)) = Len(queue) - 1
            /\ Len(queue) \in Nat
      BY <2>1, HeadTailProperties
    <2> QED  BY <2>1, <2>2
  <1>2. CASE UNCHANGED <<items, active, late, current>>
    BY <1>1, <1>2 DEF IInv, TypeOK, OnePlace, AttemptBound, SendAccepted, StampMatches,
           IdsGivenOut, CarriedItem, AttemptsCounted
  <1>3. CASE /\ active # NoItem
             /\ items' = IF Retryable(e) THEN Again(active) ELSE items
             /\ active' = NoItem /\ late' = FALSE /\ current' = NoSession
    <2>1. active \in Item /\ pc = "drain" /\ picked = NoItem
      BY <1>3 DEF IInv, TypeOK, CarriedItem
    <2>2. items' = items \/ (/\ items' = items \cup {back}
                             /\ Cardinality(items) < MaxItems
                             /\ active.attempts + 1 < MaxAttempts)
      BY <1>3, Zenon DEF Retryable, Again
    <2>3. ASSUME active.attempts + 1 < MaxAttempts
          PROVE  /\ back \in Item /\ back.id = active.id
                 /\ back.attempts = active.attempts + 1
      <3> HIDE DEF Inject
      <3> QED  BY <2>1, <2>3, ItemBack
    <2> HIDE DEF back
    <2>4. TypeOK'
      BY <1>1, <1>3, <2>2, <2>3 DEF IInv, TypeOK, NoSession
    <2>5. IsFiniteSet(items)' /\ (Cardinality(items) <= MaxItems)'
      <3>1. CASE items' = items
        BY <3>1 DEF IInv, OnePlace
      <3>2. CASE items' = items \cup {back} /\ Cardinality(items) < MaxItems
        <4>1. IsFiniteSet(items)
          BY DEF IInv
        <4> HIDE DEF Inject
        <4> QED  BY <3>2, <4>1, ItemAdded
      <3> QED  BY <2>2, <3>1, <3>2
    <2>6. active.id # 0 /\ picked.id = 0 /\ \A i \in items : i.id # active.id /\ i.id # 0
      BY <2>1, NoItemFacts DEF IInv, OnePlace, TypeOK
    <2>7. OnePlace'
      BY <1>3, <2>1, <2>2, <2>3, <2>5, <2>6, NoItemFacts DEF IInv, OnePlace
    <2>8. IdsGivenOut'
      <3>1. 0 < next
        BY SchedulerAssumption DEF IInv, TypeOK
      <3> QED  BY <1>3, <2>2, <2>3, <3>1, NoItemFacts DEF IInv, IdsGivenOut
    <2>9. AttemptsCounted'
      BY <1>3, <2>1, <2>2, <2>3 DEF IInv, AttemptsCounted
    <2>10. (AttemptBound /\ SendAccepted /\ StampMatches /\ CarriedItem)'
      BY <1>3, <2>1 DEF IInv, AttemptBound, SendAccepted, StampMatches, CarriedItem
    <2> QED  BY <2>4, <2>5, <2>7, <2>8, <2>9, <2>10 DEF IInv
  <1> QED  BY <1>2, <1>3

\* The bus thread never makes an idle handler busy, so tick finds it as it
\* left it.
LEMMA HandlerStepInv ==
  ASSUME IInv, HandlerStep PROVE IInv'
  <1> USE DEF HandlerStep, reactor
  <1>1. /\ phase' \in {"idle", "queued", "sending"}
        /\ refusals' \in 0..2 /\ event' \in Events
        /\ phase = "idle" => phase' = "idle"
    BY DEF IInv, TypeOK, BusStep, WinBus, LoseBus, Finish, RefuseSlavePart,
           Overhear, Quiet, Events, Finals, Overheard
  <1>2. TypeOK'
    BY <1>1 DEF IInv, TypeOK
  <1>3. SendAccepted'
    BY <1>1 DEF IInv, SendAccepted
  <1>4. (OnePlace /\ AttemptBound /\ StampMatches /\ IdsGivenOut
           /\ CarriedItem /\ AttemptsCounted)' /\ IsFiniteSet(items)'
    BY DEF IInv, OnePlace, AttemptBound, StampMatches, IdsGivenOut, CarriedItem,
           AttemptsCounted
  <1> QED  BY <1>2, <1>3, <1>4 DEF IInv

\* The bus thread posts its event: Post keeps the invariant.
LEMMA PostInv ==
  ASSUME IInv, Post PROVE IInv'
  <1> USE DEF Post, reactor
  <1>1. queue' \in Seq(ProtocolEvent) /\ Len(queue') <= QueueSize
    BY PushBounded DEF IInv, TypeOK
  <1>2. TypeOK'
    BY <1>1 DEF IInv, TypeOK, Events, NoSession
  <1>3. (OnePlace /\ AttemptBound /\ SendAccepted /\ StampMatches /\ IdsGivenOut
           /\ CarriedItem /\ AttemptsCounted)' /\ IsFiniteSet(items)'
    BY DEF IInv, OnePlace, AttemptBound, SendAccepted, StampMatches, IdsGivenOut,
           CarriedItem, AttemptsCounted
  <1> QED  BY <1>2, <1>3 DEF IInv

-----------------------------------------------------------------------------
\* Every step keeps the invariant.
LEMMA NextInv == IInv /\ [Next]_vars => IInv'
  <1> SUFFICES ASSUME IInv, [Next]_vars PROVE IInv'
    OBVIOUS
  <1>1. CASE Expire \/ TickNothing \/ DrainDone \/ UNCHANGED vars
    <2>1. /\ UNCHANGED <<phase, refusals, event, held, picked, items, active, current,
                         next, queue, stamp, sends>>
          /\ pc' # pc => pc' \in {"tick", "drain"} /\ pc # "send"
          /\ late' # late => late' = TRUE /\ active # NoItem
      BY <1>1 DEF Expire, TickNothing, DrainDone, vars, handler, reactor
    <2>2. TypeOK'
      BY <2>1 DEF IInv, TypeOK
    <2>3. CarriedItem'
      BY <2>1 DEF IInv, CarriedItem, TypeOK
    <2>4. (OnePlace /\ AttemptBound /\ SendAccepted /\ StampMatches /\ IdsGivenOut
             /\ AttemptsCounted)' /\ IsFiniteSet(items)'
      BY <2>1 DEF IInv, OnePlace, AttemptBound, SendAccepted, StampMatches,
                  IdsGivenOut, AttemptsCounted
    <2> QED  BY <2>2, <2>3, <2>4 DEF IInv
  <1> QED
    BY <1>1, EnqueueInv, RipenInv, StopInv, TickTimeoutInv, TickPickInv, TickSendInv,
       InjectInv, HandlerStepInv, PostInv DEF Next

\* The inductive invariant holds in every reachable state.
THEOREM Invariant == Spec => []IInv
  BY InitInv, NextInv, PTL DEF Spec

\* The variables keep their types, and the queue of protocol events its size
\* (Reactor::pushProtocolEvent drops the oldest one).
THEOREM TypeCorrect == Spec => []TypeOK
  <1>1. IInv => TypeOK
    BY DEF IInv
  <1> QED  BY <1>1, Invariant, PTL

\* A session is never in two places at once: not twice in the heap, and not
\* in the heap while it is active or about to be (tick, onProtocolEvent).
THEOREM OnePlaceHolds == Spec => []OnePlace
  <1>1. IInv => OnePlace
    BY DEF IInv
  <1> QED  BY <1>1, Invariant, PTL

\* No message is handed over more than max_attempts_ times, however retries,
\* timeouts, late events and stops interleave.
THEOREM AttemptBoundHolds == Spec => []AttemptBound
  <1>1. IInv => AttemptBound
    BY DEF IInv
  <1> QED  BY <1>1, Invariant, PTL

\* Between the check of the handler under the lock and the call of
\* sendActiveMessage after it, the handler stays free.
THEOREM SendAcceptedHolds == Spec => []SendAccepted
  <1>1. IInv => SendAccepted
    BY DEF IInv
  <1> QED  BY <1>1, Invariant, PTL

\* The session id that the callbacks of the bus thread read is that of the
\* active item.
THEOREM StampMatchesHolds == Spec => []StampMatches
  <1>1. IInv => StampMatches
    BY DEF IInv
  <1> QED  BY <1>1, Invariant, PTL
=============================================================================
