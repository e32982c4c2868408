------------------------------- MODULE Queue -------------------------------
(***************************************************************************)
(* The bounded queue between threads (src/ebus/platform/posix/             *)
(* queue_posix.hpp) as operators on a record: buf is the content of the    *)
(* ring from head_ on, cap the capacity, shut the shutdown flag.  Every    *)
(* operation is one critical section of the queue's mutex.                 *)
(***************************************************************************)
EXTENDS Naturals, Sequences

\* The constructor.
NewQueue(capacity) == [buf |-> <<>>, cap |-> capacity, shut |-> FALSE]

Full(q) == Len(q.buf) >= q.cap

\* tryPush: a refused item leaves the queue as it is.
CanPush(q)       == ~q.shut /\ ~Full(q)
TryPush(q, item) == IF CanPush(q) THEN [q EXCEPT !.buf = Append(@, item)] ELSE q

\* pop: a queue that is shut down still hands out what it holds.
CanPop(q) == Len(q.buf) > 0
Popped(q) == [q EXCEPT !.buf = Tail(@)]

\* tryPop does not: it refuses as soon as the queue is shut down.
CanTryPop(q) == CanPop(q) /\ ~q.shut

\* discard(1): the oldest item goes, unless the queue is shut down.
Discard(q) == IF CanTryPop(q) THEN Popped(q) ELSE q

\* What the producers of the Reactor do with a full queue: discard the
\* oldest item and try once more.
PushNewest(q, item) ==
  IF CanPush(q) THEN TryPush(q, item) ELSE TryPush(Discard(q), item)

\* shutdown: no way back but reset, which nobody calls.
Shutdown(q) == [q EXCEPT !.shut = TRUE]
=============================================================================
