------------------------------ MODULE Outbound ------------------------------
(***************************************************************************)
(* The bytes that wait for a client's socket (src/ebus/app/client.cpp): a  *)
(* ring of Cap bytes with head_ and count_.  What is new is stored and     *)
(* what is oldest is dropped when there is no room.                        *)
(***************************************************************************)
EXTENDS Enhanced, SequencesExt

CONSTANTS
  Cap,    \* max_buffer_size_ (network.outbound_buffer_size)
  Sizes   \* how many values a size_t has; count_ is counted modulo Sizes

\* validate (config_validator.cpp) refuses a ring of no bytes only; a ring
\* that could be allocated is far smaller than a size_t can say.
ASSUME CapAssumption ==
  Cap \in Nat \ {0} /\ Sizes \in Nat /\ Sizes > Cap + MaxSequenceLen

NewRing == [buf |-> [i \in 0..(Cap - 1) |-> 0], head |-> 0, count |-> 0]

Contents(g) == [i \in 1..g.count |-> g.buf[(g.head + i - 1) % Cap]]

Drop(g, n) == [g EXCEPT !.head = (@ + n) % Cap, !.count = (@ - n) % Sizes]

\* Plausible error: the oldest bytes are overwritten but still counted as
\* the first.
StoreInPlace(g, b) ==
  [g EXCEPT !.buf[(g.head + g.count) % Cap] = b,
            !.count = IF @ < Cap THEN @ + 1 ELSE @]

\* The byte goes behind the last one.
Store(g, b) ==
  LET room == IF g.count >= Cap THEN Drop(g, 1) ELSE g
  IN  [room EXCEPT !.buf[(room.head + room.count) % Cap] = b,
                   !.count = @ + 1]

\* RegularClient::enqueueOutgoingData of the one byte it is called with.
RegularEnqueue(g, b) == Store(g, b)

\* What an enhanced client is sent for a response and its value: the value
\* alone if it is a received byte below DataThreshold.
Unit(cmd, val) ==
  IF cmd = Response.received /\ val < DataThreshold THEN << val >>
  ELSE Encode(cmd, val)

\* The loop that drops the oldest byte while two more do not fit.  It looks
\* at count_ + 2 only, so with Cap = 1 it goes on below zero: count_ wraps.
MakeRoom(g) ==
  LET over == ((g.count + MaxSequenceLen) % Sizes) - Cap
  IN  IF over > 0 THEN Drop(g, over) ELSE g

\* EnhancedClient::enqueueOutgoingData makes room for two bytes, whatever it
\* then stores.
EnhancedEnqueue(g, cmd, val) == FoldLeft(Store, MakeRoom(g), Unit(cmd, val))

\* flushLocked: the socket takes n bytes, in two writes when they wrap; a
\* short write ends the loop.
Flush(g, n) == Drop(g, n)
=============================================================================
