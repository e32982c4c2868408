---------------------------- MODULE PollManager ----------------------------
(***************************************************************************)
(* The poll manager (src/ebus/app/poll_manager.cpp) as operators on a      *)
(* record: items is the array items_, which the code treats as a binary    *)
(* heap with the earliest item in front; next is next_poll_id_; own the    *)
(* slave address of own_address_.  An item polls the slave `to' every      *)
(* `every' ticks; `due' is the time to its next_due, at most 0 when it is  *)
(* due.  Each operation is one critical section of mutex_.                 *)
(*                                                                         *)
(* std::push_heap and std::pop_heap are modelled as libstdc++ does them,   *)
(* on whatever array they are given: after an erase it need not be a heap. *)
(***************************************************************************)
EXTENDS Integers, Sequences, Once

CONSTANTS
  MaxPolls,   \* PollLimits::max_items
  MaxId       \* the largest uint16_t, after which next_poll_id_ is 0

ASSUME PollAssumption == MaxPolls \in Nat \ {0} /\ MaxId \in Nat \ {0}

NewPolls(own) == [items |-> <<>>, next |-> 1, own |-> own]

\* Mutant: the latest item in front.
GreaterReversed(x, y) == x.due < y.due \/ (x.due = y.due /\ x.id < y.id)

\* Item::Greater: x is fired after y.
Greater(x, y) == x.due > y.due \/ (x.due = y.due /\ x.id > y.id)

----------------------------------------------------------------------------
(* The heap functions of the standard library.                             *)

\* The positions from n up to the root.
Path(n) == {p \in 1..n : \E k \in 0..n : p = n \div 2^k}

\* __push_heap: v enters at the lower end of the path and rises past the
\* items that are Greater, each of which moves down.
Risen(h, path, v) ==
  LET filled == {p \in path \ {1} :
                   \A q \in path : p <= q => Greater(h[q \div 2], v)}
  IN [i \in DOMAIN h |->
        IF i \in filled THEN h[i \div 2]
        ELSE IF i \in path /\ path \cap {2 * i, 2 * i + 1} \subseteq filled THEN v
        ELSE h[i]]

push_heap(h) == Risen(h, Path(Len(h)), h[Len(h)])

\* __adjust_heap on the first m items: the hole at the root sinks to a leaf,
\* along the child that is not Greater, and the last item rises from there.
Child(h, m, i) ==
  IF 2 * i = m \/ Greater(h[2 * i + 1], h[2 * i]) THEN 2 * i ELSE 2 * i + 1

Holes(h, m) == {i \in 1..m : \A p \in Path(i) \ {1} : p = Child(h, m, p \div 2)}

Sunk(h, m, path) ==
  [i \in 1..m |-> IF 2 * i \in path THEN h[2 * i]
                  ELSE IF 2 * i + 1 \in path THEN h[2 * i + 1]
                  ELSE h[i]]

\* What std::pop_heap leaves in front of the popped item.
Rest(h) ==
  LET m == Len(h) - 1
  IN IF m = 0 THEN <<>>
     ELSE With(Holes(h, m), LAMBDA path : Risen(Sunk(h, m, path), path, h[m + 1]))

----------------------------------------------------------------------------
(* Operations.                                                             *)

\* StaticVector::erase.
Without(h, i) == SubSeq(h, 1, i - 1) \o SubSeq(h, i + 1, Len(h))

\* The items that do not poll the slave own, in their order.
Others(h, own) ==
  LET kept[n \in 0..Len(h)] ==
        IF n = 0 THEN <<>>
        ELSE IF h[n].to = own THEN kept[n - 1]
        ELSE Append(kept[n - 1], h[n])
  IN kept[Len(h)]

\* Mutant: the items are kept.
SetOwnAddressOnly(p, own) == [p EXCEPT !.own = own]

\* setOwnAddress: the items that would poll the node itself go.  The
\* array is not made a heap again.
SetOwnAddress(p, own) == [p EXCEPT !.own = own, !.items = Others(@, own)]

\* The id after one that was given out: 0 is skipped.
Successor(id) == (id + 1) % (MaxId + 1)
FreshId(p)    == IF p.next = 0 THEN 1 ELSE p.next

\* addPollItem: is the item taken?
CanAdd(p, to) == to # p.own /\ Len(p.items) < MaxPolls

AddPollItem(p, to, interval) ==
  LET item == [id |-> FreshId(p), to |-> to, due |-> 0,
               every |-> IF interval = 0 THEN 1 ELSE interval]
  IN [p EXCEPT !.items = push_heap(Append(@, item)),
               !.next  = Successor(FreshId(p))]

\* removePollItem: the first item with the id, no new heap.
RemovePollItem(p, id) ==
  LET at == {i \in DOMAIN p.items : p.items[i].id = id}
  IN IF at = {} THEN p
     ELSE [p EXCEPT !.items =
             Without(@, CHOOSE i \in at : \A j \in at : i <= j)]

\* clear.
ClearItems(p) == [p EXCEPT !.items = <<>>]

\* processDueItems: the loop looks at the front only.
FrontDue(p) == p.items # <<>> /\ p.items[1].due <= 0

\* One turn of the loop: the front is popped, handed to the callback and
\* put back.
Fired(p) ==
  LET front == p.items[1]
      again == [front EXCEPT !.due = front.every]
  IN With(Append(Rest(p.items), again), LAMBDA h : [p EXCEPT !.items = push_heap(h)])

\* Time passes.
Sooner(item) == [item EXCEPT !.due = @ - 1]
Aged(p)      == [p EXCEPT !.items = [i \in DOMAIN p.items |-> Sooner(p.items[i])]]
=============================================================================
