----------------------------- MODULE MCReactor -----------------------------
(* Instances of Reactor for TLC: the node is the slave 1 and may become    *)
(* the slave 2, which always answers and has vendor data; 3 may fail to    *)
(* answer.                                                                 *)
EXTENDS Reactor

MCOwn == <<1, 2>>

None == [b \in Calls |-> IF b = "start" THEN 1 ELSE 0]

\* Three polls and a removal; two polls, or a scan, and another address;
\* two scans; a scan with an inquiry of existence and a message, which may
\* fill the scheduler, or with a foreign telegram; a message and a stop; an
\* inquiry of existence, a foreign one and another address.
MCBudgets ==
  {[None EXCEPT !.poll = 4],
   [None EXCEPT !.poll = 2, !.address = 1],
   [None EXCEPT !.scan = 1, !.address = 1],
   [None EXCEPT !.scan = 2],
   [None EXCEPT !.scan = 1, !.message = 1, !.inquiry = 1],
   [None EXCEPT !.scan = 1, !.foreign = 1],
   [None EXCEPT !.message = 1, !.stop = 1],
   [None EXCEPT !.inquiry = 1, !.foreign = 1, !.address = 1]}

\* The reactor is stopped, started again and stopped.
RestartBudgets == {[None EXCEPT !.start = 2, !.stop = 2]}
=============================================================================
