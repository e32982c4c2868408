---------------------------- MODULE MCScheduler ----------------------------
(* Instances of Scheduler for TLC: three sessions, of which the second has *)
(* a message that the handler rejects, compete for one place in the heap.  *)
EXTENDS Scheduler, TLC
=============================================================================
