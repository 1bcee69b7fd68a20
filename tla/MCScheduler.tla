---------------------------- MODULE MCScheduler ----------------------------
(* Scheduler for TLC: replicas, schedules and clients are interchangeable.  *)
EXTENDS Scheduler, TLC

Symmetric == Permutations(Replicas) \cup Permutations(Schedules) \cup Permutations(Clients)
=============================================================================
