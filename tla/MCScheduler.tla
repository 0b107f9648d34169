---------------------------- MODULE MCScheduler ----------------------------
(***************************************************************************)
(* Instances of Scheduler for TLC: two tasks of two sessions, one due      *)
(* every minute and one every other minute.  Goroutines are interchangeable. *)
(***************************************************************************)
EXTENDS Scheduler, TLC

MCOwner  == [t \in Tasks |-> IF t = "t1" THEN "s1" ELSE "s2"]
MCPeriod == [t \in Tasks |-> IF t = "t1" THEN 1 ELSE 2]
MCGoroutines == Permutations(Workers)
=============================================================================
