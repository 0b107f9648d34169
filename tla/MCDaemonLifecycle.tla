-------------------------- MODULE MCDaemonLifecycle --------------------------
(***************************************************************************)
(* Model-checking instances of DaemonLifecycle.  The connections, the       *)
(* sessions and the transcripts are interchangeable.                        *)
(***************************************************************************)
EXTENDS DaemonLifecycle, TLC

Symmetry == Permutations(Clients) \cup Permutations(Sessions) \cup Permutations(Files)
=============================================================================
