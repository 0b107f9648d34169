--------------------------- MODULE MCSessionTurn ---------------------------
(***************************************************************************)
(* Instances of SessionTurn for TLC.  Prompts of one kind are               *)
(* interchangeable.                                                        *)
(***************************************************************************)
EXTENDS SessionTurn

Symmetry == Permutations(Users)
=============================================================================
