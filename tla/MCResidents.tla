---------------------------- MODULE MCResidents ----------------------------
(* Residents with two children and one slot. *)
EXTENDS Residents, TLC

CONSTANTS c1, c2

\* The children are interchangeable: no definition tells one from another.
Symmetry == Permutations(Children)

\* Only is SelectSeq.
ASSUME OnlyIsSelectSeq ==
    \A s \in UNION {[1..n -> 1..3] : n \in 0..4}, T \in SUBSET (1..3) :
        Only(s, T) = SelectSeq(s, LAMBDA x : x \in T)
=============================================================================
