------------------------------ MODULE Filters ------------------------------
(***************************************************************************)
(* The part of a sequence that lies in a set, in its order: what the loops  *)
(* of the code compute that copy a slice but for some elements.  It is      *)
(* SelectSeq in closed form: the k-th element that is kept is the one with  *)
(* k kept ones up to it.                                                    *)
(***************************************************************************)
EXTENDS Naturals, Sequences, FiniteSets

\* How many of the first i elements of s are in T.
UpTo(s, T, i) == Cardinality({j \in 1..i : s[j] \in T})

Only(s, T) ==
  [k \in 1..UpTo(s, T, Len(s)) |->
     s[CHOOSE i \in DOMAIN s : s[i] \in T /\ UpTo(s, T, i) = k]]

=============================================================================
