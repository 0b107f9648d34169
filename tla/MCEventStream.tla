--------------------------- MODULE MCEventStream ---------------------------
(***************************************************************************)
(* Forwarders are interchangeable: which free slot an attach takes does    *)
(* not matter, and every formula that names a slot quantifies over all.    *)
(***************************************************************************)
EXTENDS EventStream, TLC

ForwarderSymmetry == Permutations(Slots)
=============================================================================
