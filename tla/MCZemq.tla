------------------------------- MODULE MCZemq -------------------------------
(***************************************************************************)
(* Instances of Zemq for TLC.                                              *)
(***************************************************************************)
EXTENDS Zemq, TLC

Symmetry == Permutations(Workers) \cup Permutations(Nodes) \cup Permutations(Conns)
=============================================================================
