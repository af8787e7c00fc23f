------------------------------ MODULE MCZQueue ------------------------------
(***************************************************************************)
(* Instances of ZQueue for TLC.                                            *)
(***************************************************************************)
EXTENDS ZQueue, TLC

Symmetry == Permutations(Producers) \cup Permutations(Consumers) \cup Permutations(Chunks)
=============================================================================
