------------------------------ MODULE MCDeques ------------------------------
(***************************************************************************)
(* The two implementations of a double-ended queue, the chunked queue and  *)
(* the list, checked one at a time: used says which one a behaviour uses.  *)
(***************************************************************************)
EXTENDS ZDeque, ZList, TLC

VARIABLE used

MCInit == Init /\ ListInit /\ used \in {"zqueue", "zlist"}

MCNext ==
  /\ \/ used = "zqueue" /\ Next /\ UNCHANGED listVars
     \/ used = "zlist" /\ ListNext /\ UNCHANGED vars
  /\ UNCHANGED used

MCSpec == MCInit /\ [][MCNext]_<<vars, listVars, used>>

Symmetry == Permutations(Chunks) \cup Permutations(Threads)
=============================================================================
