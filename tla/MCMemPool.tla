----------------------------- MODULE MCMemPool ------------------------------
(***************************************************************************)
(* An instance of MemPool for TLC.                                         *)
(***************************************************************************)
EXTENDS MemPool, TLC

\* Nodes are numbers; three size classes of 4 bits, two nodes for each.
MCKeyOf == [n \in Node |-> 2^((n % 3) + 1)]
=============================================================================
