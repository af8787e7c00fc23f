---------------------------- MODULE MCTaskServer ----------------------------
(***************************************************************************)
(* Instances of TaskServer for TLC: a serial and a concurrent mission,     *)
(* task types with several subscribers, with one, and with none.           *)
(***************************************************************************)
EXTENDS TaskServer, TLC

CONSTANTS s, c,  \* a serial and a concurrent mission
          shared, copied, unheard \* task types

MCMode == (s :> "SERIAL") @@ (c :> "CONCURRENT")

\* tests/ttask.h:57-76 subscribes a mission twice for one type.
MCSubscribers == [t \in Types |-> CASE t = shared -> <<s, c>>
                                    [] t = copied -> <<s, s>>
                                    [] t = unheard -> <<>>]

MCCloneMode == [t \in Types |-> IF t = copied THEN "MEMCPY" ELSE "REF"]

Symmetry == Permutations(Workers) \cup Permutations(Objs)
=============================================================================
