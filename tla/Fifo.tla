-------------------------------- MODULE Fifo --------------------------------
(***************************************************************************)
(* What zqueue promises its users: values leave the queue in the order in  *)
(* which they were put in, each to one consumer.                           *)
(***************************************************************************)
EXTENDS Sequences

CONSTANTS
  Values,     \* the values put into the queue
  Consumers,  \* the threads that take values out
  Nothing     \* what a consumer holds before it took a value

VARIABLES
  items,  \* the values in the queue, the oldest first
  got     \* got[c]: the last value consumer c took

Init ==
  /\ items = <<>>
  /\ got = [c \in Consumers |-> Nothing]

Put(v) ==
  /\ items' = Append(items, v)
  /\ UNCHANGED got

Take(c) ==
  /\ items # <<>>
  /\ items' = Tail(items)
  /\ got' = [got EXCEPT ![c] = Head(items)]

Next ==
  \/ \E v \in Values : Put(v)
  \/ \E c \in Consumers : Take(c)

Spec == Init /\ [][Next]_<<items, got>>
=============================================================================
