------------------------------- MODULE Deque -------------------------------
(***************************************************************************)
(* What zqueue promises one thread: a sequence that grows and shrinks at   *)
(* both ends.                                                              *)
(***************************************************************************)
EXTENDS SequencesExt

CONSTANTS
  Values,   \* the values put into the queue
  Nothing   \* what has been taken before the first value

VARIABLES
  items,    \* the values in the queue, the oldest first
  taken     \* the value that the last pop returned

Init == items = <<>> /\ taken = Nothing

PutBack(v) == items' = Append(items, v) /\ UNCHANGED taken

PutFront(v) == items' = Cons(v, items) /\ UNCHANGED taken

TakeFront ==
  /\ items # <<>>
  /\ items' = Tail(items)
  /\ taken' = Head(items)

TakeBack ==
  /\ items # <<>>
  /\ items' = Front(items)
  /\ taken' = Last(items)

Next ==
  \/ \E v \in Values : PutBack(v) \/ PutFront(v)
  \/ TakeFront
  \/ TakeBack

Spec == Init /\ [][Next]_<<items, taken>>
=============================================================================
