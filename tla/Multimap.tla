------------------------------ MODULE Multimap ------------------------------
(***************************************************************************)
(* What a red-black tree of zit/container/rbtree.h promises: a map from    *)
(* keys to lists of nodes, at most one per key if it is not multiple.      *)
(***************************************************************************)
EXTENDS Integers, SequencesExt

CONSTANTS Node, KeyOf

Keys == {KeyOf[n] : n \in Node}

VARIABLES items,   \* items[k]: the nodes with key k
          multiple \* whether equal keys are allowed

Init == items = [k \in Keys |-> <<>>] /\ multiple \in BOOLEAN

\* A node with a new key brings its list along.
InsertNew(n) ==
  LET k == KeyOf[n]
  IN  /\ items[k] = <<>> /\ items'[k] # <<>> /\ items'[k][1] = n
      /\ items' = [items EXCEPT ![k] = items'[k]]

\* A node with a key that is there becomes the second of its list.
InsertEqual(n) ==
  /\ multiple /\ items[KeyOf[n]] # <<>>
  /\ items' = [items EXCEPT ![KeyOf[n]] = InsertAt(@, 2, n)]

Erase(k) == items' = [items EXCEPT ![k] = <<>>]

EraseOne(k) == \E i \in DOMAIN items[k] : items' = [items EXCEPT ![k] = RemoveAt(@, i)]

PopFront ==
  \E k \in Keys :
    /\ items[k] # <<>> /\ \A j \in Keys : items[j] # <<>> => k <= j
    /\ Erase(k)

Next ==
  /\ \/ \E n \in Node : InsertNew(n) \/ InsertEqual(n)
     \/ \E k \in Keys : Erase(k) \/ EraseOne(k)
     \/ PopFront
  /\ UNCHANGED multiple

Spec == Init /\ [][Next]_<<items, multiple>>
=============================================================================
