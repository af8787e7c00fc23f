------------------------------- MODULE RBTree -------------------------------
(***************************************************************************)
(* The red-black tree of src/rbtree.c and zit/container/rbtree.h.  A node  *)
(* stands for a block of the tree's allocator together with the key its    *)
(* user writes into it.  Writers hold the lock for the whole call, so a    *)
(* call is a step; readers take the root before the lock.                  *)
(***************************************************************************)
EXTENDS Integers, FiniteSets, SequencesExt

CONSTANTS
  Node,        \* blocks of tree->alloc
  KeyOf,       \* KeyOf[n]: the key in the data of n
  NULL, Idle,  \* no node; no call under way
  Readers,     \* threads that call zrbtree_find, findx or operate
  MaxHeld,     \* bound on the nodes that users hold
  ErasesHeads  \* whether users erase the head of a list of equal keys with zrbtree_erasex

ASSUME RBTreeAssumption ==
  /\ {NULL, Idle} \cap Node = {} /\ NULL # Idle /\ KeyOf \in [Node -> Int]
  /\ IsFiniteSet(Node)
  /\ MaxHeld \in Nat \ {0} /\ ErasesHeads \in BOOLEAN

Keys == {KeyOf[n] : n \in Node}

Link == Node \cup {NULL}
Coloring == [Node -> {"RED", "BLACK"}]

VARIABLES
  t,        \* root, and left, right, parent, next and color of every node
  multiple, \* tree->multiple
  held,     \* nodes in the hands of users: got and not inserted, or popped
  free,     \* nodes in tree->alloc, cleared
  seen      \* seen[r]: the root as reader r read it, Idle between its calls

vars == <<t, multiple, held, free, seen>>

\* zrbtree_create
Init ==
  LET none == [n \in Node |-> NULL]
  IN  /\ t = [root |-> NULL, left |-> none, right |-> none, parent |-> none, next |-> none,
              color |-> [n \in Node |-> "RED"]]
      /\ multiple \in BOOLEAN
      /\ held = {} /\ free = Node
      /\ seen = [r \in Readers |-> Idle]

-----------------------------------------------------------------------------
(* Nodes and rotations, as functions of a tree u.                          *)

Color(u, n) == IF n = NULL THEN "BLACK" ELSE u.color[n]

Opposite(d) == IF d = "left" THEN "right" ELSE "left"

Side(u, n) == IF n = u.left[u.parent[n]] THEN "left" ELSE "right"

Sibling(u, n) == u[Opposite(Side(u, n))][u.parent[n]]

Uncle(u, n) == Sibling(u, u.parent[n])

\* Mutated form: the node that comes in keeps its parent.
ReplaceNodeDownOnly(u, old, new) ==
  LET p == u.parent[old]
  IN  IF p = NULL THEN [u EXCEPT !.root = new] ELSE [u EXCEPT ![Side(u, old)][p] = new]

ReplaceNode(u, old, new) ==
  LET p == u.parent[old]
      v == IF p = NULL THEN [u EXCEPT !.root = new] ELSE [u EXCEPT ![Side(u, old)][p] = new]
  IN  IF new = NULL THEN v ELSE [v EXCEPT !.parent[new] = p]

\* rotate_left for d = "left", rotate_right for d = "right".
Rotate(u, n, d) ==
  LET o == Opposite(d)
      r == u[o][n]
      inner == u[d][r]
      v == [ReplaceNode(u, n, r) EXCEPT ![o][n] = inner, ![d][r] = n, !.parent[n] = r]
  IN  IF inner = NULL THEN v ELSE [v EXCEPT !.parent[inner] = n]

-----------------------------------------------------------------------------
(* Insertion and its five cases.                                           *)

InsertCase5(u, n) ==
  LET p == u.parent[n]
      g == u.parent[p]
      v == [u EXCEPT !.color[p] = "BLACK", !.color[g] = "RED"]
  IN  Rotate(v, g, IF n = v.left[p] /\ p = v.left[g] THEN "right" ELSE "left")

\* A node on the inner side changes places with its parent.
InsertCase4(u, n) ==
  LET p == u.parent[n]
  IN  IF Side(u, n) # Side(u, p)
        THEN InsertCase5(Rotate(u, p, Side(u, p)), p)
        ELSE InsertCase5(u, n)

\* insert_case1 to insert_case3 climb while the uncle of m is red; v is u with the colors c.
\* A grandparent that is not there fails an assertion of the code.
InsertCase1(u, n) ==
  LET case1[q \in Coloring \X Node] ==
        LET m == q[2]
            v == [u EXCEPT !.color = q[1]]
            p == u.parent[m]
            g == u.parent[p]
        IN  IF p = NULL THEN [v EXCEPT !.color[m] = "BLACK"]
            ELSE IF Color(v, p) = "BLACK" THEN v
            ELSE IF g # NULL /\ Color(v, Uncle(v, m)) = "RED"
              THEN case1[<<[q[1] EXCEPT ![p] = "BLACK", ![Uncle(v, m)] = "BLACK",
                                        ![g] = "RED"], g>>]
            ELSE InsertCase4(v, m)
  IN  case1[<<u.color, n>>]

-----------------------------------------------------------------------------
(* Deletion and its six cases.                                             *)

DeleteCase6(u, n) ==
  LET p == u.parent[n]
      d == Side(u, n)
      s == Sibling(u, n)
  IN  Rotate([u EXCEPT !.color[s] = u.color[p], !.color[p] = "BLACK",
                       !.color[u[Opposite(d)][s]] = "BLACK"], p, d)

\* A red inner child of the sibling takes its place.
DeleteCase5(u, n) ==
  LET d == Side(u, n)
      s == Sibling(u, n)
  IN  IF /\ Color(u, s) = "BLACK"
         /\ Color(u, u[d][s]) = "RED" /\ Color(u, u[Opposite(d)][s]) = "BLACK"
        THEN DeleteCase6(Rotate([u EXCEPT !.color[s] = "RED", !.color[u[d][s]] = "BLACK"],
                                s, Opposite(d)), n)
        ELSE DeleteCase6(u, n)

AllBlack(u, s) == \A m \in {s, u.left[s], u.right[s]} : Color(u, m) = "BLACK"

DeleteCase4(u, n) ==
  LET s == Sibling(u, n)
  IN  IF Color(u, u.parent[n]) = "RED" /\ AllBlack(u, s)
        THEN [u EXCEPT !.color[s] = "RED", !.color[u.parent[n]] = "BLACK"]
        ELSE DeleteCase5(u, n)

\* A red sibling is rotated to the top; the parent is red then.
DeleteCase2(u, n) ==
  LET p == u.parent[n]
      s == Sibling(u, n)
  IN  IF Color(u, s) = "RED"
        THEN Rotate([u EXCEPT !.color[p] = "RED", !.color[s] = "BLACK"], p, Side(u, n))
        ELSE u

\* delete_case1 and delete_case3 climb while parent, sibling and its children are black; v is
\* u with the colors c.  Below a red parent, as case 2 leaves it, case 3 passes on to case 4.
DeleteCase1(u, n) ==
  LET case1[q \in Coloring \X Node] ==
        LET m == q[2]
            v == [u EXCEPT !.color = q[1]]
            p == u.parent[m]
            s == Sibling(v, m)
        IN  IF p = NULL THEN v
            ELSE IF Color(v, p) = "BLACK" /\ AllBlack(v, s)
              THEN case1[<<[q[1] EXCEPT ![s] = "RED"], p>>]
            ELSE DeleteCase4(DeleteCase2(v, m), m)
  IN  case1[<<u.color, n>>]

MaximumNode(u, n) ==
  LET max[m \in Node] == IF u.right[m] = NULL THEN m ELSE max[u.right[m]]
  IN  max[n]

MinimumNode(u, n) ==
  LET min[m \in Node] == IF u.left[m] = NULL THEN m ELSE min[u.left[m]]
  IN  min[n]

\* n and its predecessor change places and colors; each keeps its list of equal keys.
SwapNodes(u, n, pred) ==
  LET other == [m \in Node \cup {NULL} |-> IF m = n THEN pred ELSE IF m = pred THEN n ELSE m]
      Moved(f) == [m \in Node |-> other[f[other[m]]]]
  IN  [u EXCEPT !.root = other[@], !.left = Moved(@), !.right = Moved(@), !.parent = Moved(@),
                !.color = [m \in Node |-> u.color[other[m]]]]

\* Mutated form: the red-black cases are left out.
UnlinkUnbalanced(u, n) ==
  LET v == IF u.left[n] # NULL /\ u.right[n] # NULL
             THEN SwapNodes(u, n, MaximumNode(u, u.left[n])) ELSE u
      child == IF v.right[n] # NULL THEN v.right[n] ELSE v.left[n]
  IN  ReplaceNode(v, n, child)

\* n leaves the tree: it gets at most one child, is balanced, and replaced by the child.
Unlink(u, n) ==
  LET v == IF u.left[n] # NULL /\ u.right[n] # NULL
             THEN SwapNodes(u, n, MaximumNode(u, u.left[n])) ELSE u
      child == IF v.right[n] # NULL THEN v.right[n] ELSE v.left[n]
      w == IF Color(v, n) = "BLACK"
             THEN DeleteCase1([v EXCEPT !.color[n] = Color(v, child)], n) ELSE v
      x == ReplaceNode(w, n, child)
  IN  IF x.parent[n] = NULL /\ child # NULL THEN [x EXCEPT !.color[child] = "BLACK"] ELSE x

\* zalloc_push clears the block.
Cleared(u, n) ==
  [u EXCEPT !.left[n] = NULL, !.right[n] = NULL, !.parent[n] = NULL, !.next[n] = NULL,
            !.color[n] = "RED"]

-----------------------------------------------------------------------------
(* Lookup, lists, traversal.                                               *)

Walk(u, n, k) ==
  LET walk[m \in Link] ==
        IF m = NULL \/ KeyOf[m] = k THEN m
        ELSE walk[IF KeyOf[m] > k THEN u.left[m] ELSE u.right[m]]
  IN  walk[n]

Chain(u, n) ==
  LET chain[m \in Link] == IF m = NULL THEN <<>> ELSE <<m>> \o chain[u.next[m]]
  IN  chain[n]

LastOnPath(u, n, k) ==
  LET last[m \in Node] ==
        LET c == IF KeyOf[m] > k THEN u.left[m] ELSE u.right[m]
        IN  IF c = NULL THEN m ELSE last[c]
  IN  last[n]

\* zrbtree_foreach: order 1 visits a node before its subtrees, 0 between, others after.
Foreach(u, n, order) ==
  LET each[m \in Link] ==
        IF m = NULL THEN <<>>
        ELSE IF order = 1 THEN Chain(u, m) \o each[u.left[m]] \o each[u.right[m]]
        ELSE IF order = 0 THEN each[u.left[m]] \o Chain(u, m) \o each[u.right[m]]
        ELSE each[u.left[m]] \o each[u.right[m]] \o Chain(u, m)
  IN  each[n]

\* zrbtree_print and printx: a node whose left subtree is still to come is flagged in the
\* prefix; where the way to the right ends, they climb to the nearest flagged node.
Climb(u, n, flagged) ==
  LET climb[m \in Link] ==
        IF m = NULL \/ m \in flagged THEN m ELSE climb[u.parent[m]]
  IN  climb[n]

\* Mutated form: a prefix that was set further up is overwritten.
FlaggedBelow(u, n, above) == IF u.left[n] # NULL THEN {n} ELSE above

Flagged(u, n, above) == IF u.left[n] # NULL THEN above \cup {n} ELSE above

Printed(u, n, above) ==
  LET printed[q \in Link \X SUBSET Node] ==
        LET m == q[1]
            flagged == Flagged(u, m, q[2])
            next == Climb(u, m, flagged)
        IN  IF m = NULL THEN <<>>
            ELSE Chain(u, m) \o
                   IF u.right[m] # NULL THEN printed[<<u.right[m], flagged>>]
                   ELSE IF next = NULL THEN <<>>
                   ELSE printed[<<u.left[next], flagged \ {next}>>]
  IN  printed[<<n, above>>]

-----------------------------------------------------------------------------
(* The calls.                                                              *)

GetNode(n) ==
  /\ n \in free /\ Cardinality(held) < MaxHeld
  /\ free' = free \ {n} /\ held' = held \cup {n}
  /\ UNCHANGED <<t, multiple, seen>>

RecycleNode(n) ==
  /\ n \in held
  /\ held' = held \ {n} /\ free' = free \cup {n}
  /\ t' = Cleared(t, n)
  /\ UNCHANGED <<multiple, seen>>

\* The tree with n below p; n keeps the list it has.
Attached(n, p) ==
  IF p = NULL THEN [t EXCEPT !.root = n, !.color[n] = "RED"]
  ELSE [t EXCEPT ![IF KeyOf[p] > KeyOf[n] THEN "left" ELSE "right"][p] = n,
                 !.parent[n] = p, !.color[n] = "RED"]

\* Mutated form: an equal node becomes the head of its list.
InsertFirst(n) ==
  LET eq == Walk(t, t.root, KeyOf[n])
  IN  /\ n \in held
      /\ eq = NULL \/ multiple
      /\ t' = IF eq # NULL THEN [t EXCEPT !.next[n] = t.next[t.root], !.next[t.root] = n]
              ELSE LET p == IF t.root = NULL THEN NULL ELSE LastOnPath(t, t.root, KeyOf[n])
                   IN  InsertCase1(Attached(n, p), n)
      /\ held' = held \ {n}
      /\ UNCHANGED <<multiple, free, seen>>

\* zrbtree_insert.  In a multiple tree an equal node is put behind the head of the list; in
\* a unique one the call fails and the user keeps the node.
Insert(n) ==
  LET eq == Walk(t, t.root, KeyOf[n])
  IN  /\ n \in held
      /\ eq = NULL \/ multiple
      /\ t' = IF eq # NULL THEN [t EXCEPT !.next[n] = t.next[eq], !.next[eq] = n]
              ELSE LET p == IF t.root = NULL THEN NULL ELSE LastOnPath(t, t.root, KeyOf[n])
                   IN  InsertCase1(Attached(n, p), n)
      /\ held' = held \ {n}
      /\ UNCHANGED <<multiple, free, seen>>

\* zrbtree_erase.  Recycling n clears its next, so that the rest of its list is not recycled.
Erase(k) ==
  LET n == Walk(t, t.root, k)
  IN  /\ n # NULL
      /\ t' = Cleared(Unlink(t, n), n)
      /\ free' = free \cup {n}
      /\ UNCHANGED <<multiple, held, seen>>

\* The head n of a list gives its place to the next node, which keeps its color.
ReplaceHead(u, n) ==
  LET c == u.next[n]
      v == ReplaceNode([u EXCEPT !.left[c] = u.left[n], !.right[c] = u.right[n]], n, c)
  IN  [v EXCEPT !.parent = [m \in Node |-> IF m \in {u.left[n], u.right[n]} THEN c ELSE @[m]]]

\* zrbtree_erasex; m is the first node of its list that compare calls equal.
Erasex(m) ==
  LET n == Walk(t, t.root, KeyOf[m])
      list == Chain(t, n)
  IN  \E i \in DOMAIN list :
        /\ list[i] = m
        /\ i = 1 /\ Len(list) > 1 => ErasesHeads
        /\ t' = Cleared(IF i > 1 THEN [t EXCEPT !.next[list[i - 1]] = t.next[m]]
                        ELSE IF Len(list) > 1 THEN ReplaceHead(t, n)
                        ELSE Unlink(t, n), m)
        /\ free' = free \cup {m}
        /\ UNCHANGED <<multiple, held, seen>>

\* zrbtree_pop_front: the node with the smallest key, with its list; a condition that does
\* not hold is a call that changes nothing.
PopFront ==
  LET n == MinimumNode(t, t.root)
  IN  /\ t.root # NULL /\ Cardinality(held) < MaxHeld
      /\ t' = [Unlink(t, n) EXCEPT !.left[n] = NULL, !.right[n] = NULL, !.parent[n] = NULL]
      /\ held' = held \cup {n}
      /\ UNCHANGED <<multiple, free, seen>>

\* zrbtree_find, findx and operate: the root is read first ...
ReadRoot(r) ==
  /\ seen[r] = Idle
  /\ seen' = [seen EXCEPT ![r] = t.root]
  /\ UNCHANGED <<t, multiple, held, free>>

\* Mutated form: the walk goes on behind a smaller root only.
FoundLeft(from, k) ==
  IF from \in free \/ (from # NULL /\ KeyOf[from] < k) THEN NULL ELSE Walk(t, from, k)

\* ... and the walk from it is under the lock.  A cleared block ends it.
Found(from, k) == IF from \in free THEN NULL ELSE Walk(t, from, k)

Find(r) ==
  /\ seen[r] # Idle
  /\ seen' = [seen EXCEPT ![r] = Idle]
  /\ UNCHANGED <<t, multiple, held, free>>

Next ==
  \/ \E n \in Node : GetNode(n) \/ RecycleNode(n) \/ Insert(n) \/ Erasex(n)
  \/ \E k \in Keys : Erase(k)
  \/ PopFront
  \/ \E r \in Readers : ReadRoot(r) \/ Find(r)

Spec == Init /\ [][Next]_vars

-----------------------------------------------------------------------------
(* zrbtree_verify and properties.                                          *)

\* zrbtree_property4
RedsApart(u, n) ==
  LET apart[m \in Link] ==
        \/ m = NULL
        \/ /\ u.color[m] = "RED" =>
                \A k \in {u.left[m], u.right[m], u.parent[m]} : Color(u, k) = "BLACK"
           /\ apart[u.left[m]] /\ apart[u.right[m]]
  IN  apart[n]

\* zrbtree_property5: the numbers of black nodes on the paths below n.
BlackCounts(u, n) ==
  LET counts[m \in Link] ==
        IF m = NULL THEN {1}
        ELSE {c + (IF u.color[m] = "BLACK" THEN 1 ELSE 0) :
                c \in counts[u.left[m]] \cup counts[u.right[m]]}
  IN  counts[n]

\* The tree passes zrbtree_verify: the root is black, a red node has black children and a
\* black parent, and all paths have as many black nodes (rbtree.c:858-961).
Verify ==
  /\ Color(t, t.root) = "BLACK"
  /\ RedsApart(t, t.root)
  /\ Cardinality(BlackCounts(t, t.root)) = 1

\* The links of the tree agree with each other, traversal in order is by key, and no node is
\* twice in the tree, or in it and in the hands of a user or free.  In a unique tree none is
\* lost either (insert, erase, erasex and pop_front of rbtree.c).
TreeSound ==
  LET visited == Foreach(t, t.root, 0)
      inTree == ToSet(visited)
  IN  /\ \A n \in Node, d \in {"left", "right"} : t[d][n] # NULL => t.parent[t[d][n]] = n
      /\ t.root # NULL => t.parent[t.root] = NULL
      /\ Len(visited) = Cardinality(inTree)
      /\ \A i \in 2..Len(visited) : KeyOf[visited[i - 1]] <= KeyOf[visited[i]]
      /\ free \cap held = {} /\ inTree \cap (free \cup held) = {}
      /\ ~multiple => Node = inTree \cup free \cup held

\* The loop that prints the tree without recursion shows every node that foreach visits, once
\* (rbtree.c:616-826).
PrintsAll ==
  LET printed == Printed(t, t.root, {})
      visited == Foreach(t, t.root, 1)
  IN  Len(printed) = Len(visited) /\ ToSet(printed) = ToSet(visited)

\* A lookup that found the root unchanged when it got the lock answers exactly: the head of
\* the list with the key, or nothing if the tree has none (rbtree.h:94-113).
FindExact ==
  LET inTree == ToSet(Foreach(t, t.root, 0))
  IN  \A r \in Readers, k \in Keys :
        seen[r] = t.root =>
          LET n == Found(seen[r], k)
          IN  IF k \in {KeyOf[m] : m \in inTree} THEN n \in inTree /\ KeyOf[n] = k ELSE n = NULL

\* The tree is a map from keys to lists: calls add, remove and reorder nothing but what they
\* say, whatever rotations they do.
Abstract == INSTANCE Multimap WITH
  items <- [k \in Keys |-> Chain(t, Walk(t, t.root, k))]

ImplementsMultimap == Abstract!Spec
=============================================================================
