------------------------------- MODULE RBTreeShape -------------------------------
(***************************************************************************)
(* Proofs about the red-black tree of RBTree, first part: the search tree  *)
(* as a shape, rotations, recursive functions of the tree, insertion and   *)
(* deletion with their colors.  Dir, Shaped, Colored and Balanced          *)
(* describe the links of the code for every number of nodes.               *)
(***************************************************************************)
EXTENDS RBTree, Chains, FiniteSetTheorems

(***************************************************************************)
(* Recursive functions.                                                    *)
(***************************************************************************)
\* The value at n of a function on S with values in V, given by G, needs values at points of
\* a smaller measure only.
Recursive(S, V, mu, G) ==
  /\ mu \in [S -> Nat] /\ G \in [S -> [[S -> V] -> V]]
  /\ \A n \in S, f, g \in [S -> V] :
       (\A m \in S : mu[m] < mu[n] => f[m] = g[m]) => G[n][f] = G[n][g]

\* h is as G says at points of a measure below k.
Upto(S, V, mu, G, k, h) ==
  h \in [S -> V] /\ \A n \in S : mu[n] < k => h[n] = G[n][h]

LEMMA UptoNext ==
  ASSUME NEW S, NEW V, NEW mu, NEW G, Recursive(S, V, mu, G), NEW j \in Nat,
         NEW h, Upto(S, V, mu, G, j, h)
  PROVE  \E g : Upto(S, V, mu, G, j + 1, g)
<1> DEFINE g == [n \in S |-> IF mu[n] < j THEN h[n] ELSE G[n][h]]
<1>1. mu \in [S -> Nat] /\ G \in [S -> [[S -> V] -> V]] /\ h \in [S -> V]
  BY DEF Recursive, Upto
<1>2. g \in [S -> V] /\ \A n \in S : g[n] = IF mu[n] < j THEN h[n] ELSE G[n][h]
  BY <1>1
<1> HIDE DEF g
<1>3. ASSUME NEW n \in S, mu[n] < j + 1 PROVE g[n] = G[n][g]
  <2>1. \A m \in S : mu[m] < mu[n] => g[m] = h[m]
    <3> TAKE m \in S
    <3> HAVE mu[m] < mu[n]
    <3>1. mu[m] \in Nat /\ mu[n] \in Nat
      BY <1>1
    <3>2. mu[m] < j
      BY <1>3, <3>1
    <3> QED BY <1>2, <3>2
  <2>2. G[n][g] = G[n][h]
    BY <1>1, <1>2, <2>1 DEF Recursive
  <2>3. mu[n] < j => h[n] = G[n][h]
    BY DEF Upto
  <2> QED BY <1>2, <2>2, <2>3
<1> QED BY <1>2, <1>3 DEF Upto

LEMMA UptoAll ==
  ASSUME NEW S, NEW V, NEW mu, NEW G, Recursive(S, V, mu, G), V # {}, NEW k \in Nat
  PROVE  \E h : Upto(S, V, mu, G, k, h)
<1> DEFINE Bad == {j \in Nat : ~\E h : Upto(S, V, mu, G, j, h)}
<1>1. SUFFICES ASSUME Bad # {} PROVE FALSE
  OBVIOUS
<1>2. PICK j \in Bad : \A i \in Bad : j <= i
  <2> HIDE DEF Bad
  <2>1. Bad \in SUBSET Nat
    BY DEF Bad
  <2> QED BY <1>1, <2>1, Least
<1>3. j # 0
  <2>1. PICK v \in V : TRUE
    OBVIOUS
  <2>2. [n \in S |-> v] \in [S -> V]
    OBVIOUS
  <2>3. \A n \in S : ~(mu[n] < 0)
    BY DEF Recursive
  <2>4. Upto(S, V, mu, G, 0, [n \in S |-> v])
    BY <2>2, <2>3 DEF Upto
  <2> QED BY <2>4
<1>4. j - 1 \in Nat /\ j - 1 \notin Bad /\ (j - 1) + 1 = j
  BY <1>2, <1>3
<1>5. PICK h : Upto(S, V, mu, G, j - 1, h)
  BY <1>4
<1>6. \E g : Upto(S, V, mu, G, (j - 1) + 1, g)
  BY <1>4, <1>5, UptoNext
<1> QED BY <1>4, <1>6

LEMMA UptoSame ==
  ASSUME NEW S, NEW V, NEW mu, NEW G, Recursive(S, V, mu, G), NEW k \in Nat, NEW l \in Nat, k <= l,
         NEW f, NEW g, Upto(S, V, mu, G, k, f), Upto(S, V, mu, G, l, g)
  PROVE  \A n \in S : mu[n] < k => f[n] = g[n]
<1> DEFINE Bad == {mu[n] : n \in {m \in S : mu[m] < k /\ f[m] # g[m]}}
<1>0. mu \in [S -> Nat] /\ f \in [S -> V] /\ g \in [S -> V]
  BY DEF Recursive, Upto
<1>1. SUFFICES ASSUME Bad # {} PROVE FALSE
  OBVIOUS
<1>2. Bad \in SUBSET Nat
  BY <1>0
<1>3. PICK x \in Bad : \A y \in Bad : x <= y
  <2> HIDE DEF Bad
  <2> QED BY <1>1, <1>2, Least
<1>4. PICK n \in S : x = mu[n] /\ mu[n] < k /\ f[n] # g[n]
  BY <1>3
<1>5. \A m \in S : mu[m] < mu[n] => f[m] = g[m]
  <2> TAKE m \in S
  <2> HAVE mu[m] < mu[n]
  <2>1. mu[m] \in Nat /\ mu[n] \in Nat
    BY <1>0
  <2>2. mu[m] < k /\ ~(mu[n] <= mu[m])
    BY <1>4, <2>1
  <2>3. mu[m] \notin Bad
    BY <1>3, <1>4, <2>2
  <2> QED BY <2>2, <2>3
<1>6. G[n][f] = G[n][g]
  BY <1>0, <1>5 DEF Recursive
<1>7. mu[n] < l
  BY <1>0, <1>4
<1>8. f[n] = G[n][f] /\ g[n] = G[n][g]
  BY <1>4, <1>7 DEF Upto
<1> QED BY <1>4, <1>6, <1>8

\* A recursive function exists if its value at a point depends on its values at points of a
\* smaller measure only.
LEMMA Recursion ==
  ASSUME NEW S, NEW V, NEW mu, NEW G, Recursive(S, V, mu, G), V # {}
  PROVE  \E f \in [S -> V] : \A n \in S : f[n] = G[n][f]
<1> DEFINE H(k) == CHOOSE h : Upto(S, V, mu, G, k, h)
           f == [n \in S |-> H(mu[n] + 1)[n]]
<1>1. \A k \in Nat : Upto(S, V, mu, G, k, H(k))
  BY UptoAll
<1>2. mu \in [S -> Nat]
  BY DEF Recursive
<1>3. \A k \in Nat : H(k) \in [S -> V]
  BY <1>1 DEF Upto
<1> HIDE DEF H
<1>4. f \in [S -> V] /\ \A n \in S : f[n] = H(mu[n] + 1)[n]
  BY <1>2, <1>3
<1> HIDE DEF f
<1>5. ASSUME NEW n \in S PROVE f[n] = G[n][f]
  <2>1. mu[n] \in Nat /\ mu[n] + 1 \in Nat /\ mu[n] < mu[n] + 1
    BY <1>2
  <2>2. H(mu[n] + 1)[n] = G[n][H(mu[n] + 1)]
    BY <1>1, <2>1 DEF Upto
  <2>3. \A m \in S : mu[m] < mu[n] => f[m] = H(mu[n] + 1)[m]
    <3> TAKE m \in S
    <3> HAVE mu[m] < mu[n]
    <3>1. mu[m] \in Nat /\ mu[m] + 1 \in Nat /\ mu[m] < mu[m] + 1
      BY <1>2
    <3>2. mu[m] + 1 <= mu[n] + 1
      BY <2>1, <3>1
    <3>3. Upto(S, V, mu, G, mu[m] + 1, H(mu[m] + 1)) /\ Upto(S, V, mu, G, mu[n] + 1, H(mu[n] + 1))
      BY <1>1, <2>1, <3>1
    <3>4. \A a \in S : mu[a] < mu[m] + 1 => H(mu[m] + 1)[a] = H(mu[n] + 1)[a]
      BY <2>1, <3>1, <3>2, <3>3, UptoSame
    <3> QED BY <1>4, <3>1, <3>4
  <2>4. H(mu[n] + 1) \in [S -> V]
    BY <1>3, <2>1
  <2>5. G[n][f] = G[n][H(mu[n] + 1)]
    BY <1>4, <2>3, <2>4 DEF Recursive
  <2> QED BY <1>4, <2>2, <2>5
<1> QED BY <1>4, <1>5

(***************************************************************************)
(* The shape of the tree, and rotations.                                   *)
(***************************************************************************)
Dir == {"left", "right"}

Tree == [root : Link, left : [Node -> Link], right : [Node -> Link],
         parent : [Node -> Link], next : [Node -> Link], color : Coloring]

LEMMA LinkFacts ==
  /\ NULL \in Link /\ Node \subseteq Link /\ NULL \notin Node
  /\ \A n \in Link : n = NULL \/ n \in Node
  BY RBTreeAssumption DEF Link

LEMMA TreeFields ==
  ASSUME NEW u \in Tree, NEW d \in Dir
  PROVE  /\ u.root \in Link /\ u.parent \in [Node -> Link] /\ u.next \in [Node -> Link]
         /\ u.color \in Coloring /\ u[d] \in [Node -> Link]
         /\ u.left = u["left"] /\ u.right = u["right"]
<1>1. CASE d = "left"
  BY <1>1 DEF Tree
<1>2. CASE d = "right"
  BY <1>2 DEF Tree
<1> QED BY <1>1, <1>2 DEF Dir

\* Assignments to a field of a node, or to the root.
SetLink(u, d, n, x) == [u EXCEPT ![d][n] = x]
SetParent(u, n, x) == [u EXCEPT !.parent[n] = x]
SetRoot(u, x) == [u EXCEPT !.root = x]
SetColors(u, c) == [u EXCEPT !.color = c]

LEMMA LinkSet ==
  ASSUME NEW u \in Tree, NEW d \in Dir, NEW n \in Node, NEW x \in Link
  PROVE  LET v == SetLink(u, d, n, x)
         IN  /\ v \in Tree
             /\ v[d] = [u[d] EXCEPT ![n] = x] /\ v[Opposite(d)] = u[Opposite(d)]
             /\ v.root = u.root /\ v.parent = u.parent /\ v.next = u.next /\ v.color = u.color
<1>1. CASE d = "left"
  BY <1>1 DEF Tree, SetLink, Opposite
<1>2. CASE d = "right"
  BY <1>2 DEF Tree, SetLink, Opposite
<1> QED BY <1>1, <1>2 DEF Dir

LEMMA ParentSet ==
  ASSUME NEW u \in Tree, NEW d \in Dir, NEW n \in Node, NEW x \in Link
  PROVE  LET v == SetParent(u, n, x)
         IN  /\ v \in Tree /\ v[d] = u[d] /\ v.parent = [u.parent EXCEPT ![n] = x]
             /\ v.root = u.root /\ v.next = u.next /\ v.color = u.color
<1>1. CASE d = "left"
  BY <1>1 DEF Tree, SetParent
<1>2. CASE d = "right"
  BY <1>2 DEF Tree, SetParent
<1> QED BY <1>1, <1>2 DEF Dir

LEMMA RootSet ==
  ASSUME NEW u \in Tree, NEW d \in Dir, NEW x \in Link
  PROVE  LET v == SetRoot(u, x)
         IN  /\ v \in Tree /\ v[d] = u[d] /\ v.parent = u.parent
             /\ v.root = x /\ v.next = u.next /\ v.color = u.color
<1>1. CASE d = "left"
  BY <1>1 DEF Tree, SetRoot
<1>2. CASE d = "right"
  BY <1>2 DEF Tree, SetRoot
<1> QED BY <1>1, <1>2 DEF Dir

LEMMA ColorsSet ==
  ASSUME NEW u \in Tree, NEW d \in Dir, NEW c \in Coloring
  PROVE  LET v == SetColors(u, c)
         IN  /\ v \in Tree /\ v[d] = u[d] /\ v.parent = u.parent
             /\ v.root = u.root /\ v.next = u.next /\ v.color = c
<1>1. CASE d = "left"
  BY <1>1 DEF Tree, SetColors
<1>2. CASE d = "right"
  BY <1>2 DEF Tree, SetColors
<1> QED BY <1>1, <1>2 DEF Dir

LEMMA Dirs ==
  ASSUME NEW d \in Dir
  PROVE  /\ Opposite(d) \in Dir /\ Opposite(d) # d /\ Opposite(Opposite(d)) = d
         /\ Dir = {d, Opposite(d)}
  BY DEF Dir, Opposite

Before(d, a, b) == IF d = "left" THEN a < b ELSE b < a

LEMMA Order ==
  ASSUME NEW d \in Dir, NEW a \in Int, NEW b \in Int, NEW c \in Int
  PROVE  /\ Before(d, a, b) /\ Before(d, b, c) => Before(d, a, c)
         /\ Before(Opposite(d), a, b) <=> Before(d, b, a)
         /\ a # b => Before(d, a, b) \/ Before(d, b, a)
         /\ ~(Before(d, a, b) /\ Before(d, b, a)) /\ ~Before(d, a, a)
  BY DEF Before, Dir, Opposite

\* u is a search tree on the nodes T by the keys K, and D[n] are the nodes below and at n.
Shaped(u, T, D, K) ==
  /\ u \in Tree /\ T \in SUBSET Node /\ K \in [Node -> Int] /\ D \in [Link -> SUBSET T]
  /\ D[NULL] = {} /\ D[u.root] = T
  /\ u.root # NULL => u.root \in T /\ u.parent[u.root] = NULL
  /\ \A n \in T : D[n] = {n} \cup D[u["left"][n]] \cup D[u["right"][n]]
  /\ \A n \in T, d \in Dir :
       u[d][n] # NULL => u[d][n] \in T /\ u.parent[u[d][n]] = n
  /\ \A n \in T, d \in Dir : \A m \in D[u[d][n]] : Before(d, K[m], K[n])
  /\ \A n \in T : u.parent[n] = NULL => n = u.root
  /\ \A n \in T : u.parent[n] # NULL =>
       u.parent[n] \in T /\ \E d \in Dir : u[d][u.parent[n]] = n
  /\ \A n \in Node \ T : u.parent[n] = NULL /\ \A d \in Dir : u[d][n] = NULL

\* The two subtrees of a node.
LEMMA Below ==
  ASSUME NEW u, NEW T, NEW D, NEW K, Shaped(u, T, D, K), NEW n \in T, NEW d \in Dir
  PROVE  /\ n \in Node /\ u[d][n] \in Link /\ D[u[d][n]] \in SUBSET Node
         /\ D[n] = {n} \cup D[u[d][n]] \cup D[u[Opposite(d)][n]]
         /\ n \in D[n] /\ n \notin D[u[d][n]]
         /\ D[u[d][n]] \cap D[u[Opposite(d)][n]] = {}
         /\ u[d][n] # NULL => u[d][n] \in D[u[d][n]] /\ u[d][n] \in T /\ u[d][n] # n
         /\ u[d][n] # NULL => u[d][n] # u[Opposite(d)][n]
<1> DEFINE o == Opposite(d)
<1>1. o \in Dir /\ Dir = {d, o} /\ ((d = "left" /\ o = "right") \/ (d = "right" /\ o = "left"))
  BY Dirs DEF Dir, Opposite
<1>2. /\ u \in Tree /\ T \in SUBSET Node /\ K \in [Node -> Int] /\ D \in [Link -> SUBSET T]
      /\ \A m \in T : D[m] = {m} \cup D[u["left"][m]] \cup D[u["right"][m]]
      /\ \A e \in Dir : \A m \in D[u[e][n]] : Before(e, K[m], K[n])
      /\ \A e \in Dir : u[e][n] # NULL => u[e][n] \in T
  BY DEF Shaped
<1>3. u[d] \in [Node -> Link] /\ u[o] \in [Node -> Link]
  BY <1>1, <1>2, TreeFields
<1>4. n \in Node /\ u[d][n] \in Link /\ u[o][n] \in Link
  BY <1>2, <1>3
<1>5. D[u[d][n]] \in SUBSET T /\ D[u[o][n]] \in SUBSET T
  BY <1>2, <1>4
<1>6. D[n] = {n} \cup D[u[d][n]] \cup D[u[o][n]]
  BY <1>1, <1>2
<1>7. n \notin D[u[d][n]]
  <2>1. ~Before(d, K[n], K[n])
    BY <1>2, <1>4 DEF Before
  <2> QED BY <1>2, <2>1
<1>8. D[u[d][n]] \cap D[u[o][n]] = {}
  <2> SUFFICES ASSUME NEW m \in D[u[d][n]], m \in D[u[o][n]] PROVE FALSE
    OBVIOUS
  <2>1. Before(d, K[m], K[n]) /\ Before(o, K[m], K[n])
    BY <1>1, <1>2
  <2>2. K[m] \in Int /\ K[n] \in Int
    BY <1>2, <1>4, <1>5
  <2> QED BY <1>1, <2>1, <2>2 DEF Before
<1>9. \A m \in T : m \in D[m]
  BY <1>2
<1> HIDE DEF o
<1>10. u[d][n] # NULL => u[d][n] \in D[u[d][n]] /\ u[d][n] \in T /\ u[d][n] # n
  BY <1>2, <1>7, <1>9
<1>11. u[d][n] # NULL => u[d][n] # u[o][n]
  BY <1>8, <1>10
<1> QED BY <1>2, <1>4, <1>5, <1>6, <1>7, <1>8, <1>9, <1>10, <1>11 DEF o

\* A node is the child of one node on one side.
LEMMA OneParent ==
  ASSUME NEW u, NEW T, NEW D, NEW K, Shaped(u, T, D, K),
         NEW n \in T, u.parent[n] # NULL, NEW m \in Node, NEW d \in Dir
  PROVE  /\ Side(u, n) \in Dir /\ u.parent[n] \in T
         /\ u[Side(u, n)][u.parent[n]] = n
         /\ Sibling(u, n) = u[Opposite(Side(u, n))][u.parent[n]]
         /\ u[d][m] = n => m = u.parent[n] /\ d = Side(u, n)
<1> DEFINE p == u.parent[n]
<1>1. p \in T /\ \E e \in Dir : u[e][p] = n
  BY DEF Shaped
<1>2. u.left = u["left"] /\ u.right = u["right"] /\ n \in Node /\ n # NULL
  BY TreeFields, LinkFacts DEF Shaped
<1>3. Side(u, n) \in Dir /\ u[Side(u, n)][p] = n
  BY <1>1, <1>2 DEF Side, Dir
<1>4. ASSUME u[d][m] = n PROVE m = p /\ d = Side(u, n)
  <2>1. m \in T
    BY <1>2, <1>4 DEF Shaped
  <2>2. m = p
    BY <1>2, <1>4, <2>1 DEF Shaped
  <2>3. u[d][p] # u[Opposite(d)][p]
    BY <1>1, <1>2, <1>4, <2>2, Below
  <2>4. d # Side(u, n) => Side(u, n) = Opposite(d)
    BY <1>3, Dirs
  <2> QED BY <1>3, <1>4, <2>2, <2>3, <2>4
<1> QED BY <1>1, <1>3, <1>4 DEF Sibling

\* replace_node puts new where old was.
LEMMA Replaced ==
  ASSUME NEW u, NEW T, NEW D, NEW K, Shaped(u, T, D, K), NEW old \in T, NEW new \in Link,
         NEW v, v = ReplaceNode(u, old, new)
  PROVE  /\ v \in Tree /\ v.color = u.color /\ v.next = u.next
         /\ v.root = IF u.root = old THEN new ELSE u.root
         /\ \A m \in Node, d \in Dir : v[d][m] = IF u[d][m] = old THEN new ELSE u[d][m]
         /\ v.parent = IF new = NULL THEN u.parent ELSE [u.parent EXCEPT ![new] = u.parent[old]]
<1> DEFINE p == u.parent[old]
           w == IF p = NULL THEN SetRoot(u, new) ELSE SetLink(u, Side(u, old), p, new)
<1>1. /\ u \in Tree /\ T \in SUBSET Node /\ old \in Node /\ p \in Link /\ old # NULL
      /\ u.root # NULL => u.root \in T /\ u.parent[u.root] = NULL
      /\ p = NULL => old = u.root
      /\ p # NULL => p \in T
  BY LinkFacts, TreeFields DEF Shaped, Tree
<1>2. v = IF new = NULL THEN w ELSE SetParent(w, new, p)
  BY DEF ReplaceNode, SetRoot, SetLink, SetParent
<1>3. \A m \in Node, d \in Dir : u[d][m] \in Link
  BY <1>1, TreeFields
<1>4. /\ w \in Tree /\ w.color = u.color /\ w.next = u.next /\ w.parent = u.parent
      /\ w.root = IF u.root = old THEN new ELSE u.root
      /\ \A m \in Node, d \in Dir : w[d][m] = IF u[d][m] = old THEN new ELSE u[d][m]
  <2>1. CASE p = NULL
    <3>1. \A d \in Dir : /\ w \in Tree /\ w[d] = u[d] /\ w.parent = u.parent
                         /\ w.root = new /\ w.next = u.next /\ w.color = u.color
      BY <1>1, <2>1, RootSet
    <3>2. ASSUME NEW m \in Node, NEW d \in Dir, u[d][m] = old PROVE FALSE
      <4>1. m \in T
        BY <1>1, <3>2 DEF Shaped
      <4>2. u.parent[old] = m
        BY <1>1, <3>2, <4>1 DEF Shaped
      <4> QED BY <2>1, <4>1, <4>2, LinkFacts, <1>1
    <3>3. "left" \in Dir
      BY DEF Dir
    <3> HIDE DEF w
    <3> QED BY <1>1, <2>1, <3>1, <3>2, <3>3
  <2>2. CASE p # NULL
    <3> DEFINE s == Side(u, old)
    <3>1. s \in Dir /\ u[s][p] = old /\ p \in Node /\ Dir = {s, Opposite(s)}
          /\ Opposite(s) # s
      <4>1. "left" \in Dir
        BY DEF Dir
      <4>2. s \in Dir /\ u[s][p] = old
        BY <1>1, <2>2, <4>1, OneParent
      <4> HIDE DEF s
      <4> QED BY <1>1, <2>2, <4>2, Dirs
    <3>2. w = SetLink(u, s, p, new)
      BY <2>2
    <3> HIDE DEF s, w
    <3>3. /\ w \in Tree
          /\ w[s] = [u[s] EXCEPT ![p] = new] /\ w[Opposite(s)] = u[Opposite(s)]
          /\ w.root = u.root /\ w.parent = u.parent /\ w.next = u.next /\ w.color = u.color
      BY <1>1, <3>1, <3>2, LinkSet
    <3>4. u.root # old
      BY <1>1, <2>2
    <3>5. \A m \in Node, d \in Dir : u[d][m] = old => m = p /\ d = s
      BY <2>2, OneParent DEF s
    <3>6. ASSUME NEW m \in Node, NEW d \in Dir
          PROVE  w[d][m] = IF u[d][m] = old THEN new ELSE u[d][m]
      <4>1. u[s] \in [Node -> Link]
        BY <1>1, <3>1, TreeFields
      <4>2. CASE d = s
        BY <3>1, <3>3, <3>5, <4>1, <4>2
      <4>3. CASE d = Opposite(s)
        BY <3>1, <3>3, <3>5, <4>3
      <4> QED BY <3>1, <4>2, <4>3
    <3> QED BY <3>3, <3>4, <3>6
  <2> QED BY <2>1, <2>2
<1> HIDE DEF w
<1>5. CASE new = NULL
  BY <1>2, <1>4, <1>5
<1>6. CASE new # NULL
  <2>1. new \in Node
    BY <1>6, LinkFacts
  <2>2. \A d \in Dir :
          /\ v \in Tree /\ v[d] = w[d] /\ v.parent = [w.parent EXCEPT ![new] = p]
          /\ v.root = w.root /\ v.next = w.next /\ v.color = w.color
    BY <1>1, <1>2, <1>4, <1>6, <2>1, ParentSet
  <2>3. "left" \in Dir
    BY DEF Dir
  <2> QED BY <1>4, <1>6, <2>2, <2>3
<1> QED BY <1>5, <1>6

\* What a rotation does to the links, with r coming up and inner changing sides.
LEMMA Rotated ==
  ASSUME NEW u, NEW T, NEW D, NEW K, Shaped(u, T, D, K), NEW n \in T, NEW d \in Dir,
         u[Opposite(d)][n] # NULL, NEW v, v = Rotate(u, n, d)
  PROVE  LET o == Opposite(d)
             r == u[o][n]
             inner == u[d][r]
         IN  /\ v \in Tree /\ v.color = u.color /\ v.next = u.next
             /\ v.root = IF u.root = n THEN r ELSE u.root
             /\ v[o][n] = inner /\ v[d][r] = n /\ v[d][n] = u[d][n] /\ v[o][r] = u[o][r]
             /\ \A m \in Node \ {n, r}, e \in Dir :
                  v[e][m] = IF u[e][m] = n THEN r ELSE u[e][m]
             /\ \A m \in Node : v.parent[m] = IF m = n THEN r
                                             ELSE IF m = r THEN u.parent[n]
                                             ELSE IF m = inner THEN n ELSE u.parent[m]
<1> DEFINE o == Opposite(d)
           r == u[o][n]
           inner == u[d][r]
           w == ReplaceNode(u, n, r)
           w1 == SetLink(w, o, n, inner)
           w2 == SetLink(w1, d, r, n)
           w3 == SetParent(w2, n, r)
<1>1. o \in Dir /\ o # d /\ Opposite(o) = d /\ Dir = {d, o}
  BY Dirs
<1>2. /\ n \in Node /\ r \in T /\ r \in Node /\ r # n /\ r # NULL /\ n # NULL /\ n \in Link
      /\ u \in Tree /\ inner \in Link /\ inner # n /\ inner # r /\ r \in Link
      /\ u.parent[r] = n /\ u[d][n] # n /\ u[d][n] # r /\ u[o][r] # n
  <2>1. n \in Node /\ u \in Tree /\ T \in SUBSET Node /\ n # NULL
    BY LinkFacts DEF Shaped
  <2>2. r \in D[r] /\ r \in T /\ r # n /\ r \in D[u[o][n]] /\ u[d][n] # n /\ u[d][n] # r
    <3>1. r \in D[u[o][n]] /\ r \in T /\ r # n
      BY <1>1, Below
    <3>2. u[d][n] # NULL => u[d][n] # n /\ u[d][n] # u[o][n]
      BY <1>1, Below
    <3> QED BY <2>1, <3>1, <3>2
  <2>3. inner \in Link /\ (inner # NULL => inner # r)
    BY <1>1, <2>2, Below
  <2>4. u.parent[r] = n
    BY <1>1 DEF Shaped
  <2>5. n \notin D[r]
    BY <1>1, Below
  <2>6. D[r] = {r} \cup D[u[d][r]] \cup D[u[o][r]]
    BY <1>1, <2>2, Below
  <2>7. inner # n /\ u[o][r] # n
    <3>1. u[d][r] # NULL => u[d][r] \in D[u[d][r]]
      BY <2>2, Below
    <3>2. u[o][r] # NULL => u[o][r] \in D[u[o][r]]
      BY <1>1, <2>2, Below
    <3> QED BY <2>1, <2>5, <2>6, <3>1, <3>2
  <2> QED BY <2>1, <2>2, <2>3, <2>4, <2>7, LinkFacts
<1>3. v = IF inner = NULL THEN w3 ELSE SetParent(w3, inner, n)
  BY DEF Rotate, SetLink, SetParent
<1>4. /\ w \in Tree /\ w.color = u.color /\ w.next = u.next
      /\ w.root = IF u.root = n THEN r ELSE u.root
      /\ \A m \in Node, e \in Dir : w[e][m] = IF u[e][m] = n THEN r ELSE u[e][m]
      /\ w.parent = [u.parent EXCEPT ![r] = u.parent[n]]
  <2>1. /\ Shaped(u, T, D, K) /\ n \in T /\ r \in Link /\ r # NULL
        /\ w = ReplaceNode(u, n, r)
    BY <1>2
  <2> HIDE DEF w, r
  <2> QED BY ONLY <2>1, Replaced
<1>5. o = Opposite(d) /\ r = u[o][n] /\ inner = u[d][r]
  OBVIOUS
<1> HIDE DEF w
<1>6. /\ w1 \in Tree /\ w1[o] = [w[o] EXCEPT ![n] = inner] /\ w1[d] = w[d]
      /\ w1.root = w.root /\ w1.parent = w.parent /\ w1.next = w.next /\ w1.color = w.color
  BY <1>1, <1>2, <1>4, LinkSet
<1> HIDE DEF w1
<1>7. /\ w2 \in Tree /\ w2[d] = [w1[d] EXCEPT ![r] = n] /\ w2[o] = w1[o]
      /\ w2.root = w1.root /\ w2.parent = w1.parent /\ w2.next = w1.next /\ w2.color = w1.color
  BY <1>1, <1>2, <1>6, LinkSet
<1> HIDE DEF w2
<1>8. \A e \in Dir : /\ w3 \in Tree /\ w3[e] = w2[e] /\ w3.parent = [w2.parent EXCEPT ![n] = r]
                     /\ w3.root = w2.root /\ w3.next = w2.next /\ w3.color = w2.color
  BY <1>1, <1>2, <1>7, ParentSet
<1> HIDE DEF w3
<1>9. /\ v \in Tree /\ v[d] = w2[d] /\ v[o] = w2[o]
      /\ v.parent = IF inner = NULL THEN w3.parent ELSE [w3.parent EXCEPT ![inner] = n]
      /\ v.root = w2.root /\ v.next = w2.next /\ v.color = w2.color
  <2>1. CASE inner = NULL
    BY <1>1, <1>3, <1>8, <2>1
  <2>2. CASE inner # NULL
    <3>1. inner \in Node
      BY <1>2, <2>2, LinkFacts
    <3>2. \A e \in Dir :
            /\ v \in Tree /\ v[e] = w3[e] /\ v.parent = [w3.parent EXCEPT ![inner] = n]
            /\ v.root = w3.root /\ v.next = w3.next /\ v.color = w3.color
      BY <1>1, <1>2, <1>3, <1>8, <2>2, <3>1, ParentSet
    <3> QED BY <1>1, <1>8, <2>2, <3>2
  <2> QED BY <2>1, <2>2
<1>10. \A e \in Dir : w[e] \in [Node -> Link] /\ u.parent \in [Node -> Link]
  BY <1>2, <1>4, TreeFields
<1> HIDE DEF o, r, inner
<1>11. /\ v[d] = [w[d] EXCEPT ![r] = n] /\ v[o] = [w[o] EXCEPT ![n] = inner]
  BY <1>6, <1>7, <1>9
<1>12. /\ v[o][n] = inner /\ v[d][r] = n
  BY <1>1, <1>2, <1>10, <1>11
<1>13. v[d][n] = u[d][n] /\ v[o][r] = u[o][r]
  <2>1. v[d][n] = w[d][n] /\ v[o][r] = w[o][r]
    BY <1>1, <1>2, <1>10, <1>11
  <2> QED BY <1>1, <1>2, <1>4, <2>1
<1>14. ASSUME NEW m \in Node \ {n, r}, NEW e \in Dir
       PROVE  v[e][m] = IF u[e][m] = n THEN r ELSE u[e][m]
  <2>1. v[e][m] = w[e][m]
    <3>1. CASE e = d
      BY <1>1, <1>2, <1>10, <1>11, <3>1
    <3>2. CASE e = o
      BY <1>1, <1>2, <1>10, <1>11, <3>2
    <3> QED BY <1>1, <3>1, <3>2
  <2> QED BY <1>4, <2>1
<1>15. ASSUME NEW m \in Node
       PROVE  v.parent[m] = IF m = n THEN r ELSE IF m = r THEN u.parent[n]
                            ELSE IF m = inner THEN n ELSE u.parent[m]
  <2>1. w3.parent = [[u.parent EXCEPT ![r] = u.parent[n]] EXCEPT ![n] = r]
    BY <1>1, <1>4, <1>6, <1>7, <1>8
  <2>2. w3.parent[m] = IF m = n THEN r ELSE IF m = r THEN u.parent[n] ELSE u.parent[m]
    BY <1>1, <1>2, <1>10, <2>1
  <2>3. w3.parent \in [Node -> Link]
    BY <1>1, <1>8, TreeFields
  <2>4. inner # NULL => v.parent[m] = IF m = inner THEN n ELSE w3.parent[m]
    BY <1>9, <2>3
  <2>5. inner = NULL => m # inner
    BY LinkFacts
  <2> QED BY <1>2, <1>9, <2>2, <2>4, <2>5
<1> QED BY <1>4, <1>5, <1>6, <1>7, <1>9, <1>12, <1>13, <1>14, <1>15

\* The nodes below each node when n has been rotated down and r up.
Turn(D, n, r, below) == [D EXCEPT ![n] = below, ![r] = D[n]]

\* A rotation keeps the search tree.
LEMMA RotateShaped ==
  ASSUME NEW u, NEW T, NEW D, NEW K, Shaped(u, T, D, K), NEW n \in T, NEW d \in Dir,
         u[Opposite(d)][n] # NULL
  PROVE  LET r == u[Opposite(d)][n]
         IN  Shaped(Rotate(u, n, d), T,
                    Turn(D, n, r, {n} \cup D[u[d][n]] \cup D[u[d][r]]), K)
<1> DEFINE o == Opposite(d)
           r == u[o][n]
           inner == u[d][r]
           v == Rotate(u, n, d)
           E == Turn(D, n, r, {n} \cup D[u[d][n]] \cup D[inner])
<1>1. o \in Dir /\ o # d /\ Opposite(o) = d /\ Dir = {d, o}
      /\ ((d = "left" /\ o = "right") \/ (d = "right" /\ o = "left"))
  BY Dirs DEF Dir, Opposite
<1>2. /\ u \in Tree /\ T \in SUBSET Node /\ K \in [Node -> Int] /\ D \in [Link -> SUBSET T]
      /\ D[NULL] = {} /\ D[u.root] = T
      /\ u.root # NULL => u.root \in T /\ u.parent[u.root] = NULL
      /\ \A m \in T, e \in Dir :
           u[e][m] # NULL => u[e][m] \in T /\ u.parent[u[e][m]] = m
      /\ \A m \in T, e \in Dir : \A k \in D[u[e][m]] : Before(e, K[k], K[m])
      /\ \A m \in T : u.parent[m] = NULL => m = u.root
      /\ \A m \in T : u.parent[m] # NULL =>
           u.parent[m] \in T /\ \E e \in Dir : u[e][u.parent[m]] = m
      /\ \A m \in Node \ T : u.parent[m] = NULL /\ \A e \in Dir : u[e][m] = NULL
  BY DEF Shaped
<1>3. /\ \A m \in T : D[m] = {m} \cup D[u[d][m]] \cup D[u[o][m]]
      /\ \A m \in T, e \in Dir : u[e][m] \in Link /\ m \notin D[u[e][m]]
  <2>1. \A m \in T : D[m] = {m} \cup D[u[d][m]] \cup D[u[o][m]]
    BY Below
  <2>2. \A m \in T, e \in Dir : u[e][m] \in Link /\ m \notin D[u[e][m]]
    BY Below
  <2> QED BY <2>1, <2>2
<1>4. /\ v \in Tree
      /\ v.root = IF u.root = n THEN r ELSE u.root
      /\ v[o][n] = inner /\ v[d][r] = n /\ v[d][n] = u[d][n] /\ v[o][r] = u[o][r]
      /\ \A m \in Node \ {n, r}, e \in Dir : v[e][m] = IF u[e][m] = n THEN r ELSE u[e][m]
      /\ \A m \in Node : v.parent[m] = IF m = n THEN r ELSE IF m = r THEN u.parent[n]
                                       ELSE IF m = inner THEN n ELSE u.parent[m]
  BY Rotated
<1>5. /\ n \in Node /\ n # NULL /\ r \in T /\ r \in Node /\ r # NULL /\ r # n /\ inner \in Link
      /\ inner # NULL => inner \in T /\ u.parent[inner] = r
      /\ u.parent[r] = n
  <2>1. r \in T /\ u.parent[r] = n /\ n \in Node /\ r # n
    BY <1>1, <1>2, Below
  <2> QED BY <1>1, <1>2, <1>3, <2>1, LinkFacts
<1>6. /\ E \in [Link -> SUBSET T]
      /\ E[n] = {n} \cup D[u[d][n]] \cup D[inner] /\ E[r] = D[n]
      /\ \A m \in Link : m # n /\ m # r => E[m] = D[m]
  <2>1. D[u[d][n]] \in SUBSET T /\ D[inner] \in SUBSET T /\ n \in Link /\ r \in Link
    BY <1>2, <1>3, <1>5, LinkFacts
  <2> HIDE DEF inner, r
  <2> QED BY <1>2, <1>5, <2>1 DEF Turn
<1> HIDE DEF E, v
<1>7. /\ D[n] = {n} \cup D[u[d][n]] \cup D[r]
      /\ D[r] = {r} \cup D[inner] \cup D[u[o][r]]
      /\ n \notin D[r] /\ D[u[d][n]] \cap D[r] = {}
  <2>1. D[u[d][n]] \cap D[u[o][n]] = {}
    BY <1>1, Below
  <2> QED BY <1>1, <1>3, <1>5, <2>1
<1>8. o = Opposite(d) /\ r = u[o][n] /\ inner = u[d][r]
  OBVIOUS
<1> HIDE DEF o, r, inner
<1>9. /\ inner # n /\ inner # r /\ u[o][r] # n /\ u[o][r] # r /\ u[d][n] # n /\ u[d][n] # r
      /\ u[o][r] # inner \/ inner = NULL
  <2>1. \A m \in T : m \in D[m]
    BY <1>3
  <2>2. \A m \in T, e \in Dir : u[e][m] # NULL => u[e][m] \in D[u[e][m]]
    BY <1>2, <2>1
  <2>3. \A m \in T, e \in Dir : u[e][m] # m
    BY <1>2, <1>3, <2>1, LinkFacts
  <2>4. inner # n /\ u[o][r] # n
    BY <1>1, <1>5, <1>7, <1>8, <2>2
  <2>5. u[d][n] # r
    BY <1>1, <1>5, <1>7, <2>1
  <2>6. inner # NULL => u[o][r] # inner
    BY <1>1, <1>5, <1>8, Below
  <2> QED BY <1>1, <1>5, <1>8, <2>3, <2>4, <2>5, <2>6
\* The subtrees of v: other nodes see n and r as one.
<1>10. \A m \in T, e \in Dir : m # n /\ m # r => E[v[e][m]] = D[u[e][m]]
  <2> SUFFICES ASSUME NEW m \in T, NEW e \in Dir, m # n, m # r PROVE E[v[e][m]] = D[u[e][m]]
    OBVIOUS
  <2>1. m \in Node /\ v[e][m] = IF u[e][m] = n THEN r ELSE u[e][m]
    BY <1>2, <1>4
  <2>2. u[e][m] # r
    BY <1>2, <1>5
  <2> QED BY <1>3, <1>6, <2>1, <2>2
<1>11. /\ E[v[d][n]] = D[u[d][n]] /\ E[v[o][n]] = D[inner]
       /\ E[v[d][r]] = E[n] /\ E[v[o][r]] = D[u[o][r]]
  BY <1>1, <1>3, <1>4, <1>5, <1>6, <1>9
<1>12. \A m \in T : E[m] = {m} \cup E[v[d][m]] \cup E[v[o][m]]
  <2> TAKE m \in T
  <2>1. CASE m = n
    BY <1>6, <1>11, <2>1
  <2>2. CASE m = r
    BY <1>6, <1>7, <1>11, <2>2
  <2>3. CASE m # n /\ m # r
    <3>1. m \in Link
      BY <1>2, LinkFacts
    <3>2. E[v[d][m]] = D[u[d][m]] /\ E[v[o][m]] = D[u[o][m]]
      BY <1>1, <1>10, <2>3
    <3> QED BY <1>3, <1>6, <2>3, <3>1, <3>2
  <2> QED BY <2>1, <2>2, <2>3
<1>13. \A m \in T : E[m] = {m} \cup E[v["left"][m]] \cup E[v["right"][m]]
  BY <1>1, <1>12
<1>14. E[NULL] = {} /\ E[v.root] = T
  <2>1. u.root # r
    BY <1>2, <1>5, LinkFacts
  <2>2. u.root \in Link /\ NULL \in Link
    BY <1>2, LinkFacts DEF Tree
  <2> QED BY <1>2, <1>4, <1>5, <1>6, <2>1, <2>2
<1>15. v.root # NULL => v.root \in T /\ v.parent[v.root] = NULL
  <2>1. CASE u.root = n
    BY <1>2, <1>4, <1>5, <2>1
  <2>2. CASE u.root # n
    <3>1. u.root # NULL => u.root # r /\ u.root # inner /\ u.root \in Node
      BY <1>2, <1>5, LinkFacts
    <3> QED BY <1>2, <1>4, <2>2, <3>1
  <2> QED BY <2>1, <2>2
<1>16. \A m \in T, e \in Dir : v[e][m] # NULL => v[e][m] \in T /\ v.parent[v[e][m]] = m
  <2> SUFFICES ASSUME NEW m \in T, NEW e \in Dir, v[e][m] # NULL
               PROVE  v[e][m] \in T /\ v.parent[v[e][m]] = m
    OBVIOUS
  <2>1. CASE m = n
    <3>1. CASE e = d
      <4>1. u[d][n] # NULL /\ u[d][n] \in T /\ u.parent[u[d][n]] = n /\ v[e][m] = u[d][n]
        BY <1>2, <1>4, <2>1, <3>1
      <4>2. u[d][n] # inner
        BY <1>5, <4>1
      <4> QED BY <1>2, <1>4, <1>9, <2>1, <4>1, <4>2
    <3>2. CASE e = o
      BY <1>2, <1>4, <1>5, <1>9, <2>1, <3>2
    <3> QED BY <1>1, <3>1, <3>2
  <2>2. CASE m = r
    <3>1. CASE e = d
      BY <1>4, <1>5, <2>2, <3>1
    <3>2. CASE e = o
      <4>1. u[o][r] # NULL /\ u[o][r] \in T /\ u.parent[u[o][r]] = r /\ v[e][m] = u[o][r]
        BY <1>1, <1>2, <1>4, <1>5, <2>2, <3>2
      <4>2. u[o][r] # inner
        BY <1>9, <4>1
      <4> QED BY <1>2, <1>4, <1>9, <2>2, <4>1, <4>2
    <3> QED BY <1>1, <3>1, <3>2
  <2>3. CASE m # n /\ m # r
    <3>1. m \in Node /\ v[e][m] = IF u[e][m] = n THEN r ELSE u[e][m]
      BY <1>2, <1>4, <2>3
    <3>2. CASE u[e][m] = n
      <4>1. u.parent[n] = m
        BY <1>2, <1>5, <3>2
      <4> QED BY <1>4, <1>5, <3>1, <3>2, <4>1
    <3>3. CASE u[e][m] # n
      <4>1. u[e][m] \in T /\ u.parent[u[e][m]] = m /\ v[e][m] = u[e][m]
        BY <1>2, <2>3, <3>1, <3>3
      <4>2. u[e][m] # r /\ u[e][m] # inner
        BY <1>5, <2>3, <4>1, LinkFacts
      <4> QED BY <1>2, <1>4, <3>3, <4>1, <4>2
    <3> QED BY <3>2, <3>3
  <2> QED BY <2>1, <2>2, <2>3
<1>17. \A m \in T, e \in Dir : \A k \in E[v[e][m]] : Before(e, K[k], K[m])
  <2> SUFFICES ASSUME NEW m \in T, NEW e \in Dir, NEW k \in E[v[e][m]]
               PROVE  Before(e, K[k], K[m])
    OBVIOUS
  <2>1. CASE m = n
    <3>1. CASE e = d
      BY <1>2, <1>11, <2>1, <3>1
    <3>2. CASE e = o
      <4>1. k \in D[r]
        BY <1>7, <1>11, <2>1, <3>2
      <4> QED BY <1>1, <1>2, <1>8, <2>1, <3>2, <4>1
    <3> QED BY <1>1, <3>1, <3>2
  <2>2. CASE m = r
    <3>1. CASE e = o
      BY <1>1, <1>2, <1>5, <1>11, <2>2, <3>1
    <3>2. CASE e = d
      <4>1. k \in E[n]
        BY <1>11, <2>2, <3>2
      <4>2. Before(d, K[n], K[r])
        <5>1. r \in D[u[o][n]]
          BY <1>7, <1>8
        <5>2. Before(o, K[r], K[n])
          BY <1>1, <1>2, <5>1
        <5>3. K[r] \in Int /\ K[n] \in Int
          BY <1>2, <1>5
        <5> QED BY <1>1, <5>2, <5>3 DEF Before
      <4>3. CASE k = n
        BY <2>2, <3>2, <4>2, <4>3
      <4>4. CASE k \in D[u[d][n]]
        <5>1. Before(d, K[k], K[n])
          BY <1>2, <4>4
        <5>2. k \in Node
          BY <1>2, <1>3, <4>4
        <5>3. K[k] \in Int /\ K[n] \in Int /\ K[r] \in Int
          BY <1>2, <1>5, <5>2
        <5> QED BY <2>2, <3>2, <4>2, <5>1, <5>3, Order
      <4>5. CASE k \in D[inner]
        BY <1>2, <1>5, <1>8, <2>2, <3>2, <4>5
      <4> QED BY <1>6, <4>1, <4>3, <4>4, <4>5
    <3> QED BY <1>1, <3>1, <3>2
  <2>3. CASE m # n /\ m # r
    BY <1>2, <1>10, <2>3
  <2> QED BY <2>1, <2>2, <2>3
<1>18. \A m \in T : v.parent[m] = NULL => m = v.root
  <2> SUFFICES ASSUME NEW m \in T, v.parent[m] = NULL PROVE m = v.root
    OBVIOUS
  <2>1. m \in Node
    BY <1>2
  <2>2. CASE m = r
    BY <1>2, <1>4, <1>5, <2>2
  <2>3. CASE m # r
    <3>1. m # n /\ m # inner /\ u.parent[m] = NULL
      BY <1>4, <1>5, <2>1, <2>3
    <3> QED BY <1>2, <1>4, <3>1
  <2> QED BY <2>2, <2>3
<1>19. \A m \in T : v.parent[m] # NULL =>
         v.parent[m] \in T /\ \E e \in Dir : v[e][v.parent[m]] = m
  <2> SUFFICES ASSUME NEW m \in T, v.parent[m] # NULL
               PROVE  v.parent[m] \in T /\ \E e \in Dir : v[e][v.parent[m]] = m
    OBVIOUS
  <2>0. m \in Node
    BY <1>2
  <2>1. CASE m = n
    BY <1>4, <1>5, <2>1
  <2>2. CASE m = r
    <3>1. v.parent[m] = u.parent[n] /\ u.parent[n] # NULL
      BY <1>4, <1>5, <2>2
    <3>2. PICK e \in Dir : u[e][u.parent[n]] = n
      BY <1>2, <3>1
    <3>3. u.parent[n] \in T /\ u.parent[n] \in Node /\ u.parent[n] # n
      BY <1>2, <1>3, <3>1, <3>2
    <3>4. u.parent[n] # r
      BY <1>1, <1>8, <1>9, <3>2
    <3>5. v[e][u.parent[n]] = r
      BY <1>4, <3>2, <3>3, <3>4
    <3> QED BY <2>2, <3>1, <3>3, <3>5
  <2>3. CASE m # n /\ m # r /\ m = inner
    BY <1>1, <1>4, <1>5, <2>0, <2>3
  <2>4. CASE m # n /\ m # r /\ m # inner
    <3>1. v.parent[m] = u.parent[m] /\ u.parent[m] # NULL
      BY <1>4, <2>0, <2>4
    <3>2. PICK e \in Dir : u[e][u.parent[m]] = m
      BY <1>2, <3>1
    <3>3. u.parent[m] \in T /\ u.parent[m] \in Node
      BY <1>2, <3>1
    <3>4. CASE u.parent[m] = n
      <4>1. e = d
        BY <1>1, <1>8, <2>4, <3>2, <3>4
      <4> QED BY <1>4, <3>1, <3>2, <3>3, <3>4, <4>1
    <3>5. CASE u.parent[m] = r
      <4>1. e = o
        BY <1>1, <1>8, <2>4, <3>2, <3>5
      <4> QED BY <1>1, <1>4, <3>1, <3>2, <3>3, <3>5, <4>1
    <3>6. CASE u.parent[m] # n /\ u.parent[m] # r
      BY <1>4, <2>4, <3>1, <3>2, <3>3, <3>6
    <3> QED BY <3>4, <3>5, <3>6
  <2> QED BY <2>1, <2>2, <2>3, <2>4
<1>20. \A m \in Node \ T : v.parent[m] = NULL /\ \A e \in Dir : v[e][m] = NULL
  <2> TAKE m \in Node \ T
  <2>1. m # n /\ m # r /\ m # inner
    BY <1>5, LinkFacts
  <2> QED BY <1>2, <1>4, <1>5, <2>1
<1>21. Shaped(v, T, E, K)
  BY <1>2, <1>4, <1>6, <1>13, <1>14, <1>15, <1>16, <1>17, <1>18, <1>19, <1>20 DEF Shaped
<1> QED BY <1>8, <1>21 DEF v, E, o, r, inner

\* From a point of S that is not in Stop, nx leads to one of a smaller measure.
Walking(S, V, Stop, nx, val, mu) ==
  /\ Stop \in SUBSET S /\ nx \in [S \ Stop -> S] /\ val \in [Stop -> V] /\ mu \in [S -> Nat]
  /\ \A m \in S \ Stop : mu[nx[m]] < mu[m]

\* A function that follows nx until it stops exists.
LEMMA TailRecursion ==
  ASSUME NEW S, NEW V, NEW Stop, NEW nx, NEW val, NEW mu,
         Walking(S, V, Stop, nx, val, mu), V # {}
  PROVE  \E f \in [S -> V] : \A m \in S : f[m] = IF m \in Stop THEN val[m] ELSE f[nx[m]]
<1> DEFINE G == [m \in S |-> [f \in [S -> V] |-> IF m \in Stop THEN val[m] ELSE f[nx[m]]]]
<1>1. /\ Stop \in SUBSET S /\ nx \in [S \ Stop -> S] /\ val \in [Stop -> V] /\ mu \in [S -> Nat]
      /\ \A m \in S \ Stop : mu[nx[m]] < mu[m]
  BY DEF Walking
<1>2. \A m \in S : \A f \in [S -> V] : (IF m \in Stop THEN val[m] ELSE f[nx[m]]) \in V
  BY <1>1
<1>3. /\ G \in [S -> [[S -> V] -> V]]
      /\ \A m \in S : \A f \in [S -> V] : G[m][f] = IF m \in Stop THEN val[m] ELSE f[nx[m]]
  BY <1>2
<1> HIDE DEF G
<1>4. Recursive(S, V, mu, G)
  <2>1. ASSUME NEW m \in S, NEW f \in [S -> V], NEW h \in [S -> V],
               \A k \in S : mu[k] < mu[m] => f[k] = h[k]
        PROVE  G[m][f] = G[m][h]
    <3>1. /\ G[m][f] = (IF m \in Stop THEN val[m] ELSE f[nx[m]])
          /\ G[m][h] = (IF m \in Stop THEN val[m] ELSE h[nx[m]])
      BY ONLY <1>3, m \in S, f \in [S -> V], h \in [S -> V]
    <3>2. m \notin Stop => nx[m] \in S /\ mu[nx[m]] < mu[m]
      BY ONLY <1>1, m \in S
    <3> QED BY ONLY <2>1, <3>1, <3>2
  <2> QED BY <1>1, <1>3, <2>1 DEF Recursive
<1>5. PICK f \in [S -> V] : \A m \in S : f[m] = G[m][f]
  BY <1>4, Recursion
<1> QED BY <1>3, <1>5

\* a and b lead from a node to links of a smaller measure.
Visiting(V, z, a, b, g, mu) ==
  /\ z \in V /\ a \in [Node -> Link] /\ b \in [Node -> Link] /\ g \in [Node -> [V -> [V -> V]]]
  /\ mu \in [Link -> Nat] /\ \A m \in Node : mu[a[m]] < mu[m] /\ mu[b[m]] < mu[m]

\* A function that visits the nodes behind a and b exists.
LEMMA TreeRecursion ==
  ASSUME NEW V, NEW z, NEW a, NEW b, NEW g, NEW mu, Visiting(V, z, a, b, g, mu)
  PROVE  \E f \in [Link -> V] : \A m \in Link :
           f[m] = IF m = NULL THEN z ELSE g[m][f[a[m]]][f[b[m]]]
<1> DEFINE R(f, m) == IF m = NULL THEN z ELSE g[m][f[a[m]]][f[b[m]]]
           G == [m \in Link |-> [f \in [Link -> V] |-> R(f, m)]]
<1>1. /\ z \in V /\ a \in [Node -> Link] /\ b \in [Node -> Link]
      /\ g \in [Node -> [V -> [V -> V]]]
      /\ mu \in [Link -> Nat] /\ \A m \in Node : mu[a[m]] < mu[m] /\ mu[b[m]] < mu[m]
  BY DEF Visiting
<1>2. \A m \in Link : \A f \in [Link -> V] : R(f, m) \in V
  <2> TAKE m \in Link
  <2> TAKE f \in [Link -> V]
  <2>1. CASE m = NULL
    BY <1>1, <2>1
  <2>2. CASE m # NULL
    <3>1. m \in Node
      BY <2>2, LinkFacts
    <3>2. f[a[m]] \in V /\ f[b[m]] \in V
      BY <1>1, <3>1
    <3>3. g[m] \in [V -> [V -> V]]
      BY <1>1, <3>1
    <3>4. g[m][f[a[m]]] \in [V -> V]
      BY <3>2, <3>3
    <3> QED BY <2>2, <3>2, <3>4
  <2> QED BY <2>1, <2>2
<1>3. \A m \in Link : \A f, h \in [Link -> V] :
        (\A k \in Link : mu[k] < mu[m] => f[k] = h[k]) => R(f, m) = R(h, m)
  BY <1>1, LinkFacts
<1> HIDE DEF R
<1>4. /\ G \in [Link -> [[Link -> V] -> V]]
      /\ \A m \in Link : \A f \in [Link -> V] : G[m][f] = R(f, m)
  BY <1>2
<1> HIDE DEF G
<1>5. Recursive(Link, V, mu, G)
  <2>1. ASSUME NEW m \in Link, NEW f \in [Link -> V], NEW h \in [Link -> V],
               \A k \in Link : mu[k] < mu[m] => f[k] = h[k]
        PROVE  G[m][f] = G[m][h]
    <3>1. R(f, m) = R(h, m)
      BY <1>3, <2>1
    <3>2. G[m][f] = R(f, m) /\ G[m][h] = R(h, m)
      BY <1>4
    <3> QED BY <3>1, <3>2
  <2> QED BY <1>1, <1>4, <2>1 DEF Recursive
<1>6. \A S, W : Recursive(S, W, mu, G) /\ W # {} =>
        \E f \in [S -> W] : \A n \in S : f[n] = G[n][f]
  BY Recursion
<1>7. PICK f \in [Link -> V] : \A m \in Link : f[m] = G[m][f]
  BY <1>1, <1>5, <1>6
<1> QED BY <1>4, <1>7 DEF R

(***************************************************************************)
(* Measures and induction on the nodes of a tree.                          *)
(***************************************************************************)
\* mu gets smaller from a node to its children ...
Descending(u, mu) == mu \in [Link -> Nat] /\ \A n \in Node, d \in Dir : mu[u[d][n]] < mu[n]

\* ... or to its parent.
Ascending(u, mu) == mu \in [Link -> Nat] /\ \A n \in Node : mu[u.parent[n]] < mu[n]

\* The numbers of nodes below a node.
LEMMA Sizes ==
  ASSUME NEW u, NEW T, NEW D, NEW K, Shaped(u, T, D, K)
  PROVE  /\ \A n \in Link : Cardinality(D[n]) \in Nat
         /\ Cardinality(T) \in Nat /\ IsFiniteSet(T)
         /\ \A n \in T, d \in Dir : Cardinality(D[u[d][n]]) < Cardinality(D[n])
         /\ \A n \in Link : Cardinality(D[n]) <= Cardinality(T)
<1>1. T \in SUBSET Node /\ D \in [Link -> SUBSET T]
  BY DEF Shaped
<1>2. IsFiniteSet(T) /\ Cardinality(T) \in Nat
  BY <1>1, RBTreeAssumption, FS_Subset, FS_CardinalityType
<1>3. ASSUME NEW n \in Link PROVE /\ IsFiniteSet(D[n]) /\ Cardinality(D[n]) \in Nat
                                 /\ Cardinality(D[n]) <= Cardinality(T)
  <2>1. D[n] \in SUBSET T
    BY <1>1
  <2> QED BY <1>2, <2>1, FS_Subset, FS_CardinalityType
<1>4. ASSUME NEW n \in T, NEW d \in Dir PROVE Cardinality(D[u[d][n]]) < Cardinality(D[n])
  <2>1. D[u[d][n]] \in SUBSET D[n] /\ n \in D[n] /\ n \notin D[u[d][n]] /\ u[d][n] \in Link
    BY Below
  <2>2. n \in Link
    BY <1>1, LinkFacts
  <2>3. /\ Cardinality(D[u[d][n]]) <= Cardinality(D[n])
        /\ Cardinality(D[u[d][n]]) = Cardinality(D[n]) => D[u[d][n]] = D[n]
    BY <1>3, <2>1, <2>2, FS_Subset
  <2>4. Cardinality(D[u[d][n]]) # Cardinality(D[n])
    BY <2>1, <2>3
  <2> QED BY <1>3, <2>1, <2>2, <2>3, <2>4
<1> QED BY <1>2, <1>3, <1>4

\* The links of a search tree lead in no circle.
LEMMA Acyclic ==
  ASSUME NEW u, NEW T, NEW D, NEW K, Shaped(u, T, D, K)
  PROVE  (\E mu : Descending(u, mu)) /\ (\E mu : Ascending(u, mu))
<1> DEFINE c(n) == Cardinality(D[n])
           down == [n \in Link |-> IF n = NULL THEN 0 ELSE c(n) + 1]
           up == [n \in Link |-> IF n = NULL THEN 0 ELSE (Cardinality(T) - c(n)) + 1]
<1>1. /\ \A n \in Link : c(n) \in Nat /\ c(n) <= Cardinality(T)
      /\ Cardinality(T) \in Nat /\ \A n \in T, d \in Dir : c(u[d][n]) < c(n)
  BY Sizes
<1>2. /\ u \in Tree /\ T \in SUBSET Node
      /\ \A n \in T, d \in Dir : u[d][n] # NULL => u[d][n] \in T
      /\ \A n \in T : u.parent[n] # NULL =>
           u.parent[n] \in T /\ \E d \in Dir : u[d][u.parent[n]] = n
      /\ \A n \in Node \ T : u.parent[n] = NULL /\ \A d \in Dir : u[d][n] = NULL
  BY DEF Shaped
<1> HIDE DEF c
<1>3. /\ down \in [Link -> Nat] /\ \A n \in Link : down[n] = IF n = NULL THEN 0 ELSE c(n) + 1
      /\ up \in [Link -> Nat]
      /\ \A n \in Link : up[n] = IF n = NULL THEN 0 ELSE (Cardinality(T) - c(n)) + 1
  BY <1>1
<1> HIDE DEF down, up
<1>4. Descending(u, down)
  <2> SUFFICES ASSUME NEW n \in Node, NEW d \in Dir PROVE down[u[d][n]] < down[n]
    BY <1>3 DEF Descending
  <2>1. n \in Link /\ n # NULL /\ u[d][n] \in Link
    BY <1>2, LinkFacts, TreeFields
  <2>2. u[d][n] # NULL => n \in T
    BY <1>2
  <2> QED BY <1>1, <1>3, <2>1, <2>2
<1>5. Ascending(u, up)
  <2> SUFFICES ASSUME NEW n \in Node PROVE up[u.parent[n]] < up[n]
    BY <1>3 DEF Ascending
  <2>0. "left" \in Dir
    BY DEF Dir
  <2>1. n \in Link /\ n # NULL /\ u.parent[n] \in Link
    BY <1>2, <2>0, LinkFacts, TreeFields
  <2>2. u.parent[n] # NULL => n \in T
    BY <1>2
  <2>3. u.parent[n] # NULL => c(n) < c(u.parent[n])
    BY <1>1, <1>2, <2>2
  <2> QED BY <1>1, <1>3, <2>1, <2>3
<1> QED BY <1>4, <1>5

\* Induction from the children to the parent ...
LEMMA TreeInduction ==
  ASSUME NEW u, NEW T, NEW D, NEW K, Shaped(u, T, D, K), NEW S,
         \A n \in T : (\A d \in Dir : u[d][n] # NULL => u[d][n] \in S) => n \in S
  PROVE  T \subseteq S
<1>1. PICK mu : Descending(u, mu)
  BY Acyclic
<1> DEFINE Bad == {mu[n] : n \in T \ S}
<1>2. SUFFICES ASSUME Bad # {} PROVE FALSE
  OBVIOUS
<1>3. T \in SUBSET Node /\ \A n \in T, d \in Dir : u[d][n] # NULL => u[d][n] \in T
  BY DEF Shaped
<1>4. \A n \in T : n \in Link /\ mu[n] \in Nat
  BY <1>1, <1>3, LinkFacts DEF Descending
<1>5. PICK x \in Bad : \A y \in Bad : x <= y
  <2>1. Bad \in SUBSET Nat
    BY <1>4
  <2> HIDE DEF Bad
  <2> QED BY <1>2, <2>1, Least
<1>6. PICK n \in T \ S : x = mu[n]
  BY <1>5
<1>7. PICK d \in Dir : u[d][n] # NULL /\ u[d][n] \notin S
  BY <1>6
<1>8. u[d][n] \in T \ S /\ mu[u[d][n]] < mu[n]
  BY <1>1, <1>3, <1>7 DEF Descending
<1>9. mu[u[d][n]] \in Bad
  BY <1>8
<1>10. mu[n] <= mu[u[d][n]]
  BY <1>5, <1>6, <1>9
<1> QED BY <1>4, <1>8, <1>10

\* ... and from the parent to the children.
LEMMA ParentInduction ==
  ASSUME NEW u, NEW T, NEW D, NEW K, Shaped(u, T, D, K), NEW S,
         \A n \in T : (u.parent[n] # NULL => u.parent[n] \in S) => n \in S
  PROVE  T \subseteq S
<1>1. PICK mu : Ascending(u, mu)
  BY Acyclic
<1> DEFINE Bad == {mu[n] : n \in T \ S}
<1>2. SUFFICES ASSUME Bad # {} PROVE FALSE
  OBVIOUS
<1>3. T \in SUBSET Node /\ \A n \in T : u.parent[n] # NULL => u.parent[n] \in T
  BY DEF Shaped
<1>4. \A n \in T : n \in Link /\ mu[n] \in Nat
  BY <1>1, <1>3, LinkFacts DEF Ascending
<1>5. PICK x \in Bad : \A y \in Bad : x <= y
  <2>1. Bad \in SUBSET Nat
    BY <1>4
  <2> HIDE DEF Bad
  <2> QED BY <1>2, <2>1, Least
<1>6. PICK n \in T \ S : x = mu[n]
  BY <1>5
<1>7. u.parent[n] \in T \ S /\ mu[u.parent[n]] < mu[n]
  BY <1>1, <1>3, <1>6 DEF Ascending
<1>8. mu[u.parent[n]] \in Bad
  BY <1>7
<1>9. mu[n] <= mu[u.parent[n]]
  BY <1>5, <1>6, <1>8
<1> QED BY <1>4, <1>7, <1>9

(***************************************************************************)
(* The sets of nodes below a node.                                         *)
(***************************************************************************)
\* Below a node of the tree, everything is in the tree, and so are the parents up to it.
LEMMA Nested ==
  ASSUME NEW u, NEW T, NEW D, NEW K, Shaped(u, T, D, K), NEW n \in T, NEW m \in D[n]
  PROVE  m \in T /\ D[m] \subseteq D[n] /\ (m # n => u.parent[m] \in D[n])
<1> DEFINE Good(k) == \A x \in D[k] : D[x] \subseteq D[k] /\ (x # k => u.parent[x] \in D[k])
           S == {k \in T : Good(k)}
<1>1. /\ T \in SUBSET Node /\ D \in [Link -> SUBSET T] /\ D[NULL] = {}
      /\ \A k \in T, d \in Dir : u[d][k] # NULL => u[d][k] \in T /\ u.parent[u[d][k]] = k
      /\ \A k \in T : D[k] = {k} \cup D[u["left"][k]] \cup D[u["right"][k]]
  BY DEF Shaped
<1>2. ASSUME NEW k \in T, \A d \in Dir : u[d][k] # NULL => u[d][k] \in S
      PROVE  k \in S
  <2>1. SUFFICES ASSUME NEW x \in D[k], x # k PROVE D[x] \subseteq D[k] /\ u.parent[x] \in D[k]
    BY <1>2
  <2>2. PICK d \in Dir : x \in D[u[d][k]]
    BY <1>1, <2>1 DEF Dir
  <2>3. D[u[d][k]] \subseteq D[k] /\ k \in D[k]
    BY Below
  <2>4. u[d][k] # NULL
    BY <1>1, <2>2
  <2>5. Good(u[d][k]) /\ u.parent[u[d][k]] = k
    BY <1>1, <1>2, <2>4
  <2> QED BY <2>2, <2>3, <2>5
<1> HIDE DEF S
<1>3. T \subseteq S
  BY <1>2, TreeInduction
<1>4. Good(n) /\ n \in Link
  BY <1>1, <1>3, LinkFacts DEF S
<1>5. m \in T
  BY <1>1, <1>4
<1> QED BY <1>4, <1>5

\* The children in a subtree are those of its nodes, and its root.
LEMMA ChildBelow ==
  ASSUME NEW u, NEW T, NEW D, NEW K, Shaped(u, T, D, K), NEW n \in T, NEW d \in Dir,
         NEW a \in T, NEW e \in Dir, u[d][n] # NULL, u[d][n] \in D[u[e][a]]
  PROVE  n \in D[u[e][a]] \/ (n = a /\ d = e)
<1> DEFINE c == u[e][a]
<1>1. D[NULL] = {} /\ u[d][n] \in T /\ u.parent[u[d][n]] = n /\ n \in Node /\ a \in Node
  BY DEF Shaped
<1>2. c # NULL
  BY <1>1
<1>3. c \in T /\ u.parent[c] = a
  BY <1>2 DEF Shaped
<1>4. CASE u[d][n] = c
  <2>1. a # NULL
    BY <1>1, LinkFacts
  <2>2. n = a /\ d = Side(u, c) /\ e = Side(u, c)
    BY <1>1, <1>3, <1>4, <2>1, OneParent
  <2> QED BY <2>2
<1>5. CASE u[d][n] # c
  BY <1>1, <1>3, <1>5, Nested
<1> QED BY <1>4, <1>5

\* The root is below no node.
LEMMA RootAbove ==
  ASSUME NEW u, NEW T, NEW D, NEW K, Shaped(u, T, D, K), NEW a \in T, NEW e \in Dir
  PROVE  u.root \notin D[u[e][a]]
<1>1. D[NULL] = {} /\ D[u.root] = T
  BY DEF Shaped
<1>2. a \notin D[u[e][a]]
  BY Below
<1>3. u[e][a] # NULL => u[e][a] \in T
  BY DEF Shaped
<1>4. u.root \in D[u[e][a]] => D[u.root] \subseteq D[u[e][a]]
  BY <1>1, <1>3, Nested
<1> QED BY <1>1, <1>2, <1>4

\* A node that is not below n is greater than all that are, or smaller.
LEMMA Apart ==
  ASSUME NEW u, NEW T, NEW D, NEW K, Shaped(u, T, D, K), NEW n \in T, NEW m \in T, m \notin D[n]
  PROVE  (\A x \in D[n] : K[x] < K[m]) \/ (\A x \in D[n] : K[m] < K[x])
<1> DEFINE Good(k) == \A y \in T \ D[k] :
                        (\A x \in D[k] : K[x] < K[y]) \/ (\A x \in D[k] : K[y] < K[x])
           S == {k \in T : Good(k)}
<1>1. /\ T \in SUBSET Node /\ D \in [Link -> SUBSET T] /\ D[u.root] = T /\ K \in [Node -> Int]
      /\ \A k \in T : u.parent[k] = NULL => k = u.root
      /\ \A k \in T : u.parent[k] # NULL =>
           u.parent[k] \in T /\ \E d \in Dir : u[d][u.parent[k]] = k
      /\ \A k \in T, d \in Dir : \A x \in D[u[d][k]] : Before(d, K[x], K[k])
  BY DEF Shaped
<1>2. ASSUME NEW k \in T, u.parent[k] # NULL => u.parent[k] \in S PROVE k \in S
  <2>1. CASE u.parent[k] = NULL
    BY <1>1, <2>1
  <2>2. CASE u.parent[k] # NULL
    <3> DEFINE p == u.parent[k]
    <3>1. SUFFICES ASSUME NEW y \in T \ D[k]
                   PROVE  (\A x \in D[k] : K[x] < K[y]) \/ (\A x \in D[k] : K[y] < K[x])
      OBVIOUS
    <3>2. PICK d \in Dir : u[d][p] = k
      BY <1>1, <2>2
    <3>3. p \in T /\ Good(p)
      BY <1>1, <1>2, <2>2
    <3>4. D[p] = {p} \cup D[k] \cup D[u[Opposite(d)][p]] /\ Opposite(d) \in Dir
      BY <3>2, <3>3, Below, Dirs
    <3> HIDE DEF p
    <3>5. CASE y \notin D[p]
      BY <3>1, <3>3, <3>4, <3>5
    <3>6. CASE y = p
      <4>1. \A x \in D[k] : Before(d, K[x], K[p])
        BY <1>1, <3>2, <3>3
      <4> QED BY <3>6, <4>1 DEF Before
    <3>7. CASE y \in D[u[Opposite(d)][p]]
      <4>1. \A x \in D[k] : Before(d, K[x], K[p])
        BY <1>1, <3>2, <3>3
      <4>2. Before(Opposite(d), K[y], K[p]) /\ K[y] \in Int /\ K[p] \in Int
        BY <1>1, <3>1, <3>3, <3>4, <3>7
      <4>3. \A x \in D[k] : K[x] \in Int
        BY <1>1, LinkFacts
      <4>4. \A x \in D[k] : Before(d, K[x], K[y])
        BY <4>1, <4>2, <4>3 DEF Before, Opposite, Dir
      <4> QED BY <4>4 DEF Before
    <3> QED BY <3>1, <3>4, <3>5, <3>6, <3>7
  <2> QED BY <2>1, <2>2
<1> HIDE DEF S
<1>3. T \subseteq S
  BY <1>2, ParentInduction
<1>4. Good(n)
  BY <1>3 DEF S
<1> QED BY <1>4

\* No key is twice in the tree.
LEMMA OneKey ==
  ASSUME NEW u, NEW T, NEW D, NEW K, Shaped(u, T, D, K), NEW n \in T, NEW m \in T, K[n] = K[m]
  PROVE  n = m
<1>1. /\ T \in SUBSET Node /\ K \in [Node -> Int]
      /\ \A k \in T : D[k] = {k} \cup D[u["left"][k]] \cup D[u["right"][k]]
      /\ \A k \in T, d \in Dir : \A x \in D[u[d][k]] : Before(d, K[x], K[k])
  BY DEF Shaped
<1>2. n \in D[n] /\ K[n] \in Int
  BY <1>1
<1>3. m \in D[n]
  BY <1>2, Apart
<1>4. m # n => \E d \in Dir : m \in D[u[d][n]]
  BY <1>1, <1>3 DEF Dir
<1> QED BY <1>1, <1>2, <1>4 DEF Before

(***************************************************************************)
(* Walk, MaximumNode, MinimumNode and LastOnPath in a search tree.         *)
(***************************************************************************)
\* Induction over a measure.
LEMMA MeasureInduction ==
  ASSUME NEW S, NEW mu \in [S -> Nat], NEW P,
         \A m \in S : (\A k \in S : mu[k] < mu[m] => k \in P) => m \in P
  PROVE  S \subseteq P
<1> DEFINE Bad == {mu[n] : n \in S \ P}
<1>1. SUFFICES ASSUME Bad # {} PROVE FALSE
  OBVIOUS
<1>2. PICK x \in Bad : \A y \in Bad : x <= y
  <2>1. Bad \in SUBSET Nat
    OBVIOUS
  <2> HIDE DEF Bad
  <2> QED BY <1>1, <2>1, Least
<1>3. PICK n \in S \ P : x = mu[n]
  BY <1>2
<1>4. PICK k \in S : mu[k] < mu[n] /\ k \notin P
  BY <1>3
<1>5. mu[k] \in Bad /\ mu[k] \in Nat /\ mu[n] \in Nat
  BY <1>4
<1>6. mu[n] <= mu[k]
  BY <1>2, <1>3, <1>5
<1> QED BY <1>4, <1>5, <1>6

\* h follows nx until it stops.
Tails(S, Stop, nx, val, h) == h = [m \in S |-> IF m \in Stop THEN val[m] ELSE h[nx[m]]]

LEMMA TailFixed ==
  ASSUME NEW S, NEW V, NEW Stop, NEW nx, NEW val, NEW mu,
         Walking(S, V, Stop, nx, val, mu), NEW h, Tails(S, Stop, nx, val, h)
  PROVE  /\ h \in [S -> V]
         /\ \A m \in S : h[m] = IF m \in Stop THEN val[m] ELSE h[nx[m]]
<1>1. /\ Stop \in SUBSET S /\ nx \in [S \ Stop -> S] /\ val \in [Stop -> V] /\ mu \in [S -> Nat]
      /\ \A m \in S \ Stop : mu[nx[m]] < mu[m]
  BY DEF Walking
<1>2. /\ \A m \in S : h[m] = IF m \in Stop THEN val[m] ELSE h[nx[m]]
      /\ h = [m \in S |-> h[m]]
  <2>1. DOMAIN h = S /\ h = [m \in DOMAIN h |-> h[m]]
    BY DEF Tails
  <2>2. \A m \in S : h[m] = IF m \in Stop THEN val[m] ELSE h[nx[m]]
    BY DEF Tails
  <2> QED BY <2>1, <2>2
<1> DEFINE P == {m \in S : h[m] \in V}
<1>3. ASSUME NEW m \in S, \A k \in S : mu[k] < mu[m] => k \in P PROVE m \in P
  BY <1>1, <1>2, <1>3
<1> HIDE DEF P
<1>4. S \subseteq P
  BY <1>1, <1>3, MeasureInduction
<1> QED BY <1>2, <1>4 DEF P

LEMMA TailExists ==
  ASSUME NEW S, NEW V, NEW Stop, NEW nx, NEW val, NEW mu,
         Walking(S, V, Stop, nx, val, mu), V # {}
  PROVE  \E h : Tails(S, Stop, nx, val, h)
<1>1. PICK f \in [S -> V] : \A m \in S : f[m] = IF m \in Stop THEN val[m] ELSE f[nx[m]]
  BY TailRecursion
<1>2. f = [m \in S |-> f[m]]
  OBVIOUS
<1>3. f = [m \in S |-> IF m \in Stop THEN val[m] ELSE f[nx[m]]]
  BY <1>1, <1>2
<1> QED BY <1>3 DEF Tails

\* Walk goes one step down.
WalkBody(u, k, f) ==
  [m \in Link |-> IF m = NULL \/ KeyOf[m] = k THEN m
                  ELSE f[IF KeyOf[m] > k THEN u.left[m] ELSE u.right[m]]]

Walks(u, k) == CHOOSE f : f = WalkBody(u, k, f)

LEMMA WalkStep ==
  ASSUME NEW u \in Tree, NEW mu, Descending(u, mu), NEW n \in Link, NEW k
  PROVE  /\ Walk(u, n, k) \in Link
         /\ Walk(u, n, k) = IF n = NULL \/ KeyOf[n] = k THEN n
                            ELSE Walk(u, IF KeyOf[n] > k THEN u.left[n] ELSE u.right[n], k)
<1> DEFINE Stop == {m \in Link : m = NULL \/ KeyOf[m] = k}
           nx == [m \in Link \ Stop |-> IF KeyOf[m] > k THEN u.left[m] ELSE u.right[m]]
           val == [m \in Stop |-> m]
           h == Walks(u, k)
<1>0. "left" \in Dir /\ "right" \in Dir
  BY DEF Dir
<1>1. /\ u.left \in [Node -> Link] /\ u.right \in [Node -> Link] /\ u.parent \in [Node -> Link]
      /\ u.left = u["left"] /\ u.right = u["right"]
  BY <1>0, TreeFields
<1>2. mu \in [Link -> Nat] /\ \A m \in Link \ Stop : nx[m] \in Link /\ mu[nx[m]] < mu[m]
  BY <1>0, <1>1, LinkFacts DEF Descending
<1>3. Walking(Link, Link, Stop, nx, val, [m \in Link |-> mu[m]])
  <2>1. [m \in Link |-> mu[m]] \in [Link -> Nat]
    BY <1>2, LinkFacts
  <2>2. nx \in [Link \ Stop -> Link]
    BY <1>2
  <2>3. val \in [Stop -> Link] /\ Stop \in SUBSET Link
    BY LinkFacts
  <2>4. \A m \in Link \ Stop : [i \in Link |-> mu[i]][nx[m]] < [i \in Link |-> mu[i]][m]
    BY <1>2
  <2> HIDE DEF nx, val, Stop
  <2> QED BY <2>1, <2>2, <2>3, <2>4 DEF Walking
<1>11. /\ n \in Stop <=> (n = NULL \/ KeyOf[n] = k)
       /\ n \in Stop => val[n] = n
       /\ n \notin Stop => nx[n] = IF KeyOf[n] > k THEN u.left[n] ELSE u.right[n]
  OBVIOUS
<1>4. \A f : WalkBody(u, k, f) = [m \in Link |-> IF m \in Stop THEN val[m] ELSE f[nx[m]]]
  BY DEF WalkBody
<1> HIDE DEF Stop, nx, val
<1>5. PICK g : Tails(Link, Stop, nx, val, g)
  BY <1>3, TailExists, LinkFacts
<1>6. g = WalkBody(u, k, g)
  BY <1>4, <1>5 DEF Tails
<1>7. h = WalkBody(u, k, h)
  BY <1>6 DEF Walks
<1>8. Tails(Link, Stop, nx, val, h)
  BY <1>4, <1>7 DEF Tails
<1>9. h \in [Link -> Link] /\ \A m \in Link : h[m] = IF m \in Stop THEN val[m] ELSE h[nx[m]]
  BY <1>3, <1>8, TailFixed
<1>10. \A m : Walk(u, m, k) = h[m]
  BY DEF Walk, Walks, WalkBody
<1> HIDE DEF h
<1> QED BY <1>9, <1>10, <1>11

\* MaximumNode goes one step to the right.
MaximumBody(u, f) ==
  [m \in Node |-> IF u.right[m] = NULL THEN m ELSE f[u.right[m]]]

Maximums(u) == CHOOSE f : f = MaximumBody(u, f)

LEMMA MaximumStep ==
  ASSUME NEW u \in Tree, NEW mu, Descending(u, mu), NEW n \in Node
  PROVE  /\ MaximumNode(u, n) \in Node
         /\ MaximumNode(u, n) = IF u.right[n] = NULL THEN n ELSE MaximumNode(u, u.right[n])
<1> DEFINE Stop == {m \in Node : u.right[m] = NULL}
           nx == [m \in Node \ Stop |-> u.right[m]]
           val == [m \in Stop |-> m]
           h == Maximums(u)
<1>0. "left" \in Dir /\ "right" \in Dir
  BY DEF Dir
<1>1. /\ u.left \in [Node -> Link] /\ u.right \in [Node -> Link] /\ u.parent \in [Node -> Link]
      /\ u.left = u["left"] /\ u.right = u["right"]
  BY <1>0, TreeFields
<1>2. mu \in [Link -> Nat] /\ \A m \in Node \ Stop : nx[m] \in Node /\ mu[nx[m]] < mu[m]
  BY <1>0, <1>1, LinkFacts DEF Descending
<1>3. Walking(Node, Node, Stop, nx, val, [m \in Node |-> mu[m]])
  <2>1. [m \in Node |-> mu[m]] \in [Node -> Nat]
    BY <1>2, LinkFacts
  <2>2. nx \in [Node \ Stop -> Node]
    BY <1>2
  <2>3. val \in [Stop -> Node] /\ Stop \in SUBSET Node
    BY LinkFacts
  <2>4. \A m \in Node \ Stop : [i \in Node |-> mu[i]][nx[m]] < [i \in Node |-> mu[i]][m]
    BY <1>2
  <2> HIDE DEF nx, val, Stop
  <2> QED BY <2>1, <2>2, <2>3, <2>4 DEF Walking
<1>11. /\ n \in Stop <=> (u.right[n] = NULL)
       /\ n \in Stop => val[n] = n
       /\ n \notin Stop => nx[n] = u.right[n]
  OBVIOUS
<1>4. \A f : MaximumBody(u, f) = [m \in Node |-> IF m \in Stop THEN val[m] ELSE f[nx[m]]]
  BY DEF MaximumBody
<1> HIDE DEF Stop, nx, val
<1>5. PICK g : Tails(Node, Stop, nx, val, g)
  BY <1>3, TailExists, LinkFacts
<1>6. g = MaximumBody(u, g)
  BY <1>4, <1>5 DEF Tails
<1>7. h = MaximumBody(u, h)
  BY <1>6 DEF Maximums
<1>8. Tails(Node, Stop, nx, val, h)
  BY <1>4, <1>7 DEF Tails
<1>9. h \in [Node -> Node] /\ \A m \in Node : h[m] = IF m \in Stop THEN val[m] ELSE h[nx[m]]
  BY <1>3, <1>8, TailFixed
<1>10. \A m : MaximumNode(u, m) = h[m]
  BY DEF MaximumNode, Maximums, MaximumBody
<1> HIDE DEF h
<1> QED BY <1>9, <1>10, <1>11

\* MinimumNode goes one step to the left.
MinimumBody(u, f) ==
  [m \in Node |-> IF u.left[m] = NULL THEN m ELSE f[u.left[m]]]

Minimums(u) == CHOOSE f : f = MinimumBody(u, f)

LEMMA MinimumStep ==
  ASSUME NEW u \in Tree, NEW mu, Descending(u, mu), NEW n \in Node
  PROVE  /\ MinimumNode(u, n) \in Node
         /\ MinimumNode(u, n) = IF u.left[n] = NULL THEN n ELSE MinimumNode(u, u.left[n])
<1> DEFINE Stop == {m \in Node : u.left[m] = NULL}
           nx == [m \in Node \ Stop |-> u.left[m]]
           val == [m \in Stop |-> m]
           h == Minimums(u)
<1>0. "left" \in Dir /\ "right" \in Dir
  BY DEF Dir
<1>1. /\ u.left \in [Node -> Link] /\ u.right \in [Node -> Link] /\ u.parent \in [Node -> Link]
      /\ u.left = u["left"] /\ u.right = u["right"]
  BY <1>0, TreeFields
<1>2. mu \in [Link -> Nat] /\ \A m \in Node \ Stop : nx[m] \in Node /\ mu[nx[m]] < mu[m]
  BY <1>0, <1>1, LinkFacts DEF Descending
<1>3. Walking(Node, Node, Stop, nx, val, [m \in Node |-> mu[m]])
  <2>1. [m \in Node |-> mu[m]] \in [Node -> Nat]
    BY <1>2, LinkFacts
  <2>2. nx \in [Node \ Stop -> Node]
    BY <1>2
  <2>3. val \in [Stop -> Node] /\ Stop \in SUBSET Node
    BY LinkFacts
  <2>4. \A m \in Node \ Stop : [i \in Node |-> mu[i]][nx[m]] < [i \in Node |-> mu[i]][m]
    BY <1>2
  <2> HIDE DEF nx, val, Stop
  <2> QED BY <2>1, <2>2, <2>3, <2>4 DEF Walking
<1>11. /\ n \in Stop <=> (u.left[n] = NULL)
       /\ n \in Stop => val[n] = n
       /\ n \notin Stop => nx[n] = u.left[n]
  OBVIOUS
<1>4. \A f : MinimumBody(u, f) = [m \in Node |-> IF m \in Stop THEN val[m] ELSE f[nx[m]]]
  BY DEF MinimumBody
<1> HIDE DEF Stop, nx, val
<1>5. PICK g : Tails(Node, Stop, nx, val, g)
  BY <1>3, TailExists, LinkFacts
<1>6. g = MinimumBody(u, g)
  BY <1>4, <1>5 DEF Tails
<1>7. h = MinimumBody(u, h)
  BY <1>6 DEF Minimums
<1>8. Tails(Node, Stop, nx, val, h)
  BY <1>4, <1>7 DEF Tails
<1>9. h \in [Node -> Node] /\ \A m \in Node : h[m] = IF m \in Stop THEN val[m] ELSE h[nx[m]]
  BY <1>3, <1>8, TailFixed
<1>10. \A m : MinimumNode(u, m) = h[m]
  BY DEF MinimumNode, Minimums, MinimumBody
<1> HIDE DEF h
<1> QED BY <1>9, <1>10, <1>11

\* The side of m on which the key k belongs.
Way(m, k) == IF KeyOf[m] > k THEN "left" ELSE "right"

LEMMA Ways ==
  ASSUME NEW m, NEW k, NEW u \in Tree
  PROVE  Way(m, k) \in Dir /\ (IF KeyOf[m] > k THEN u.left[m] ELSE u.right[m]) = u[Way(m, k)][m]
<1>1. "left" \in Dir
  BY DEF Dir
<1> QED BY <1>1, TreeFields DEF Way, Dir

\* LastOnPath goes one step down.
LastBody(u, k, f) ==
  [m \in Node |-> LET c == IF KeyOf[m] > k THEN u.left[m] ELSE u.right[m]
                  IN  IF c = NULL THEN m ELSE f[c]]

Lasts(u, k) == CHOOSE f : f = LastBody(u, k, f)

LEMMA LastStep ==
  ASSUME NEW u \in Tree, NEW mu, Descending(u, mu), NEW n \in Node, NEW k
  PROVE  /\ LastOnPath(u, n, k) \in Node
         /\ LastOnPath(u, n, k) =
              IF u[Way(n, k)][n] = NULL THEN n ELSE LastOnPath(u, u[Way(n, k)][n], k)
<1> DEFINE Stop == {m \in Node : u[Way(m, k)][m] = NULL}
           nx == [m \in Node \ Stop |-> u[Way(m, k)][m]]
           val == [m \in Stop |-> m]
           h == Lasts(u, k)
<1>0. "left" \in Dir /\ "right" \in Dir
  BY DEF Dir
<1>1. /\ u.left \in [Node -> Link] /\ u.right \in [Node -> Link] /\ u.parent \in [Node -> Link]
      /\ u.left = u["left"] /\ u.right = u["right"]
  BY <1>0, TreeFields
<1>2. mu \in [Link -> Nat] /\ \A m \in Node \ Stop : nx[m] \in Node /\ mu[nx[m]] < mu[m]
  BY <1>0, <1>1, LinkFacts, Ways DEF Descending
<1>3. Walking(Node, Node, Stop, nx, val, [m \in Node |-> mu[m]])
  <2>1. [m \in Node |-> mu[m]] \in [Node -> Nat]
    BY <1>2, LinkFacts
  <2>2. nx \in [Node \ Stop -> Node]
    BY <1>2
  <2>3. val \in [Stop -> Node] /\ Stop \in SUBSET Node
    BY LinkFacts
  <2>4. \A m \in Node \ Stop : [i \in Node |-> mu[i]][nx[m]] < [i \in Node |-> mu[i]][m]
    BY <1>2
  <2> HIDE DEF nx, val, Stop
  <2> QED BY <2>1, <2>2, <2>3, <2>4 DEF Walking
<1>11. /\ n \in Stop <=> (u[Way(n, k)][n] = NULL)
       /\ n \in Stop => val[n] = n
       /\ n \notin Stop => nx[n] = u[Way(n, k)][n]
  OBVIOUS
<1>4. \A f : LastBody(u, k, f) = [m \in Node |-> IF m \in Stop THEN val[m] ELSE f[nx[m]]]
  BY Ways DEF LastBody
<1> HIDE DEF Stop, nx, val
<1>5. PICK g : Tails(Node, Stop, nx, val, g)
  BY <1>3, TailExists, LinkFacts
<1>6. g = LastBody(u, k, g)
  BY <1>4, <1>5 DEF Tails
<1>7. h = LastBody(u, k, h)
  BY <1>6 DEF Lasts
<1>8. Tails(Node, Stop, nx, val, h)
  BY <1>4, <1>7 DEF Tails
<1>9. h \in [Node -> Node] /\ \A m \in Node : h[m] = IF m \in Stop THEN val[m] ELSE h[nx[m]]
  BY <1>3, <1>8, TailFixed
<1>10. \A m : LastOnPath(u, m, k) = h[m]
  BY DEF LastOnPath, Lasts, LastBody
<1> HIDE DEF h
<1> QED BY <1>9, <1>10, <1>11

\* w is the node below a node with nodes D[n] that has the key k, or NULL.
Finds(D, n, k, w) ==
  \/ w \in D[n] /\ KeyOf[w] = k
  \/ w = NULL /\ \A m \in D[n] : KeyOf[m] # k

\* A walk finds the key.
LEMMA WalkFinds ==
  ASSUME NEW u, NEW T, NEW D, Shaped(u, T, D, KeyOf), NEW k \in Int
  PROVE  /\ \A n \in T : Finds(D, n, k, Walk(u, n, k))
         /\ Finds(D, u.root, k, Walk(u, u.root, k))
<1>1. /\ u \in Tree /\ T \in SUBSET Node /\ D[NULL] = {} /\ KeyOf \in [Node -> Int]
      /\ u.root # NULL => u.root \in T
      /\ \A n \in T : D[n] = {n} \cup D[u["left"][n]] \cup D[u["right"][n]]
      /\ \A n \in T, d \in Dir : u[d][n] # NULL => u[d][n] \in T
      /\ \A n \in T, d \in Dir : \A m \in D[u[d][n]] : Before(d, KeyOf[m], KeyOf[n])
      /\ D \in [Link -> SUBSET T]
  BY DEF Shaped
<1>2. PICK mu : Descending(u, mu)
  BY Acyclic
<1>3. u.root \in Link
  BY <1>1, LinkFacts
<1>4. Walk(u, NULL, k) = NULL
  BY <1>1, <1>2, WalkStep, LinkFacts
<1> DEFINE S == {n \in T : Finds(D, n, k, Walk(u, n, k))}
<1>5. ASSUME NEW n \in T, \A d \in Dir : u[d][n] # NULL => u[d][n] \in S PROVE n \in S
  <2>1. n \in Link /\ n # NULL /\ n \in Node
    BY <1>1, LinkFacts
  <2>2. CASE KeyOf[n] = k
    <3>1. Walk(u, n, k) = n
      BY <1>1, <1>2, <2>1, <2>2, WalkStep
    <3> QED BY <1>1, <2>2, <3>1 DEF Finds
  <2>3. CASE KeyOf[n] # k
    <3> DEFINE d == Way(n, k)
    <3>1. d \in Dir /\ (IF KeyOf[n] > k THEN u.left[n] ELSE u.right[n]) = u[d][n]
      BY <1>1, Ways
    <3>2. Walk(u, n, k) = Walk(u, u[d][n], k)
      BY <1>1, <1>2, <2>1, <2>3, <3>1, WalkStep
    <3>3. Finds(D, u[d][n], k, Walk(u, u[d][n], k))
      BY <1>1, <1>4, <1>5, <3>1 DEF Finds
    <3>4. KeyOf[n] \in Int /\ \A m \in T : KeyOf[m] \in Int
      BY <1>1, <2>1
    <3>5. Before(d, k, KeyOf[n])
      BY <2>3, <3>4 DEF Before, Way
    <3>6. D[n] = {n} \cup D[u[d][n]] \cup D[u[Opposite(d)][n]] /\ Opposite(d) \in Dir
      BY <3>1, Below, Dirs
    <3>7. \A m \in D[u[Opposite(d)][n]] : KeyOf[m] # k
      <4> TAKE m \in D[u[Opposite(d)][n]]
      <4>1. Before(Opposite(d), KeyOf[m], KeyOf[n])
        BY <1>1, <3>6
      <4>2. KeyOf[m] = k => ~Before(Opposite(d), KeyOf[m], KeyOf[n])
        BY <3>1, <3>4, <3>5, Order
      <4> QED BY <4>1, <4>2
    <3> HIDE DEF d
    <3> QED BY <2>3, <3>2, <3>3, <3>6, <3>7 DEF Finds
  <2> QED BY <2>2, <2>3
<1> HIDE DEF S
<1>6. T \subseteq S
  BY <1>5, TreeInduction
<1>7. \A n \in T : Finds(D, n, k, Walk(u, n, k))
  BY <1>6 DEF S
<1>8. Finds(D, u.root, k, Walk(u, u.root, k))
  BY <1>1, <1>4, <1>7 DEF Finds
<1> QED BY <1>7, <1>8

\* MaximumNode is the node with the greatest key below a node.
LEMMA MaximumIs ==
  ASSUME NEW u, NEW T, NEW D, NEW K, Shaped(u, T, D, K), NEW n \in T
  PROVE  LET x == MaximumNode(u, n)
         IN  /\ x \in D[n] /\ x \in T /\ u.right[x] = NULL
             /\ \A m \in D[n] : m = x \/ K[m] < K[x]
<1>1. /\ u \in Tree /\ T \in SUBSET Node /\ D[NULL] = {} /\ K \in [Node -> Int]
      /\ \A k \in T : D[k] = {k} \cup D[u["left"][k]] \cup D[u["right"][k]]
      /\ \A k \in T, d \in Dir : u[d][k] # NULL => u[d][k] \in T
      /\ \A k \in T, d \in Dir : \A m \in D[u[d][k]] : Before(d, K[m], K[k])
      /\ D \in [Link -> SUBSET T]
  BY DEF Shaped
<1>2. PICK mu : Descending(u, mu)
  BY Acyclic
<1>3. "left" \in Dir /\ "right" \in Dir
  BY DEF Dir
<1>4. u.left = u["left"] /\ u.right = u["right"]
  BY <1>1, <1>3, TreeFields
<1> DEFINE Is(k, x) == /\ x \in D[k] /\ u.right[x] = NULL
                       /\ \A m \in D[k] : m = x \/ K[m] < K[x]
           S == {k \in T : Is(k, MaximumNode(u, k))}
<1>5. ASSUME NEW k \in T, \A d \in Dir : u[d][k] # NULL => u[d][k] \in S PROVE k \in S
  <2>1. k \in Node /\ K[k] \in Int
    BY <1>1
  <2>2. \A m \in D[u.left[k]] : K[m] < K[k]
    BY <1>1, <1>3, <1>4 DEF Before
  <2>3. \A m \in D[u.right[k]] : K[k] < K[m]
    BY <1>1, <1>3, <1>4 DEF Before
  <2>4. MaximumNode(u, k) = IF u.right[k] = NULL THEN k ELSE MaximumNode(u, u.right[k])
    BY <1>1, <1>2, <2>1, MaximumStep
  <2>5. CASE u.right[k] = NULL
    BY <1>1, <1>4, <2>2, <2>3, <2>4, <2>5
  <2>6. CASE u.right[k] # NULL
    <3> DEFINE x == MaximumNode(u, k)
    <3>1. Is(u.right[k], x) /\ u.right[k] \in T
      BY <1>1, <1>3, <1>4, <1>5, <2>4, <2>6
    <3>2. D[k] = {k} \cup D[u.left[k]] \cup D[u.right[k]]
      BY <1>1, <1>4
    <3>3. \A m \in D[k] : K[m] \in Int
      BY <1>1, <2>1, LinkFacts
    <3> HIDE DEF x
    <3>4. x \in D[k] /\ K[x] \in Int
      BY <3>1, <3>2, <3>3
    <3>5. \A m \in D[k] : m = x \/ K[m] < K[x]
      <4> TAKE m \in D[k]
      <4>1. CASE m \in D[u.right[k]]
        BY <3>1, <4>1
      <4>2. CASE m = k
        BY <2>2, <2>3, <3>1, <4>2
      <4>3. CASE m \in D[u.left[k]]
        <5>1. K[m] \in Int
          BY <3>3
        <5> QED BY <2>1, <2>2, <2>3, <3>1, <3>4, <4>3, <5>1
      <4> QED BY <3>2, <4>1, <4>2, <4>3
    <3> QED BY <3>1, <3>4, <3>5 DEF x
  <2> QED BY <2>5, <2>6
<1> HIDE DEF S
<1>6. T \subseteq S
  BY <1>5, TreeInduction
<1>7. Is(n, MaximumNode(u, n)) /\ D[n] \in SUBSET T
  BY <1>1, <1>6, LinkFacts DEF S
<1> QED BY <1>7

\* MinimumNode is the node with the smallest key below a node.
LEMMA MinimumIs ==
  ASSUME NEW u, NEW T, NEW D, NEW K, Shaped(u, T, D, K), NEW n \in T
  PROVE  LET x == MinimumNode(u, n)
         IN  /\ x \in D[n] /\ x \in T /\ u.left[x] = NULL
             /\ \A m \in D[n] : m = x \/ K[x] < K[m]
<1>1. /\ u \in Tree /\ T \in SUBSET Node /\ D[NULL] = {} /\ K \in [Node -> Int]
      /\ \A k \in T : D[k] = {k} \cup D[u["left"][k]] \cup D[u["right"][k]]
      /\ \A k \in T, d \in Dir : u[d][k] # NULL => u[d][k] \in T
      /\ \A k \in T, d \in Dir : \A m \in D[u[d][k]] : Before(d, K[m], K[k])
      /\ D \in [Link -> SUBSET T]
  BY DEF Shaped
<1>2. PICK mu : Descending(u, mu)
  BY Acyclic
<1>3. "left" \in Dir /\ "right" \in Dir
  BY DEF Dir
<1>4. u.left = u["left"] /\ u.right = u["right"]
  BY <1>1, <1>3, TreeFields
<1> DEFINE Is(k, x) == /\ x \in D[k] /\ u.left[x] = NULL
                       /\ \A m \in D[k] : m = x \/ K[x] < K[m]
           S == {k \in T : Is(k, MinimumNode(u, k))}
<1>5. ASSUME NEW k \in T, \A d \in Dir : u[d][k] # NULL => u[d][k] \in S PROVE k \in S
  <2>1. k \in Node /\ K[k] \in Int
    BY <1>1
  <2>2. \A m \in D[u.left[k]] : K[m] < K[k]
    BY <1>1, <1>3, <1>4 DEF Before
  <2>3. \A m \in D[u.right[k]] : K[k] < K[m]
    BY <1>1, <1>3, <1>4 DEF Before
  <2>4. MinimumNode(u, k) = IF u.left[k] = NULL THEN k ELSE MinimumNode(u, u.left[k])
    BY <1>1, <1>2, <2>1, MinimumStep
  <2>5. CASE u.left[k] = NULL
    BY <1>1, <1>4, <2>2, <2>3, <2>4, <2>5
  <2>6. CASE u.left[k] # NULL
    <3> DEFINE x == MinimumNode(u, k)
    <3>1. Is(u.left[k], x) /\ u.left[k] \in T
      BY <1>1, <1>3, <1>4, <1>5, <2>4, <2>6
    <3>2. D[k] = {k} \cup D[u.left[k]] \cup D[u.right[k]]
      BY <1>1, <1>4
    <3>3. \A m \in D[k] : K[m] \in Int
      BY <1>1, <2>1, LinkFacts
    <3> HIDE DEF x
    <3>4. x \in D[k] /\ K[x] \in Int
      BY <3>1, <3>2, <3>3
    <3>5. \A m \in D[k] : m = x \/ K[x] < K[m]
      <4> TAKE m \in D[k]
      <4>1. CASE m \in D[u.left[k]]
        BY <3>1, <4>1
      <4>2. CASE m = k
        BY <2>2, <2>3, <3>1, <4>2
      <4>3. CASE m \in D[u.right[k]]
        <5>1. K[m] \in Int
          BY <3>3
        <5> QED BY <2>1, <2>2, <2>3, <3>1, <3>4, <4>3, <5>1
      <4> QED BY <3>2, <4>1, <4>2, <4>3
    <3> QED BY <3>1, <3>4, <3>5 DEF x
  <2> QED BY <2>5, <2>6
<1> HIDE DEF S
<1>6. T \subseteq S
  BY <1>5, TreeInduction
<1>7. Is(n, MinimumNode(u, n)) /\ D[n] \in SUBSET T
  BY <1>1, <1>6, LinkFacts DEF S
<1> QED BY <1>7

\* A node with key k would be in its place somewhere below m.
Fits(u, T, D, k, m) == \A a \in T, e \in Dir : m \in D[u[e][a]] => Before(e, k, KeyOf[a])

\* LastOnPath is where a new key belongs.
LEMMA LastFits ==
  ASSUME NEW u, NEW T, NEW D, Shaped(u, T, D, KeyOf), u.root # NULL, NEW k \in Int,
         \A m \in T : KeyOf[m] # k
  PROVE  LET p == LastOnPath(u, u.root, k)
         IN  p \in T /\ Way(p, k) \in Dir /\ u[Way(p, k)][p] = NULL /\ Fits(u, T, D, k, p)
<1>1. /\ u \in Tree /\ T \in SUBSET Node /\ KeyOf \in [Node -> Int] /\ u.root \in T
      /\ \A n \in T, d \in Dir : u[d][n] # NULL => u[d][n] \in T
  BY DEF Shaped
<1>2. PICK mu : Descending(u, mu)
  BY Acyclic
<1> DEFINE Is(p) == p \in T /\ u[Way(p, k)][p] = NULL /\ Fits(u, T, D, k, p)
           S == {n \in T : Fits(u, T, D, k, n) => Is(LastOnPath(u, n, k))}
<1>3. ASSUME NEW n \in T, \A d \in Dir : u[d][n] # NULL => u[d][n] \in S PROVE n \in S
  <2> DEFINE d == Way(n, k)
             c == u[d][n]
  <2>1. d \in Dir /\ n \in Node
    BY <1>1, Ways
  <2>2. LastOnPath(u, n, k) = IF c = NULL THEN n ELSE LastOnPath(u, c, k)
    BY <1>1, <1>2, <2>1, LastStep
  <2>3. CASE c = NULL
    BY <2>2, <2>3
  <2>4. CASE c # NULL
    <3>1. SUFFICES ASSUME Fits(u, T, D, k, n) PROVE Fits(u, T, D, k, c)
      BY <1>3, <2>1, <2>2, <2>4
    <3>2. KeyOf[n] \in Int /\ KeyOf[n] # k
      BY <1>1, <2>1
    <3>3. Before(d, k, KeyOf[n])
      BY <3>2 DEF Before, Way
    <3> SUFFICES ASSUME NEW a \in T, NEW e \in Dir, c \in D[u[e][a]]
                 PROVE  Before(e, k, KeyOf[a])
      BY DEF Fits
    <3>4. n \in D[u[e][a]] \/ (n = a /\ d = e)
      BY <2>1, <2>4, ChildBelow
    <3> QED BY <3>1, <3>3, <3>4 DEF Fits
  <2> QED BY <2>3, <2>4
<1> HIDE DEF S
<1>4. T \subseteq S
  BY <1>3, TreeInduction
<1>5. Fits(u, T, D, k, u.root)
  BY RootAbove DEF Fits
<1>6. Is(LastOnPath(u, u.root, k))
  BY <1>1, <1>4, <1>5 DEF S
<1> QED BY <1>1, <1>6, Ways

(***************************************************************************)
(* Colors.  B[m] is the number of black nodes on a path down from m, NULL  *)
(* included.                                                               *)
(***************************************************************************)
Heights == {B \in [Link -> Nat \ {0}] : B[NULL] = 1}

\* On its side d the node m has the right number of black nodes, and no red child if it is red.
\* A loose child, one in L, may be red, and lacks e black nodes.
FineSide(u, B, L, e, m, d) ==
  /\ B[m] = B[u[d][m]] + (IF u[d][m] \in L THEN e ELSE 0)
                       + (IF u.color[m] = "BLACK" THEN 1 ELSE 0)
  /\ (u.color[m] = "RED" /\ u[d][m] \notin L) => Color(u, u[d][m]) = "BLACK"

Fine(u, B, L, e, m) == \A d \in Dir : FineSide(u, B, L, e, m, d)

Colored(u, S, B, L, e) == B \in Heights /\ \A m \in S : Fine(u, B, L, e, m)

LEMMA HeightFacts ==
  ASSUME NEW B \in Heights, NEW m \in Link
  PROVE  B[m] \in Nat \ {0} /\ B[NULL] = 1 /\ B \in [Link -> Nat \ {0}]
  BY DEF Heights

\* Both sides of a node.
LEMMA FineSides ==
  ASSUME NEW u, NEW B, NEW L, NEW e, NEW m, NEW d \in Dir
  PROVE  Fine(u, B, L, e, m) <=>
           FineSide(u, B, L, e, m, d) /\ FineSide(u, B, L, e, m, Opposite(d))
  BY Dirs DEF Fine

LEMMA ColorFacts ==
  ASSUME NEW u \in Tree, NEW m \in Link
  PROVE  /\ Color(u, m) \in {"RED", "BLACK"} /\ "RED" # "BLACK"
         /\ m # NULL => Color(u, m) = u.color[m]
         /\ Color(u, m) = "RED" => m # NULL
  BY LinkFacts DEF Color, Tree, Coloring

\* New colors leave the shape alone.
LEMMA ColorsShaped ==
  ASSUME NEW u, NEW T, NEW D, NEW K, Shaped(u, T, D, K), NEW c \in Coloring
  PROVE  LET v == SetColors(u, c)
         IN  /\ Shaped(v, T, D, K) /\ v \in Tree /\ v.color = c /\ v.next = u.next
             /\ v.root = u.root /\ v.parent = u.parent /\ \A d \in Dir : v[d] = u[d]
<1> DEFINE v == SetColors(u, c)
<1>1. u \in Tree /\ "left" \in Dir /\ "right" \in Dir
  BY DEF Shaped, Dir
<1>2. /\ v \in Tree /\ v.parent = u.parent /\ \A d \in Dir : v[d] = u[d]
      /\ v.root = u.root /\ v.next = u.next /\ v.color = c
  BY <1>1, ColorsSet
<1> HIDE DEF v
<1>3. Shaped(v, T, D, K)
  BY <1>1, <1>2 DEF Shaped
<1> QED BY <1>2, <1>3 DEF v

\* c and C differ from the colors of u and from B in the nodes of X only.
SameBut(u, B, c, C, X) ==
  c \in Coloring /\ C \in Heights /\ \A k \in Node \ X : c[k] = u.color[k] /\ C[k] = B[k]

\* v is u with the colors c, rotated at n; r comes up, with b on its other side.
Pivot(u, T, D, K, n, d, r, b, c, v) ==
  /\ Shaped(u, T, D, K) /\ n \in T /\ d \in Dir /\ c \in Coloring
  /\ r = u[Opposite(d)][n] /\ r # NULL /\ b = u[Opposite(d)][r]
  /\ v = Rotate(SetColors(u, c), n, d)

\* L and M tell which nodes are loose before and after the rotation.
Loose(u, n, d, r, b, L, e, M, f) ==
  /\ n \notin L /\ r \notin M /\ NULL \notin L /\ NULL \notin M
  /\ \A k \in Node \ {n, r, b, u[d][n]} : (k \in L <=> k \in M) /\ (k \in L => e = f)

LEMMA PivotLinks ==
  ASSUME NEW u, NEW T, NEW D, NEW K, NEW n, NEW d, NEW r, NEW b, NEW c, NEW v,
         Pivot(u, T, D, K, n, d, r, b, c, v)
  PROVE  LET o == Opposite(d)
         IN  /\ v \in Tree /\ v.color = c /\ v.next = u.next /\ \E E : Shaped(v, T, E, K)
             /\ v.root = IF u.root = n THEN r ELSE u.root
             /\ v[o][n] = u[d][r] /\ v[d][r] = n /\ v[d][n] = u[d][n] /\ v[o][r] = b
             /\ \A m \in Node \ {n, r}, e \in Dir :
                  v[e][m] = IF u[e][m] = n THEN r ELSE u[e][m]
             /\ \A m \in Node : v.parent[m] = IF m = n THEN r
                                             ELSE IF m = r THEN u.parent[n]
                                             ELSE IF m = u[d][r] THEN n ELSE u.parent[m]
             /\ r \in T /\ n # r /\ u.parent[r] = n /\ b \in Link /\ u[d][r] \in Link
<1> DEFINE o == Opposite(d)
           w == SetColors(u, c)
<1>1. /\ Shaped(u, T, D, K) /\ n \in T /\ d \in Dir /\ c \in Coloring /\ o \in Dir
      /\ r = u[o][n] /\ r # NULL /\ b = u[o][r] /\ v = Rotate(w, n, d)
  BY Dirs DEF Pivot
<1>2. /\ Shaped(w, T, D, K) /\ w \in Tree /\ w.color = c /\ w.next = u.next
      /\ w.root = u.root /\ w.parent = u.parent /\ \A e \in Dir : w[e] = u[e]
  BY <1>1, ColorsShaped
<1> HIDE DEF w
<1>3. w[Opposite(d)][n] # NULL
  BY <1>1, <1>2
<1>4. \E E : Shaped(Rotate(w, n, d), T, E, K)
  BY <1>1, <1>2, <1>3, RotateShaped
<1>5. r \in T /\ n # r /\ u.parent[r] = n
  <2>1. u[o][n] \in T /\ u.parent[u[o][n]] = n
    BY ONLY <1>1 DEF Shaped
  <2>2. u[o][n] # n
    BY ONLY <1>1, Below
  <2> QED BY <1>1, <2>1, <2>2
<1>6. b \in Link /\ u[d][r] \in Link
  BY <1>1, <1>5, Below
<1>7. LET oo == Opposite(d)
          rr == w[oo][n]
          inner == w[d][rr]
      IN  /\ v \in Tree /\ v.color = w.color /\ v.next = w.next
          /\ v.root = IF w.root = n THEN rr ELSE w.root
          /\ v[oo][n] = inner /\ v[d][rr] = n /\ v[d][n] = w[d][n] /\ v[oo][rr] = w[oo][rr]
          /\ \A m \in Node \ {n, rr}, e \in Dir :
                  v[e][m] = IF w[e][m] = n THEN rr ELSE w[e][m]
          /\ \A m \in Node : v.parent[m] = IF m = n THEN rr
                                          ELSE IF m = rr THEN w.parent[n]
                                          ELSE IF m = inner THEN n ELSE w.parent[m]
  BY <1>1, <1>2, <1>3, Rotated
<1> QED BY <1>1, <1>2, <1>4, <1>5, <1>6, <1>7

\* Colors after a rotation, if they are right at the nodes that it moves.
LEMMA RotateColored ==
  ASSUME NEW u, NEW T, NEW D, NEW K, NEW n, NEW d, NEW r, NEW b, NEW c, NEW v,
         Pivot(u, T, D, K, n, d, r, b, c, v),
         NEW S \in SUBSET T, NEW B, NEW L, NEW e, Colored(u, S, B, L, e), n \in S,
         NEW M, NEW f, Loose(u, n, d, r, b, L, e, M, f),
         NEW X \in SUBSET {n, r, b}, NEW C, SameBut(u, B, c, C, X),
         C[r] = B[n], c[r] = "BLACK" \/ u.color[n] = "RED",
         Fine(v, C, M, f, n), Fine(v, C, M, f, r), b \in S \cap X => Fine(v, C, M, f, b)
  PROVE  Colored(v, S, C, M, f)
<1> DEFINE o == Opposite(d)
<1>1. /\ Shaped(u, T, D, K) /\ n \in T /\ d \in Dir /\ o \in Dir /\ Dir = {d, o}
      /\ r = u[o][n] /\ r # NULL /\ b = u[o][r] /\ r \in T
  BY PivotLinks, Dirs DEF Pivot
<1>2. /\ v \in Tree /\ v.color = c
      /\ \A m \in Node \ {n, r}, g \in Dir : v[g][m] = IF u[g][m] = n THEN r ELSE u[g][m]
  BY PivotLinks
<1>3. /\ u \in Tree /\ T \in SUBSET Node
      /\ \A m \in T, g \in Dir : u[g][m] # NULL => u[g][m] \in T /\ u.parent[u[g][m]] = m
  BY <1>1 DEF Shaped
<1>4. /\ c \in Coloring /\ C \in Heights /\ \A k \in Node \ X : c[k] = u.color[k] /\ C[k] = B[k]
      /\ B \in Heights
  BY DEF SameBut, Colored
<1>5. /\ n \notin L /\ r \notin M /\ NULL \notin L /\ NULL \notin M
      /\ \A k \in Node \ {n, r, b, u[d][n]} : (k \in L <=> k \in M) /\ (k \in L => e = f)
  BY DEF Loose
<1>6. ASSUME NEW m \in S, m # n, m # r, b \in X => m # b PROVE Fine(v, C, M, f, m)
  <2> SUFFICES ASSUME NEW g \in Dir PROVE FineSide(v, C, M, f, m, g)
    BY DEF Fine
  <2> DEFINE x == u[g][m]
  <2>1. FineSide(u, B, L, e, m, g) /\ m \in T /\ m \in Node
    BY <1>3 DEF Colored, Fine
  <2>2. v[g][m] = IF x = n THEN r ELSE x
    BY <1>2, <1>6, <2>1
  <2>3. m \notin X
    BY <1>6
  <2>4. C[m] = B[m] /\ c[m] = u.color[m]
    BY <1>4, <2>1, <2>3
  <2>5. x # NULL => x \in Node /\ u.parent[x] = m
    BY <1>3, <2>1
  <2>6. CASE x = n
    <3>1. n # NULL /\ r \notin M /\ n \notin L /\ x \notin L /\ v[g][m] = r
      BY <1>1, <1>3, <1>5, <2>2, <2>6, LinkFacts
    <3>2. c[m] = "RED" => c[r] = "BLACK"
      BY <2>1, <2>4, <2>6, <3>1 DEF FineSide, Color
    <3> QED BY <1>1, <1>2, <2>1, <2>4, <2>6, <3>1, <3>2 DEF FineSide, Color
  <2>7. CASE x # n /\ x = NULL
    <3>1. C[NULL] = 1 /\ B[NULL] = 1
      BY <1>4, HeightFacts, LinkFacts
    <3> QED BY <1>2, <1>5, <2>1, <2>2, <2>4, <2>7, <3>1 DEF FineSide, Color
  <2>8. CASE x # n /\ x # NULL
    <3>1. u.parent[r] = n /\ (b # NULL => u.parent[b] = r)
              /\ (u[d][n] # NULL => u.parent[u[d][n]] = n)
      BY <1>1, <1>3
    <3>2. x \in Node \ {n, r, b, u[d][n]} /\ x \notin X /\ v[g][m] = x
      BY <1>6, <2>2, <2>5, <2>8, <3>1
    <3>3. (x \in L <=> x \in M) /\ (x \in L => e = f) /\ C[x] = B[x] /\ c[x] = u.color[x]
      BY <1>4, <1>5, <3>2
    <3> QED BY <1>2, <2>1, <2>4, <2>8, <3>2, <3>3 DEF FineSide, Color
  <2> QED BY <2>6, <2>7, <2>8
<1>7. \A m \in S : Fine(v, C, M, f, m)
  BY <1>6
<1> QED BY <1>4, <1>7 DEF Colored

(***************************************************************************)
(* Insertion.                                                              *)
(***************************************************************************)
\* A red-black tree, apart from the colors of the nodes that are not in S.
Balanced(u, T, D, K, S, B) ==
  /\ Shaped(u, T, D, K) /\ S \subseteq T /\ Colored(u, S, B, {}, 0)
  /\ u.root \in S => u.color[u.root] = "BLACK"

\* A red-black tree, apart from the red node n, whose parent may be red.
Inserting(u, T, D, K, B, n) ==
  /\ Shaped(u, T, D, K) /\ n \in T /\ Colored(u, T, B, {n}, 0) /\ u.color[n] = "RED"
  /\ u.root # NULL /\ u.root # n => u.color[u.root] = "BLACK"

\* The parent is red.
Clash(u, T, D, K, B, n) ==
  Inserting(u, T, D, K, B, n) /\ u.parent[n] # NULL /\ u.color[u.parent[n]] = "RED"

LEMMA ClashFacts ==
  ASSUME NEW u, NEW T, NEW D, NEW K, NEW B, NEW n, Clash(u, T, D, K, B, n)
  PROVE  LET p == u.parent[n]
             g == u.parent[p]
             s == Side(u, n)
             d == Side(u, p)
         IN  /\ s \in Dir /\ d \in Dir /\ n \in T /\ p \in T /\ g \in T /\ g # NULL /\ u \in Tree
             /\ T \in SUBSET Node /\ u[s][p] = n /\ u[d][g] = p
             /\ n # p /\ n # g /\ p # g /\ u.root # p /\ u.root \in T
             /\ Sibling(u, p) = u[Opposite(d)][g]
             /\ Uncle(u, n) = u[Opposite(d)][g] /\ u.color[g] = "BLACK" /\ u.color[n] = "RED"
             /\ u[Opposite(d)][g] # n /\ u[Opposite(d)][g] # p /\ u[Opposite(s)][p] # n
             /\ u[Opposite(d)][g] \in Link /\ u[Opposite(s)][p] \in Link
             /\ B \in Heights /\ B[g] = B[p] + 1 /\ B[g] = B[u[Opposite(d)][g]] + 1
             /\ B[p] = B[n] /\ B[p] = B[u[Opposite(s)][p]]
             /\ Color(u, u[Opposite(s)][p]) = "BLACK"
             /\ \A e \in Dir : B[n] = B[u[e][n]] /\ Color(u, u[e][n]) = "BLACK" /\ u[e][n] \in Link
                               /\ u[e][n] # n
<1> DEFINE p == u.parent[n]
           g == u.parent[p]
           s == Side(u, n)
           d == Side(u, p)
           x == u[Opposite(d)][g]
           y == u[Opposite(s)][p]
<1>1. /\ Shaped(u, T, D, K) /\ n \in T /\ Colored(u, T, B, {n}, 0) /\ u.color[n] = "RED"
      /\ u.root # NULL /\ u.root # n => u.color[u.root] = "BLACK"
      /\ p # NULL /\ u.color[p] = "RED"
  BY DEF Clash, Inserting
<1>2. /\ u \in Tree /\ T \in SUBSET Node /\ n # NULL /\ D[u.root] = T /\ D[NULL] = {}
      /\ u.root # NULL => u.parent[u.root] = NULL /\ u.root \in T
      /\ \A m \in T : u.parent[m] = NULL => m = u.root
  BY <1>1, LinkFacts DEF Shaped
<1>3. "left" \in Dir
  BY DEF Dir
<1>4. p \in T /\ s \in Dir /\ u[s][p] = n /\ Opposite(s) \in Dir
  BY <1>1, <1>2, <1>3, OneParent, Dirs
<1>5. p # NULL /\ u.root # NULL
  BY <1>1, <1>2, LinkFacts
<1>6. g # NULL
  <2>1. n # u.root
    BY <1>1, <1>2, <1>5
  <2>2. u.root # p
    BY <1>1, <1>5, <2>1
  <2> QED BY <1>2, <1>4, <2>2
<1>7. g \in T /\ d \in Dir /\ u[d][g] = p /\ Sibling(u, p) = x /\ Opposite(d) \in Dir
  BY <1>1, <1>2, <1>3, <1>4, <1>6, OneParent, Dirs
<1>8. n # p /\ y # n /\ y \in Link
  BY <1>1, <1>2, <1>4, Below
<1>9. p # g /\ x # p /\ x \in Link
  BY <1>1, <1>5, <1>7, Below
<1>10. n # g /\ x # n
  <2>1. n \in D[p] /\ g \notin D[p]
    <3>1. n \in D[u[s][p]] /\ D[u[s][p]] \subseteq D[p] /\ D[u[d][g]] = D[p] /\ g \notin D[u[d][g]]
      BY <1>1, <1>2, <1>4, <1>5, <1>7, Below
    <3> QED BY <3>1
  <2>2. x = n => u.parent[n] = g
    BY <1>1, <1>2, <1>7 DEF Shaped
  <2> QED BY <1>9, <2>1, <2>2
<1>11. \A m \in T, e \in Dir : FineSide(u, B, {n}, 0, m, e)
  BY <1>1 DEF Colored, Fine
<1>12. u.color[g] = "BLACK"
  <2>1. u.color[g] = "RED" => Color(u, p) = "BLACK"
    BY <1>7, <1>8, <1>11 DEF FineSide
  <2>2. g \in Link /\ Color(u, g) = u.color[g] /\ Color(u, p) = u.color[p]
    BY <1>2, <1>5, <1>6, <1>7, LinkFacts DEF Color
  <2> QED BY <1>1, <1>2, <2>1, <2>2, ColorFacts
<1>13. B \in Heights
  BY <1>1 DEF Colored
<1>14. \A m \in Link : B[m] \in Nat
  BY <1>13, HeightFacts
<1>15. \A m \in T, e \in Dir : u[e][m] \in Link /\ m \in Link /\ u[e][m] # m
  BY <1>1, <1>2, Below, LinkFacts
<1> HIDE DEF p, g, s, d, x, y
<1>16. B[g] = B[p] + 1 /\ B[g] = B[x] + 1
  BY <1>7, <1>8, <1>10, <1>11, <1>12, <1>14, <1>15 DEF FineSide, x
<1>17. B[p] = B[n] /\ B[p] = B[y] /\ Color(u, y) = "BLACK"
  BY <1>1, <1>4, <1>8, <1>11, <1>14, <1>15 DEF FineSide, y
<1>18. \A e \in Dir : B[n] = B[u[e][n]] /\ Color(u, u[e][n]) = "BLACK" /\ u[e][n] \in Link
                      /\ u[e][n] # n
  BY <1>1, <1>11, <1>14, <1>15 DEF FineSide
<1>19. u.root # p /\ u.root \in T /\ Uncle(u, n) = x
  BY <1>2, <1>5, <1>6, <1>7 DEF Uncle, g, p
<1> QED BY <1>1, <1>2, <1>4, <1>6, <1>7, <1>8, <1>9, <1>10, <1>12, <1>13, <1>16, <1>17, <1>18, <1>19
        DEF p, g, s, d, x, y

\* The last rotation, with the node and its parent on the same side.
LEMMA InsertCase5Sound ==
  ASSUME NEW u, NEW T, NEW D, NEW K, NEW B, NEW n, Clash(u, T, D, K, B, n),
         Side(u, n) = Side(u, u.parent[n]), Color(u, Uncle(u, n)) = "BLACK"
  PROVE  /\ \E E, C : Balanced(InsertCase5(u, n), T, E, K, T, C)
         /\ InsertCase5(u, n).next = u.next
<1> DEFINE p == u.parent[n]
           g == u.parent[p]
           d == Side(u, p)
           o == Opposite(d)
           x == u[o][g]
           y == u[o][p]
           c == [u.color EXCEPT ![p] = "BLACK", ![g] = "RED"]
           C == [B EXCEPT ![p] = B[g], ![g] = B[p]]
           v == Rotate(SetColors(u, c), g, o)
<1>1. /\ d \in Dir /\ n \in T /\ p \in T /\ g \in T /\ g # NULL /\ u \in Tree
      /\ T \in SUBSET Node /\ u[d][p] = n /\ u[d][g] = p
      /\ n # p /\ n # g /\ p # g /\ u.root # p /\ u.root \in T
      /\ Uncle(u, n) = x /\ u.color[g] = "BLACK"
      /\ x # n /\ x # p /\ y # n /\ x \in Link /\ y \in Link
      /\ B \in Heights /\ B[g] = B[p] + 1 /\ B[g] = B[x] + 1 /\ B[p] = B[n] /\ B[p] = B[y]
      /\ Color(u, y) = "BLACK"
  BY ClashFacts
<1>2. /\ Shaped(u, T, D, K) /\ Colored(u, T, B, {n}, 0)
      /\ u.root # NULL /\ u.root # n => u.color[u.root] = "BLACK"
      /\ u.color[p] = "RED" /\ p # NULL
      /\ Color(u, x) = "BLACK"
  BY <1>1 DEF Clash, Inserting
<1>3. o \in Dir /\ Opposite(o) = d /\ Dir = {d, o} /\ o # d
  BY <1>1, Dirs
<1>4. InsertCase5(u, n) = v
  <2>1. u.left = u["left"] /\ u.right = u["right"]
    BY <1>1, TreeFields
  <2>2. [u EXCEPT !.color[p] = "BLACK", !.color[g] = "RED"] = SetColors(u, c)
    BY <1>1 DEF SetColors, Tree
  <2>3. SetColors(u, c).left = u.left
    BY <1>1 DEF SetColors, Tree
  <2>4. (IF n = u.left[p] /\ p = u.left[g] THEN "right" ELSE "left") = o
    BY <1>1, <1>3, <2>1 DEF Opposite, Dir
  <2> QED BY <2>2, <2>3, <2>4 DEF InsertCase5
<1>21. p = u.parent[n] /\ g = u.parent[p] /\ x = u[o][g] /\ y = u[o][p]
  OBVIOUS
<1> HIDE DEF p, g, d, o, x, y
<1>5. u.color \in Coloring /\ c \in Coloring
  BY <1>21, <1>1 DEF Tree, Coloring
<1>6. /\ c[p] = "BLACK" /\ c[g] = "RED" /\ \A k \in Node : k # p /\ k # g => c[k] = u.color[k]
      /\ p \in Node /\ g \in Node /\ n \in Node
  BY <1>21, <1>1, <1>5 DEF Coloring
<1> HIDE DEF c
<1>7. B \in [Link -> Nat \ {0}] /\ B[NULL] = 1 /\ p \in Link /\ g \in Link /\ n \in Link
  BY <1>21, <1>1, HeightFacts, LinkFacts
<1>8. /\ C \in [Link -> Nat \ {0}] /\ C[p] = B[g] /\ C[g] = B[p]
      /\ \A k \in Link : k # p /\ k # g => C[k] = B[k]
  BY <1>21, <1>1, <1>7
<1> HIDE DEF C
<1>9. C \in Heights
  BY <1>21, <1>1, <1>2, <1>7, <1>8, LinkFacts DEF Heights
<1>10. Pivot(u, T, D, K, g, o, p, n, c, v)
  BY <1>21, <1>1, <1>2, <1>3, <1>5 DEF Pivot
<1> HIDE DEF v
<1>11. /\ v \in Tree /\ v.color = c /\ v.next = u.next /\ \E E : Shaped(v, T, E, K)
       /\ v.root = IF u.root = g THEN p ELSE u.root
       /\ v[d][g] = y /\ v[o][p] = g /\ v[o][g] = x /\ v[d][p] = n
  BY <1>21, <1>3, <1>10, PivotLinks
<1>12. SameBut(u, B, c, C, {g, p})
  BY <1>21, <1>5, <1>6, <1>8, <1>9, LinkFacts DEF SameBut
<1>13. Loose(u, g, o, p, n, {n}, 0, {}, 0)
  BY <1>21, <1>1, LinkFacts DEF Loose
<1>14. x # g /\ y # g /\ y # p
  <2>1. x # g /\ y # p
    <3>1. Shaped(u, T, D, K) /\ p \in T /\ g \in T /\ o \in Dir /\ p # NULL /\ g # NULL
      BY <1>1, <1>2, <1>3
    <3>2. u[o][g] # NULL => u[o][g] # g
      BY ONLY <3>1, Below
    <3>3. u[o][p] # NULL => u[o][p] # p
      BY ONLY <3>1, Below
    <3> QED BY <1>21, <3>1, <3>2, <3>3
  <2>2. y # g
    <3>1. y \in D[p] \/ y = NULL
      <4>0. Shaped(u, T, D, K) /\ p \in T /\ o \in Dir
        BY <1>1, <1>2, <1>3
      <4>1. /\ D[p] = {p} \cup D[u[o][p]] \cup D[u[Opposite(o)][p]]
            /\ u[o][p] # NULL => u[o][p] \in D[u[o][p]]
        BY ONLY <4>0, Below
      <4> QED BY <1>21, <4>1
    <3>2. g \notin D[p]
      <4>1. Shaped(u, T, D, K) /\ g \in T /\ d \in Dir
        BY <1>1, <1>2
      <4>2. g \notin D[u[d][g]]
        BY ONLY <4>1, Below
      <4> QED BY <1>1, <4>2
    <3> QED BY <1>21, <1>1, <3>1, <3>2
  <2> QED BY <2>1, <2>2
<1>15. C[x] = B[x] /\ C[y] = B[y] /\ C[n] = B[n]
  BY <1>21, <1>1, <1>7, <1>8, <1>14
<1>16. Color(v, x) = "BLACK" /\ Color(v, y) = "BLACK"
  BY <1>21, <1>1, <1>2, <1>6, <1>11, <1>14, LinkFacts DEF Color
<1>17. Fine(v, C, {}, 0, g)
  <2>1. v.color[g] = "RED" /\ v[d][g] = y /\ v[o][g] = x
    BY <1>6, <1>11
  <2>2. C[g] = C[y] /\ C[g] = C[x] /\ C[g] \in Nat
    BY <1>1, <1>7, <1>8, <1>15
  <2>3. FineSide(v, C, {}, 0, g, d) /\ FineSide(v, C, {}, 0, g, o)
    BY ONLY <1>16, <2>1, <2>2 DEF FineSide
  <2> QED BY <1>3, <2>3 DEF Fine
<1>18. Fine(v, C, {}, 0, p)
  <2>1. v.color[p] = "BLACK" /\ v[d][p] = n /\ v[o][p] = g
    BY <1>6, <1>11
  <2>2. C[p] = C[n] + 1 /\ C[p] = C[g] + 1 /\ C[n] \in Nat /\ C[g] \in Nat
    BY <1>1, <1>7, <1>8, <1>15
  <2>3. FineSide(v, C, {}, 0, p, d) /\ FineSide(v, C, {}, 0, p, o)
    BY ONLY <2>1, <2>2 DEF FineSide
  <2> QED BY <1>3, <2>3 DEF Fine
<1>19. Colored(v, T, C, {}, 0)
  <2>1. T \in SUBSET T /\ {g, p} \in SUBSET {g, p, n}
    OBVIOUS
  <2>2. n \in T \cap {g, p} => Fine(v, C, {}, 0, n)
    BY <1>21, <1>1
  <2>3. C[p] = B[g] /\ (c[p] = "BLACK" \/ u.color[g] = "RED")
    BY <1>21, <1>6, <1>8
  <2> QED BY ONLY <1>21, <1>1, <1>2, <1>10, <1>12, <1>13, <1>17, <1>18, <2>1, <2>2, <2>3,
           RotateColored
<1>20. v.color[v.root] = "BLACK"
  <2>1. u.root # NULL /\ u.root \in Node
    BY <1>21, <1>1, LinkFacts
  <2>2. u.root # n
    <3>1. u.parent[u.root] = NULL
      BY <1>21, <1>2, <2>1 DEF Shaped
    <3> QED BY <1>21, <1>2, <3>1
  <2> QED BY <1>21, <1>1, <1>2, <1>6, <1>11, <2>1, <2>2
<1> QED BY <1>21, <1>1, <1>4, <1>11, <1>19, <1>20 DEF Balanced

\* The rotation that brings an inner node to the outer side.
LEMMA InsertCase4Turn ==
  ASSUME NEW u, NEW T, NEW D, NEW K, NEW B, NEW n, Clash(u, T, D, K, B, n),
         Side(u, n) # Side(u, u.parent[n]), Color(u, Uncle(u, n)) = "BLACK",
         NEW v, v = Rotate(u, u.parent[n], Side(u, u.parent[n]))
  PROVE  /\ \E E : Clash(v, T, E, K, B, u.parent[n])
         /\ Side(v, u.parent[n]) = Side(v, v.parent[u.parent[n]])
         /\ Color(v, Uncle(v, u.parent[n])) = "BLACK" /\ v.next = u.next
<1> DEFINE p == u.parent[n]
           g == u.parent[p]
           d == Side(u, p)
           o == Opposite(d)
           x == u[o][g]
           y == u[d][p]
           b == u[o][n]
<1>1. /\ d \in Dir /\ n \in T /\ p \in T /\ g \in T /\ g # NULL /\ u \in Tree
      /\ T \in SUBSET Node /\ u[d][g] = p
      /\ n # p /\ n # g /\ p # g /\ u.root # p /\ u.root \in T
      /\ Uncle(u, n) = x /\ u.color[g] = "BLACK" /\ u.color[n] = "RED"
      /\ x # n /\ x # p /\ x \in Link /\ B \in Heights /\ B[p] = B[n]
      /\ \A e \in Dir : B[n] = B[u[e][n]] /\ Color(u, u[e][n]) = "BLACK" /\ u[e][n] \in Link
                        /\ u[e][n] # n
  BY ClashFacts
<1>2. /\ Shaped(u, T, D, K) /\ Colored(u, T, B, {n}, 0)
      /\ u.root # NULL /\ u.root # n => u.color[u.root] = "BLACK"
      /\ u.color[p] = "RED" /\ p # NULL
      /\ Color(u, x) = "BLACK"
  BY <1>1 DEF Clash, Inserting
<1>3. o \in Dir /\ Opposite(o) = d /\ Dir = {d, o} /\ o # d
  BY <1>1, Dirs
<1>4. u[o][p] = n /\ y # n /\ B[p] = B[y] /\ Color(u, y) = "BLACK" /\ y \in Link
  <2>1. Side(u, n) \in Dir /\ Side(u, n) # d
    BY ClashFacts
  <2>2. Side(u, n) = o
    BY <1>3, <2>1
  <2>3. u[Side(u, n)][p] = n /\ u[Opposite(Side(u, n))][p] # n
            /\ B[p] = B[u[Opposite(Side(u, n))][p]]
        /\ Color(u, u[Opposite(Side(u, n))][p]) = "BLACK" /\ u[Opposite(Side(u, n))][p] \in Link
    BY ClashFacts
  <2> QED BY <1>3, <2>2, <2>3
<1>23. p = u.parent[n] /\ g = u.parent[p] /\ x = u[o][g] /\ y = u[d][p] /\ b = u[o][n]
       /\ d = Side(u, p) /\ o = Opposite(d) /\ v = Rotate(u, p, d)
  OBVIOUS
<1> HIDE DEF p, g, d, o, x, y, b
<1>5. u.color \in Coloring /\ SetColors(u, u.color) = u
  BY <1>23, <1>1 DEF Tree, SetColors
<1>6. Pivot(u, T, D, K, p, d, n, b, u.color, v)
  BY <1>23, <1>1, <1>2, <1>3, <1>4, <1>5, LinkFacts DEF Pivot
<1>7. /\ v \in Tree /\ v.color = u.color /\ v.next = u.next /\ \E E : Shaped(v, T, E, K)
      /\ v.root = IF u.root = p THEN n ELSE u.root
      /\ v[o][p] = u[d][n] /\ v[d][n] = p /\ v[d][p] = y /\ v[o][n] = b
      /\ \A m \in Node \ {p, n}, e \in Dir : v[e][m] = IF u[e][m] = p THEN n ELSE u[e][m]
      /\ \A m \in Node : v.parent[m] = IF m = p THEN n
                                      ELSE IF m = n THEN u.parent[p]
                                      ELSE IF m = u[d][n] THEN p ELSE u.parent[m]
  BY <1>23, <1>6, PivotLinks
<1>8. SameBut(u, B, u.color, B, {})
  BY <1>23, <1>1, <1>5 DEF SameBut
<1>9. Loose(u, p, d, n, b, {n}, 0, {p}, 0)
  BY <1>23, <1>1, LinkFacts DEF Loose
<1>10. y # p /\ u[d][n] # p /\ b # p
  <2>1. y # p
    <3>1. Shaped(u, T, D, K) /\ p \in T /\ d \in Dir /\ p # NULL
      BY <1>1, <1>2
    <3>2. u[d][p] # NULL => u[d][p] # p
      BY ONLY <3>1, Below
    <3> QED BY <1>23, <3>1, <3>2
  <2>2. p \notin D[n] /\ \A e \in Dir : u[e][n] # NULL => u[e][n] \in D[n]
    <3>1. p \notin D[n]
      <4>0. Shaped(u, T, D, K) /\ p \in T /\ o \in Dir
        BY <1>1, <1>2, <1>3
      <4>1. p \notin D[u[o][p]]
        BY ONLY <4>0, Below
      <4> QED BY <1>23, <1>4, <4>1
    <3>2. \A e \in Dir : u[e][n] # NULL => u[e][n] \in D[n]
      <4> TAKE e \in Dir
      <4>1. Shaped(u, T, D, K) /\ n \in T
        BY <1>1, <1>2
      <4>2. /\ D[n] = {n} \cup D[u[e][n]] \cup D[u[Opposite(e)][n]]
            /\ u[e][n] # NULL => u[e][n] \in D[u[e][n]]
        BY ONLY <4>1, Below
      <4> QED BY ONLY <4>2
    <3> QED BY <1>23, <3>1, <3>2
  <2> QED BY <1>23, <1>1, <1>2, <1>3, <2>1, <2>2
<1>11. \A m \in Link : B[m] \in Nat /\ Color(v, m) = Color(u, m)
  BY <1>23, <1>1, <1>7, HeightFacts DEF Color
<1>12. p \in Link /\ n \in Link
  BY <1>23, <1>1, LinkFacts
<1>13. Fine(v, B, {p}, 0, p)
  <2>2. /\ B[u[d][n]] = B[n] /\ Color(v, u[d][n]) = "BLACK"
        /\ B[y] = B[p] /\ Color(v, y) = "BLACK" /\ B[p] \in Nat
    BY <1>1, <1>4, <1>11, <1>12
  <2>1. FineSide(v, B, {p}, 0, p, d) /\ FineSide(v, B, {p}, 0, p, o)
    BY <1>1, <1>2, <1>7, <1>10, <2>2 DEF FineSide
  <2> QED BY <1>23, <1>3, <2>1 DEF Fine
<1>14. Fine(v, B, {p}, 0, n)
  <2>2. B[b] = B[n] /\ Color(v, b) = "BLACK" /\ B[n] \in Nat /\ B[p] = B[n]
    BY <1>1, <1>3, <1>11, <1>12, <1>23
  <2>1. FineSide(v, B, {p}, 0, n, d) /\ FineSide(v, B, {p}, 0, n, o)
    BY <1>1, <1>2, <1>7, <1>10, <2>2 DEF FineSide
  <2> QED BY <1>23, <1>3, <2>1 DEF Fine
<1>15. Colored(v, T, B, {p}, 0)
  <2>1. T \in SUBSET T /\ {} \in SUBSET {p, n, b}
    OBVIOUS
  <2>2. b \in T \cap {} => Fine(v, B, {p}, 0, b)
    OBVIOUS
  <2>3. u.color[n] = "BLACK" \/ u.color[p] = "RED"
    BY <1>23, <1>2
  <2>4. B[n] = B[p]
    BY <1>1
  <2> QED BY ONLY <1>1, <1>2, <1>6, <1>8, <1>9, <1>13, <1>14, <2>1, <2>2, <2>3, <2>4, RotateColored
<1>16. v.root # NULL /\ v.root # p => v.color[v.root] = "BLACK"
  <2>1. u.root # n
    <3>1. u.parent[u.root] = NULL
      BY <1>23, <1>1, <1>2, LinkFacts DEF Shaped
    <3> QED BY <1>23, <1>2, <3>1
  <2> QED BY <1>23, <1>1, <1>2, <1>7, <2>1
<1>17. v.parent[p] = n /\ n # NULL /\ v.parent[n] = g /\ n \in Node /\ p \in Node /\ g \in Node
  BY <1>23, <1>1, <1>7, LinkFacts
<1>18. \E E : Clash(v, T, E, K, B, p)
  BY <1>23, <1>1, <1>2, <1>7, <1>15, <1>16, <1>17 DEF Clash, Inserting
<1>19. PICK E : Shaped(v, T, E, K)
  BY <1>23, <1>7
<1>20. v[d][g] = n /\ v[o][g] = x
  BY <1>23, <1>1, <1>3, <1>7, <1>17
<1>21. Side(v, p) = d /\ Side(v, n) = d
  <2>1. v.parent[p] # NULL /\ v[d][n] = p /\ v.parent[n] # NULL /\ v[d][g] = n
    BY <1>23, <1>1, <1>7, <1>17, <1>20
  <2> QED BY <1>23, <1>1, <1>17, <1>19, <2>1, OneParent
<1>22. Uncle(v, p) = x
  <2>1. Uncle(v, p) = v[Opposite(d)][g]
    BY <1>23, <1>17, <1>21 DEF Uncle, Sibling
  <2> QED BY <1>23, <1>20, <2>1
<1> QED BY <1>23, <1>1, <1>2, <1>7, <1>11, <1>17, <1>18, <1>21, <1>22

\* Cases 4 and 5 make a red-black tree.
LEMMA InsertCase4Sound ==
  ASSUME NEW u, NEW T, NEW D, NEW K, NEW B, NEW n, Clash(u, T, D, K, B, n),
         Color(u, Uncle(u, n)) = "BLACK"
  PROVE  /\ \E E, C : Balanced(InsertCase4(u, n), T, E, K, T, C)
         /\ InsertCase4(u, n).next = u.next
<1> DEFINE p == u.parent[n]
           v == Rotate(u, p, Side(u, p))
<1>1. CASE Side(u, n) # Side(u, p)
  <2>1. /\ \E E : Clash(v, T, E, K, B, p)
        /\ Side(v, p) = Side(v, v.parent[p])
        /\ Color(v, Uncle(v, p)) = "BLACK" /\ v.next = u.next
    BY <1>1, InsertCase4Turn
  <2>2. InsertCase4(u, n) = InsertCase5(v, p)
    BY <1>1 DEF InsertCase4
  <2> HIDE DEF v, p
  <2>3. PICK F : Clash(v, T, F, K, B, p)
    BY <2>1
  <2> QED BY <2>1, <2>2, <2>3, InsertCase5Sound
<1>2. CASE Side(u, n) = Side(u, p)
  <2>1. InsertCase4(u, n) = InsertCase5(u, n)
    BY <1>2 DEF InsertCase4
  <2> QED BY <1>2, <2>1, InsertCase5Sound
<1> QED BY <1>1, <1>2

\* insert_case1 at the root.
LEMMA InsertTop ==
  ASSUME NEW u, NEW T, NEW D, NEW K, NEW B, NEW n, Inserting(u, T, D, K, B, n),
         u.parent[n] = NULL
  PROVE  \E C : Balanced(SetColors(u, [u.color EXCEPT ![n] = "BLACK"]), T, D, K, T, C)
<1> DEFINE c == [u.color EXCEPT ![n] = "BLACK"]
           C == [B EXCEPT ![n] = B[n] + 1]
           v == SetColors(u, c)
<1>1. /\ Shaped(u, T, D, K) /\ n \in T /\ Colored(u, T, B, {n}, 0) /\ u.color[n] = "RED"
  BY DEF Inserting
<1>2. /\ u \in Tree /\ T \in SUBSET Node /\ n \in Node /\ n \in Link /\ n # NULL /\ u.root = n
      /\ \A m \in T, d \in Dir : u[d][m] # NULL => u.parent[u[d][m]] = m /\ u[d][m] \in T
  BY <1>1, LinkFacts DEF Shaped
<1>3. u.color \in Coloring /\ c \in Coloring /\ B \in Heights
  BY <1>1, <1>2 DEF Tree, Coloring, Colored
<1>4. /\ Shaped(v, T, D, K) /\ v.color = c /\ v.root = u.root /\ \A d \in Dir : v[d] = u[d]
  BY <1>1, <1>3, ColorsShaped
<1>5. c[n] = "BLACK" /\ \A k \in Node : k # n => c[k] = u.color[k]
  BY <1>2, <1>3 DEF Coloring
<1> HIDE DEF v, c
<1>6. /\ B \in [Link -> Nat \ {0}] /\ B[NULL] = 1
      /\ C \in [Link -> Nat \ {0}] /\ C[n] = B[n] + 1 /\ \A k \in Link : k # n => C[k] = B[k]
  BY <1>2, <1>3, HeightFacts
<1> HIDE DEF C
<1>7. C \in Heights
  BY <1>2, <1>6, LinkFacts DEF Heights
<1>8. ASSUME NEW m \in T, NEW d \in Dir PROVE FineSide(v, C, {}, 0, m, d)
  <2>1. FineSide(u, B, {n}, 0, m, d) /\ m \in Node /\ m \in Link /\ u[d][m] \in Link
        /\ FineSide(u, B, {n}, 0, n, d)
    BY <1>1, <1>2, Below, LinkFacts DEF Colored, Fine
  <2>2. u[d][m] # n
    BY <1>1, <1>2, LinkFacts
  <2>3. C[u[d][m]] = B[u[d][m]] /\ Color(v, u[d][m]) = Color(u, u[d][m]) /\ v[d][m] = u[d][m]
    BY <1>4, <1>5, <1>6, <2>1, <2>2, LinkFacts DEF Color
  <2>4. B[m] \in Nat /\ B[u[d][m]] \in Nat
    BY <1>6, <2>1
  <2>5. CASE m = n
    BY <1>1, <1>4, <1>5, <1>6, <2>1, <2>2, <2>3, <2>4, <2>5 DEF FineSide
  <2>6. CASE m # n
    BY <1>4, <1>5, <1>6, <2>1, <2>2, <2>3, <2>4, <2>6 DEF FineSide
  <2> QED BY <2>5, <2>6
<1>9. Colored(v, T, C, {}, 0)
  BY <1>7, <1>8 DEF Colored, Fine
<1>10. v.color[v.root] = "BLACK"
  BY <1>2, <1>4, <1>5
<1>11. Balanced(v, T, D, K, T, C)
  BY <1>4, <1>9, <1>10 DEF Balanced
<1> QED BY <1>11 DEF v, c

\* insert_case2: the parent is black.
LEMMA InsertBlack ==
  ASSUME NEW u, NEW T, NEW D, NEW K, NEW B, NEW n, Inserting(u, T, D, K, B, n),
         u.parent[n] # NULL, Color(u, u.parent[n]) = "BLACK"
  PROVE  Balanced(u, T, D, K, T, B)
<1>1. /\ Shaped(u, T, D, K) /\ n \in T /\ Colored(u, T, B, {n}, 0)
      /\ u.root # NULL /\ u.root # n => u.color[u.root] = "BLACK"
  BY DEF Inserting
<1>2. /\ \A m \in T, d \in Dir : u[d][m] # NULL => u.parent[u[d][m]] = m
      /\ n # NULL /\ T \in SUBSET Node /\ NULL \notin Node
      /\ u.root # NULL => u.parent[u.root] = NULL
  BY <1>1, LinkFacts DEF Shaped
<1>3. ASSUME NEW m \in T, NEW d \in Dir PROVE FineSide(u, B, {}, 0, m, d)
  <2>1. FineSide(u, B, {n}, 0, m, d)
    BY <1>1 DEF Colored, Fine
  <2>2. u[d][m] = n => u.color[m] = "BLACK"
    BY <1>2 DEF Color
  <2> QED BY <2>1, <2>2 DEF FineSide
<1>4. Colored(u, T, B, {}, 0)
  BY <1>1, <1>3 DEF Colored, Fine
<1> QED BY <1>1, <1>2, <1>4 DEF Balanced

\* insert_case3: parent and uncle are red.
LEMMA InsertClimb ==
  ASSUME NEW u, NEW T, NEW D, NEW K, NEW B, NEW n, Clash(u, T, D, K, B, n),
         Color(u, Uncle(u, n)) = "RED"
  PROVE  LET p == u.parent[n]
             g == u.parent[p]
             c == [u.color EXCEPT ![p] = "BLACK", ![Uncle(u, n)] = "BLACK", ![g] = "RED"]
         IN  \E C : Inserting(SetColors(u, c), T, D, K, C, g)
<1> DEFINE p == u.parent[n]
           g == u.parent[p]
           d == Side(u, p)
           x == Uncle(u, n)
           c == [u.color EXCEPT ![p] = "BLACK", ![x] = "BLACK", ![g] = "RED"]
           C == [B EXCEPT ![p] = B[g], ![x] = B[g]]
           v == SetColors(u, c)
<1>1. /\ d \in Dir /\ n \in T /\ p \in T /\ g \in T /\ g # NULL /\ u \in Tree
      /\ T \in SUBSET Node /\ u[d][g] = p
      /\ n # p /\ n # g /\ p # g /\ u.root # p /\ u.root \in T
      /\ x = u[Opposite(d)][g] /\ u.color[g] = "BLACK" /\ x # n /\ x # p
      /\ B \in Heights /\ B[g] = B[p] + 1 /\ B[g] = B[x] + 1
  BY ClashFacts
<1>2. /\ Shaped(u, T, D, K) /\ Colored(u, T, B, {n}, 0) /\ u.color[p] = "RED"
      /\ u.root # NULL /\ u.root # n => u.color[u.root] = "BLACK"
      /\ Color(u, x) = "RED" /\ p = u.parent[n] /\ g = u.parent[p]
  BY DEF Clash, Inserting
<1>3. Opposite(d) \in Dir /\ Dir = {d, Opposite(d)}
  BY <1>1, Dirs
<1>4. x \in T /\ x # NULL /\ x # g /\ u.parent[x] = g /\ u.color[x] = "RED"
  <2>1. x # NULL /\ u.color[x] = "RED"
    BY <1>2 DEF Color
  <2>4. \A m \in T, e \in Dir : u[e][m] # NULL => u[e][m] \in T /\ u.parent[u[e][m]] = m
    BY <1>2 DEF Shaped
  <2> HIDE DEF x, d, g
  <2>2. x \in T /\ u.parent[x] = g
    BY <1>1, <1>3, <2>1, <2>4
  <2>3. x # g
    BY <1>1, <1>2, <1>3, <2>1, Below
  <2> QED BY <2>1, <2>2, <2>3
<1>5. u.color \in Coloring /\ c \in Coloring
  BY <1>1 DEF Tree, Coloring
<1>6. /\ p \in Node /\ g \in Node /\ n \in Node /\ x \in Node
      /\ p \in Link /\ g \in Link /\ x \in Link
  BY <1>1, <1>4, LinkFacts
<1> HIDE DEF p, g, d, x
<1>7. c[p] = "BLACK" /\ c[x] = "BLACK" /\ c[g] = "RED"
      /\ \A k \in Node : k # p /\ k # x /\ k # g => c[k] = u.color[k]
  BY <1>1, <1>4, <1>5, <1>6 DEF Coloring
<1>8. /\ Shaped(v, T, D, K) /\ v.color = c /\ v.root = u.root /\ \A e \in Dir : v[e] = u[e]
  BY <1>2, <1>5, ColorsShaped
<1>17. v = SetColors(u, [u.color EXCEPT ![p] = "BLACK", ![x] = "BLACK", ![g] = "RED"])
  OBVIOUS
<1> HIDE DEF v, c
<1>9. /\ B \in [Link -> Nat \ {0}] /\ B[NULL] = 1
      /\ C \in [Link -> Nat \ {0}] /\ C[p] = B[g] /\ C[x] = B[g]
      /\ \A k \in Link : k # p /\ k # x => C[k] = B[k]
  BY <1>1, <1>6, HeightFacts, LinkFacts
<1> HIDE DEF C
<1>10. C \in Heights
  BY <1>1, <1>2, <1>4, <1>6, <1>9, LinkFacts DEF Heights
<1>11. \A m \in T, e \in Dir : FineSide(u, B, {n}, 0, m, e) /\ m \in Link /\ m \in Node
                               /\ u[e][m] \in Link
                               /\ (u[e][m] # NULL => u.parent[u[e][m]] = m)
  <2> TAKE m \in T, e \in Dir
  <2>1. FineSide(u, B, {n}, 0, m, e)
    BY <1>2 DEF Colored, Fine
  <2>2. u[e][m] # NULL => u.parent[u[e][m]] = m
    BY <1>2 DEF Shaped
  <2>3. u[e][m] \in Link
    BY <1>2, Below
  <2> QED BY <1>1, <2>1, <2>2, <2>3, LinkFacts
<1>12. ASSUME NEW m \in T, NEW e \in Dir PROVE FineSide(v, C, {g}, 0, m, e)
  <2> DEFINE y == u[e][m]
  <2>1. /\ FineSide(u, B, {n}, 0, m, e) /\ m \in Link /\ m \in Node /\ y \in Link
        /\ v[e][m] = y /\ (y # NULL => u.parent[y] = m)
    BY <1>8, <1>11
  <2>2. B[m] \in Nat /\ B[y] \in Nat /\ B[p] \in Nat /\ B[x] \in Nat /\ B[g] \in Nat
    BY <1>6, <1>9, <2>1
  <2>3. y = p \/ y = x => m = g
    BY <1>2, <1>4, <1>6, <2>1, LinkFacts
  <2>4. m = g => y = p \/ y = x
    BY <1>1, <1>3
  <2> HIDE DEF y
  <2>5. CASE m = g
    <3>1. C[g] = B[g] /\ C[y] = B[g] /\ Color(v, y) = "BLACK" /\ y # g
      BY <1>1, <1>4, <1>6, <1>7, <1>8, <1>9, <2>4, <2>5, LinkFacts DEF Color
    <3> QED BY <1>7, <1>8, <2>1, <2>2, <2>5, <3>1 DEF FineSide
  <2>6. CASE m # g
    <3>1. C[y] = B[y]
      BY <1>9, <2>1, <2>3, <2>6
    <3>2. y # g => Color(v, y) = Color(u, y)
      BY <1>7, <1>8, <2>1, <2>3, <2>6, LinkFacts DEF Color
    <3>3. CASE m = p \/ m = x
      <4>1. C[m] = B[m] + 1
        BY <1>1, <1>9, <3>3
      <4>2. v.color[m] = "BLACK" /\ u.color[m] = "RED"
        BY <1>2, <1>4, <1>7, <1>8, <3>3
      <4> QED BY <1>8, <2>1, <2>2, <3>1, <4>1, <4>2 DEF FineSide, y
    <3>4. CASE m # p /\ m # x
      <4>1. C[m] = B[m] /\ v.color[m] = u.color[m]
        BY <1>7, <1>8, <1>9, <2>1, <2>6, <3>4
      <4>2. y # n
        BY <1>2, <1>6, <2>1, <3>4, LinkFacts
      <4> QED BY <1>8, <2>1, <2>2, <3>1, <3>2, <4>1, <4>2 DEF FineSide, y
    <3> QED BY <3>3, <3>4
  <2> QED BY <2>5, <2>6
<1>13. Colored(v, T, C, {g}, 0)
  BY <1>10, <1>12 DEF Colored, Fine
<1>14. v.root # NULL /\ v.root # g => v.color[v.root] = "BLACK"
  <2>1. u.root # n /\ u.root # x
    <3>1. u.root # NULL /\ u.parent[u.root] = NULL
      BY <1>1, <1>2, LinkFacts DEF Shaped
    <3> QED BY <1>1, <1>2, <1>4, <1>6, <3>1, LinkFacts
  <2> QED BY <1>1, <1>2, <1>6, <1>7, <1>8, <2>1
<1>15. Inserting(v, T, D, K, C, g)
  BY <1>1, <1>7, <1>8, <1>13, <1>14 DEF Inserting
<1>16. \E F : Inserting(v, T, D, K, F, g)
  BY <1>15
<1> QED BY <1>16, <1>17 DEF p, g, x

\* insert_case1 for the colors q[1] and the node q[2].
InsertStops(u, q) ==
  LET m == q[2]
      v == SetColors(u, q[1])
      p == u.parent[m]
      g == u.parent[p]
  IN  p = NULL \/ Color(v, p) = "BLACK" \/ ~(g # NULL /\ Color(v, Uncle(v, m)) = "RED")

InsertEnd(u, q) ==
  LET m == q[2]
      v == SetColors(u, q[1])
      p == u.parent[m]
  IN  IF p = NULL THEN SetColors(u, [q[1] EXCEPT ![m] = "BLACK"])
      ELSE IF Color(v, p) = "BLACK" THEN v ELSE InsertCase4(v, m)

InsertOn(u, q) ==
  LET m == q[2]
      v == SetColors(u, q[1])
      p == u.parent[m]
      g == u.parent[p]
  IN  <<[q[1] EXCEPT ![p] = "BLACK", ![Uncle(v, m)] = "BLACK", ![g] = "RED"], g>>

InsertBody(u, f) ==
  [q \in Coloring \X Node |->
     LET m == q[2]
         v == [u EXCEPT !.color = q[1]]
         p == u.parent[m]
         g == u.parent[p]
     IN  IF p = NULL THEN [v EXCEPT !.color[m] = "BLACK"]
         ELSE IF Color(v, p) = "BLACK" THEN v
         ELSE IF g # NULL /\ Color(v, Uncle(v, m)) = "RED"
           THEN f[<<[q[1] EXCEPT ![p] = "BLACK", ![Uncle(v, m)] = "BLACK",
                                 ![g] = "RED"], g>>]
         ELSE InsertCase4(v, m)]

Inserts(u) == CHOOSE f : f = InsertBody(u, f)

LEMMA ColorsAgain ==
  ASSUME NEW u \in Tree, NEW c \in Coloring, NEW e
  PROVE  SetColors(SetColors(u, c), e) = SetColors(u, e)
  BY DEF SetColors, Tree

LEMMA InsertBodyIs ==
  ASSUME NEW u \in Tree, NEW f
  PROVE  InsertBody(u, f) = [q \in Coloring \X Node |->
           IF InsertStops(u, q) THEN InsertEnd(u, q) ELSE f[InsertOn(u, q)]]
<1>1. ASSUME NEW c \in Coloring, NEW m
      PROVE  [[u EXCEPT !.color = c] EXCEPT !.color[m] = "BLACK"]
               = SetColors(u, [c EXCEPT ![m] = "BLACK"])
  BY DEF SetColors, Tree
<1>2. ASSUME NEW q \in Coloring \X Node
      PROVE  InsertBody(u, f)[q] =
               IF InsertStops(u, q) THEN InsertEnd(u, q) ELSE f[InsertOn(u, q)]
  <2>1. q[1] \in Coloring
    OBVIOUS
  <2>2. [[u EXCEPT !.color = q[1]] EXCEPT !.color[q[2]] = "BLACK"]
               = SetColors(u, [q[1] EXCEPT ![q[2]] = "BLACK"])
    BY <1>1, <2>1
  <2> QED BY <2>2 DEF InsertBody, InsertStops, InsertEnd, InsertOn, SetColors
<1> QED BY <1>2, ZenonT(60) DEF InsertBody

LEMMA InsertStep ==
  ASSUME NEW u \in Tree, NEW mu, Ascending(u, mu)
  PROVE  /\ \A q \in Coloring \X Node :
              Inserts(u)[q] = IF InsertStops(u, q) THEN InsertEnd(u, q)
                              ELSE Inserts(u)[InsertOn(u, q)]
         /\ \A q \in Coloring \X Node : ~InsertStops(u, q) =>
              InsertOn(u, q) \in Coloring \X Node /\ mu[InsertOn(u, q)[2]] < mu[q[2]]
<1> DEFINE S == Coloring \X Node
           Stop == {q \in S : InsertStops(u, q)}
           nx == [q \in S \ Stop |-> InsertOn(u, q)]
           val == [q \in Stop |-> InsertEnd(u, q)]
           V == {InsertEnd(u, q) : q \in S} \cup {NULL}
           rho == [q \in S |-> mu[q[2]]]
           h == Inserts(u)
<1>1. /\ mu \in [Link -> Nat] /\ \A n \in Node : mu[u.parent[n]] < mu[n]
      /\ u.parent \in [Node -> Link]
  BY DEF Ascending, Tree
<1>2. \A q \in S \ Stop : InsertOn(u, q) \in S /\ mu[InsertOn(u, q)[2]] < mu[q[2]]
  <2> TAKE q \in S \ Stop
  <2>1. q[1] \in Coloring /\ q[2] \in Node /\ ~InsertStops(u, q)
    OBVIOUS
  <2> DEFINE p == u.parent[q[2]]
             g == u.parent[p]
  <2>2. p # NULL /\ g # NULL
    BY <2>1 DEF InsertStops
  <2>3. p \in Node /\ g \in Node /\ mu[p] < mu[q[2]] /\ mu[g] < mu[p]
    BY <1>1, <2>1, <2>2, LinkFacts
  <2>4. mu[p] \in Nat /\ mu[q[2]] \in Nat /\ mu[g] \in Nat
    BY <1>1, <2>1, <2>3, LinkFacts
  <2>5. InsertOn(u, q)[2] = g /\ InsertOn(u, q) = <<InsertOn(u, q)[1], g>>
        /\ InsertOn(u, q)[1] = [q[1] EXCEPT ![p] = "BLACK",
             ![Uncle(SetColors(u, q[1]), q[2])] = "BLACK", ![g] = "RED"]
    BY DEF InsertOn
  <2>6. InsertOn(u, q)[1] \in Coloring
    BY <2>1, <2>5 DEF Coloring
  <2> HIDE DEF p, g
  <2> QED BY <2>3, <2>4, <2>5, <2>6
<1>3. rho \in [S -> Nat] /\ \A q \in S : rho[q] = mu[q[2]]
  <2>1. \A q \in S : mu[q[2]] \in Nat
    BY <1>1, LinkFacts
  <2> HIDE DEF S
  <2> QED BY <2>1
<1> HIDE DEF S, rho
<1>4. /\ Stop \in SUBSET S /\ nx \in [S \ Stop -> S] /\ val \in [Stop -> V]
      /\ \A q \in S \ Stop : nx[q] = InsertOn(u, q)
      /\ \A q \in Stop : val[q] = InsertEnd(u, q)
      /\ \A q \in S : q \in Stop <=> InsertStops(u, q)
  BY <1>2
<1>5. Walking(S, V, Stop, nx, val, rho) /\ V # {}
  <2>1. \A q \in S \ Stop : rho[nx[q]] < rho[q]
    BY <1>2, <1>3, <1>4
  <2>2. NULL \in V
    OBVIOUS
  <2> HIDE DEF V, Stop, nx, val
  <2> QED BY <1>3, <1>4, <2>1, <2>2 DEF Walking
<1>6. \A f : InsertBody(u, f) = [q \in S |-> IF q \in Stop THEN val[q] ELSE f[nx[q]]]
  <2> TAKE f
  <2>1. InsertBody(u, f) = [q \in S |->
           IF InsertStops(u, q) THEN InsertEnd(u, q) ELSE f[InsertOn(u, q)]]
    BY InsertBodyIs DEF S
  <2> QED BY <1>4, <2>1
<1>12. \A q \in S : q \in Stop <=> InsertStops(u, q)
  BY <1>4
<1> HIDE DEF V, Stop, nx, val
<1>7. PICK f : Tails(S, Stop, nx, val, f)
  BY <1>5, TailExists
<1>8. f = InsertBody(u, f)
  BY <1>6, <1>7 DEF Tails
<1>9. h = InsertBody(u, h)
  BY <1>8 DEF Inserts
<1>10. Tails(S, Stop, nx, val, h)
  BY <1>6, <1>9 DEF Tails
<1>11. \A q \in S : h[q] = IF q \in Stop THEN val[q] ELSE h[nx[q]]
  BY <1>5, <1>10, TailFixed
<1>13. \A q \in S : h[q] = IF InsertStops(u, q) THEN InsertEnd(u, q) ELSE h[InsertOn(u, q)]
  BY <1>4, <1>11, <1>12
<1>14. \A q \in S : ~InsertStops(u, q) => InsertOn(u, q) \in S /\ mu[InsertOn(u, q)[2]] < mu[q[2]]
  BY <1>2, <1>12
<1> QED BY <1>13, <1>14 DEF S

\* zrbtree_insert makes a red-black tree again.
LEMMA InsertSound ==
  ASSUME NEW u, NEW T, NEW D, NEW K, NEW B, NEW n, Inserting(u, T, D, K, B, n)
  PROVE  /\ \E E, C : Balanced(InsertCase1(u, n), T, E, K, T, C)
         /\ InsertCase1(u, n).next = u.next
<1> DEFINE S == Coloring \X Node
           Good(q) == /\ \E E, C : Balanced(Inserts(u)[q], T, E, K, T, C)
                      /\ Inserts(u)[q].next = u.next
           Is(q, F, C) == Inserting(SetColors(u, q[1]), T, F, K, C, q[2])
           P == {q \in S : \A F, C : Is(q, F, C) => Good(q)}
<1>1. Shaped(u, T, D, K) /\ u \in Tree /\ n \in Node /\ u.color \in Coloring
  BY DEF Inserting, Shaped, Tree
<1>2. PICK mu : Ascending(u, mu)
  BY <1>1, Acyclic
<1>3. mu \in [Link -> Nat]
  BY <1>2 DEF Ascending
<1> DEFINE rho == [q \in S |-> mu[q[2]]]
<1>4. rho \in [S -> Nat] /\ \A q \in S : rho[q] = mu[q[2]]
  <2>1. \A q \in S : mu[q[2]] \in Nat
    BY <1>3, LinkFacts
  <2> HIDE DEF S
  <2> QED BY <2>1
<1>5. /\ \A q \in S : Inserts(u)[q] = IF InsertStops(u, q) THEN InsertEnd(u, q)
                                       ELSE Inserts(u)[InsertOn(u, q)]
      /\ \A q \in S : ~InsertStops(u, q) =>
              InsertOn(u, q) \in S /\ mu[InsertOn(u, q)[2]] < mu[q[2]]
  BY <1>1, <1>2, InsertStep
<1> HIDE DEF rho
<1>6. ASSUME NEW q \in S, \A k \in S : rho[k] < rho[q] => k \in P PROVE q \in P
  <2>1. SUFFICES ASSUME NEW F, NEW C, Is(q, F, C) PROVE Good(q)
    BY <1>6
  <2> DEFINE c == q[1]
             m == q[2]
             v == SetColors(u, c)
             p == u.parent[m]
             g == u.parent[p]
  <2>2. c \in Coloring /\ m \in Node /\ Inserting(v, T, F, K, C, m)
    BY <2>1
  <2>3. /\ v \in Tree /\ v.color = c /\ v.next = u.next /\ v.parent = u.parent
    BY <1>1, <2>2, ColorsShaped
  <2>4. \A e : SetColors(v, e) = SetColors(u, e)
    BY <1>1, <2>2, ColorsAgain
  <2>5. \A e \in Coloring : SetColors(u, e).next = u.next
    BY <1>1, ColorsShaped
  <2>6. CASE p = NULL
    <3>1. Inserts(u)[q] = SetColors(u, [c EXCEPT ![m] = "BLACK"])
      BY <1>5, <2>6 DEF InsertStops, InsertEnd
    <3>2. \E E : Balanced(SetColors(v, [v.color EXCEPT ![m] = "BLACK"]), T, F, K, T, E)
      BY <2>2, <2>3, <2>6, InsertTop
    <3>3. \E E : Balanced(Inserts(u)[q], T, F, K, T, E)
      BY <2>3, <2>4, <3>1, <3>2
    <3>4. [c EXCEPT ![m] = "BLACK"] \in Coloring
      BY <2>2 DEF Coloring
    <3> QED BY <2>5, <3>1, <3>3, <3>4
  <2>7. CASE p # NULL /\ Color(v, p) = "BLACK"
    <3>1. Inserts(u)[q] = v
      BY <1>5, <2>7 DEF InsertStops, InsertEnd
    <3>2. Balanced(v, T, F, K, T, C)
      BY <2>2, <2>3, <2>7, InsertBlack
    <3> QED BY <2>3, <3>1, <3>2
  <2>8. CASE p # NULL /\ Color(v, p) # "BLACK"
    <3>1. Clash(v, T, F, K, C, m)
      <4>1. p \in Link
        BY <1>1, <2>2 DEF Tree
      <4>2. Color(v, p) = v.color[p] /\ v.color[p] = "RED"
        BY <2>3, <2>8, <4>1, ColorFacts
      <4> QED BY <2>2, <2>3, <2>8, <4>2 DEF Clash
    <3>2. g # NULL /\ Color(v, Uncle(v, m)) \in {"RED", "BLACK"}
      <4>1. v.parent[v.parent[m]] # NULL /\ Uncle(v, m) \in Link
        BY <3>1, ClashFacts
      <4> QED BY <2>3, <4>1, ColorFacts
    <3>3. CASE Color(v, Uncle(v, m)) = "BLACK"
      <4>1. Inserts(u)[q] = InsertCase4(v, m)
        BY <1>5, <2>8, <3>2, <3>3 DEF InsertStops, InsertEnd
      <4>2. /\ \E E, A : Balanced(InsertCase4(v, m), T, E, K, T, A)
            /\ InsertCase4(v, m).next = v.next
        BY <3>1, <3>3, InsertCase4Sound
      <4> QED BY <2>3, <4>1, <4>2
    <3>4. CASE Color(v, Uncle(v, m)) = "RED"
      <4> DEFINE e == [c EXCEPT ![p] = "BLACK", ![Uncle(v, m)] = "BLACK", ![g] = "RED"]
                 k == InsertOn(u, q)
      <4>1. ~InsertStops(u, q)
        BY <2>8, <3>2, <3>4 DEF InsertStops
      <4>2. k \in S /\ Inserts(u)[q] = Inserts(u)[k] /\ mu[k[2]] < mu[q[2]]
        BY <1>5, <4>1
      <4>3. k[1] = e /\ k[2] = g
        BY DEF InsertOn
      <4> HIDE DEF k
      <4>4. k \in P
        BY <1>4, <1>6, <4>2
      <4>5. \E A : Inserting(SetColors(v, [v.color EXCEPT ![v.parent[m]] = "BLACK",
                     ![Uncle(v, m)] = "BLACK", ![v.parent[v.parent[m]]] = "RED"]), T, F, K, A,
                     v.parent[v.parent[m]])
        BY <3>1, <3>4, InsertClimb
      <4>6. PICK A : Inserting(SetColors(u, e), T, F, K, A, g)
        BY <2>3, <2>4, <4>5
      <4>7. Is(k, F, A)
        BY <4>3, <4>6
      <4>8. Good(k)
        BY <4>4, <4>7
      <4> QED BY <4>2, <4>8
    <3> QED BY <3>2, <3>3, <3>4
  <2> QED BY <2>6, <2>7, <2>8
<1> HIDE DEF P
<1>7. S \subseteq P
  <2>1. /\ rho \in [S -> Nat]
        /\ \A q \in S : (\A k \in S : rho[k] < rho[q] => k \in P) => q \in P
    BY ONLY <1>4, <1>6
  <2> HIDE DEF S
  <2> QED BY ONLY <2>1, MeasureInduction
<1> DEFINE q == <<u.color, n>>
<1>8. q \in S /\ q[1] = u.color /\ q[2] = n
  BY <1>1
<1>9. SetColors(u, u.color) = u
  BY <1>1 DEF SetColors, Tree
<1>10. Is(q, D, B)
  BY <1>8, <1>9
<1>11. Good(q)
  BY <1>7, <1>8, <1>10 DEF P
<1>12. InsertCase1(u, n) = Inserts(u)[q]
  BY DEF InsertCase1, Inserts, InsertBody
<1> QED BY <1>11, <1>12

(***************************************************************************)
(* Deletion.                                                               *)
(***************************************************************************)
LEMMA PivotShaped ==
  ASSUME NEW u, NEW T, NEW D, NEW K, NEW n, NEW d, NEW r, NEW b, NEW c, NEW v,
         Pivot(u, T, D, K, n, d, r, b, c, v)
  PROVE  \E E : Shaped(v, T, E, K) /\ \A j \in Link : j # n /\ j # r => E[j] = D[j]
<1> DEFINE o == Opposite(d)
           w == SetColors(u, c)
           E == Turn(D, n, r, {n} \cup D[u[d][n]] \cup D[u[d][r]])
<1>1. /\ Shaped(u, T, D, K) /\ n \in T /\ d \in Dir /\ c \in Coloring /\ o \in Dir
      /\ r = u[o][n] /\ r # NULL /\ v = Rotate(w, n, d)
  BY Dirs DEF Pivot
<1>2. Shaped(w, T, D, K) /\ \A e \in Dir : w[e] = u[e]
  BY <1>1, ColorsShaped
<1>3. D \in [Link -> SUBSET T]
  BY <1>1 DEF Shaped
<1> HIDE DEF w
<1>4. w[Opposite(d)][n] # NULL
  BY <1>1, <1>2
<1>5. LET rr == w[Opposite(d)][n]
      IN  Shaped(Rotate(w, n, d), T,
                    Turn(D, n, rr, {n} \cup D[w[d][n]] \cup D[w[d][rr]]), K)
  BY <1>1, <1>2, <1>4, RotateShaped
<1>6. Shaped(v, T, E, K)
  BY <1>1, <1>2, <1>5
<1>7. \A j \in Link : j # n /\ j # r => E[j] = D[j]
  BY <1>3 DEF Turn
<1> HIDE DEF E
<1> QED BY <1>6, <1>7

\* v has the nodes of Y as u has them.
Same(u, v, B, C, Y) ==
  \A y \in Y : /\ v.color[y] = u.color[y] /\ C[y] = B[y] /\ v.parent[y] = u.parent[y]
               /\ \A d \in Dir : v[d][y] = u[d][y]

LEMMA PivotSame ==
  ASSUME NEW u, NEW T, NEW D, NEW K, NEW n, NEW d, NEW r, NEW b, NEW c, NEW v,
         Pivot(u, T, D, K, n, d, r, b, c, v),
         NEW B, NEW C, NEW X \in SUBSET {n, r, b}, SameBut(u, B, c, C, X), NEW Y \in SUBSET T,
         \A y \in Y : /\ y # n /\ y # r /\ y # b /\ y # u[d][r]
                      /\ \A e \in Dir : u[e][y] # n
  PROVE  Same(u, v, B, C, Y)
<1> SUFFICES ASSUME NEW y \in Y
             PROVE  /\ v.color[y] = u.color[y] /\ C[y] = B[y] /\ v.parent[y] = u.parent[y]
                    /\ \A e \in Dir : v[e][y] = u[e][y]
  BY DEF Same
<1>1. y \in Node /\ y # n /\ y # r /\ y # b /\ y # u[d][r] /\ y \notin X
      /\ \A e \in Dir : u[e][y] # n
  BY DEF Pivot, Shaped
<1>2. /\ v.color = c
      /\ \A m \in Node \ {n, r}, e \in Dir :
              v[e][m] = IF u[e][m] = n THEN r ELSE u[e][m]
      /\ \A m \in Node : v.parent[m] = IF m = n THEN r
                                             ELSE IF m = r THEN u.parent[n]
                                             ELSE IF m = u[d][r] THEN n ELSE u.parent[m]
  BY PivotLinks
<1>3. c[y] = u.color[y] /\ C[y] = B[y]
  BY <1>1 DEF SameBut
<1> QED BY <1>1, <1>2, <1>3

\* The node k is about to leave a red-black tree, with the nodes Y below it; the subtree of m
\* that holds them lacks a black node.
Lacking(u, T, D, K, Y, k, B, m) ==
  /\ Shaped(u, T, D, K) /\ m \in T /\ k \in Y /\ Y \subseteq D[m]
  /\ Colored(u, T \ {k}, B, {m}, 1)
  /\ u.root # k => u.color[u.root] = "BLACK"

\* The rest of v is a red-black tree, and the nodes of Y are as in u.
Done(u, v, T, K, Y, k, B) ==
  /\ v.next = u.next
  /\ \E E, C : Balanced(v, T, E, K, T \ {k}, C) /\ Same(u, v, B, C, Y)

Bl(u, m) == IF u.color[m] = "BLACK" THEN 1 ELSE 0

\* Where m lacks a black node: its parent p, its side d of p, the other side o, its sibling s.
Site(u, T, D, k, B, m, p, d, o, s) ==
  /\ p = u.parent[m] /\ d = Side(u, m) /\ o = Opposite(d) /\ s = u[o][p]
  /\ d \in Dir /\ o \in Dir /\ Dir = {d, o} /\ d # o /\ Opposite(o) = d
  /\ u \in Tree /\ T \in SUBSET Node /\ m \in T /\ p \in T /\ s \in T
  /\ m # NULL /\ p # NULL /\ s # NULL
  /\ u[d][p] = m /\ Sibling(u, m) = s /\ s # m /\ p # m /\ p # s
  /\ u.parent[s] = p /\ u.root # s /\ u.root # m /\ u.root \in T
  /\ B \in Heights /\ B[m] \in Nat \ {0} /\ B[s] = B[m] + 1 /\ B[p] = B[s] + Bl(u, p)
  /\ \A e \in Dir : /\ u[e][s] \in Link /\ u[e][s] # s /\ u[e][s] # p /\ u[e][s] # m
                    /\ B[u[e][s]] \in Nat \ {0} /\ B[s] = B[u[e][s]] + Bl(u, s)
                    /\ u.color[s] = "RED" => Color(u, u[e][s]) = "BLACK"
                    /\ u[e][s] # NULL => u[e][s] \in D[s] /\ u[e][s] \in T
  /\ u.color[s] = "RED" => u.color[p] = "BLACK"
  /\ \A y \in D[m] : /\ y \in T /\ y # p /\ y # s /\ y \notin D[s]
                     /\ \A e \in Dir : u[e][y] # p /\ u[e][y] # s
  /\ k \in D[m] /\ D[s] \subseteq T \ {k}

LEMMA SiteOf ==
  ASSUME NEW u, NEW T, NEW D, NEW K, NEW Y, NEW k, NEW B, NEW m,
         Lacking(u, T, D, K, Y, k, B, m), u.parent[m] # NULL
  PROVE  \E p, d, o, s : Site(u, T, D, k, B, m, p, d, o, s)
<1> DEFINE p == u.parent[m]
           d == Side(u, m)
           o == Opposite(d)
           s == u[o][p]
<1>1. /\ Shaped(u, T, D, K) /\ m \in T /\ k \in D[m] /\ Colored(u, T \ {k}, B, {m}, 1)
  BY DEF Lacking
<1>2. /\ u \in Tree /\ T \in SUBSET Node /\ D[u.root] = T /\ D[NULL] = {}
      /\ u.root # NULL => u.parent[u.root] = NULL /\ u.root \in T
      /\ \A a \in T, e \in Dir : u[e][a] # NULL => u[e][a] \in T /\ u.parent[u[e][a]] = a
      /\ D \in [Link -> SUBSET T]
  BY <1>1 DEF Shaped
<1>3. "left" \in Dir
  BY DEF Dir
<1>4. /\ d \in Dir /\ p \in T /\ u[d][p] = m /\ Sibling(u, m) = s
  BY <1>1, <1>2, <1>3, OneParent
<1>5. o \in Dir /\ Dir = {d, o} /\ d # o /\ Opposite(o) = d
  BY <1>4, Dirs
<1>6. m # NULL /\ p # NULL /\ m \in Link /\ p \in Link /\ u.root \in T /\ u.root # m
          /\ u.root # NULL
  BY <1>1, <1>2, <1>4, LinkFacts
<1> HIDE DEF o
<1>7. /\ D[p] = {p} \cup D[u[d][p]] \cup D[u[Opposite(d)][p]]
      /\ p \in D[p] /\ p \notin D[u[d][p]]
      /\ D[u[d][p]] \cap D[u[Opposite(d)][p]] = {}
      /\ u[d][p] # NULL => u[d][p] \in D[u[d][p]] /\ u[d][p] \in T /\ u[d][p] # p
      /\ u[d][p] # NULL => u[d][p] # u[Opposite(d)][p]
  BY ONLY <1>1, <1>4, Below
<1>8. p \notin D[m] /\ D[m] \cap D[s] = {} /\ p # m /\ s # m
  BY <1>4, <1>6, <1>7 DEF o
<1>9. s \in Link
  BY <1>1, <1>4, <1>5, Below
<1>10. B \in Heights
  BY <1>1 DEF Colored
<1>11. \A a \in Link : B[a] \in Nat \ {0}
  BY <1>10, HeightFacts
<1>12. k # p /\ p \in T \ {k}
  BY <1>1, <1>4, <1>8
<1>13. FineSide(u, B, {m}, 1, p, d) /\ FineSide(u, B, {m}, 1, p, o)
  BY <1>1, <1>4, <1>5, <1>12 DEF Colored, Fine
<1>14. B[p] = B[m] + 1 + Bl(u, p) /\ B[p] = B[s] + Bl(u, p)
           /\ (u.color[p] = "RED" => Color(u, s) = "BLACK")
  <2>1. B[p] = B[m] + 1 + Bl(u, p)
    BY <1>4, <1>6, <1>11, <1>13 DEF FineSide, Bl
  <2>2. B[p] = B[s] + 0 + Bl(u, p) /\ (u.color[p] = "RED" => Color(u, s) = "BLACK")
    BY <1>8, <1>13 DEF FineSide, Bl
  <2> QED BY <1>9, <1>11, <2>1, <2>2
<1>15. B[s] = B[m] + 1 /\ B[p] = B[s] + Bl(u, p)
  BY <1>6, <1>9, <1>11, <1>14 DEF Bl
<1>16. s # NULL
  <2>1. B[NULL] = 1
    BY <1>10, LinkFacts, HeightFacts
  <2> QED BY <1>6, <1>11, <1>15, <2>1
<1>17. s \in T /\ u.parent[s] = p /\ s # p
  <2>1. s \in T /\ u.parent[s] = p
    BY <1>2, <1>4, <1>5, <1>16
  <2>2. p \notin D[s] /\ s \in D[s]
    BY <1>1, <1>4, <1>5, <1>16, Below
  <2> QED BY <2>1, <2>2
<1> HIDE DEF s, p, d
<1>18. u.root # s
  BY <1>2, <1>6, <1>17
<1>19. s \notin D[m] /\ m \notin D[s] /\ s \in D[s] /\ m \in D[m] /\ p \notin D[s]
  <2>1. s \in D[s] /\ m \in D[m]
    BY <1>1, <1>17, Below, <1>3
  <2>2. p \notin D[u[o][p]]
    BY <1>1, <1>4, <1>5, Below
  <2> QED BY <1>8, <2>1, <2>2 DEF s
<1>20. s \in T \ {k} /\ k \notin D[s]
  BY <1>1, <1>8, <1>17, <1>19
<1>21. ASSUME NEW e \in Dir
       PROVE  /\ u[e][s] \in Link /\ u[e][s] # s /\ u[e][s] # p /\ u[e][s] # m
              /\ B[u[e][s]] \in Nat \ {0} /\ B[s] = B[u[e][s]] + Bl(u, s)
              /\ u.color[s] = "RED" => Color(u, u[e][s]) = "BLACK"
              /\ u[e][s] # NULL => u[e][s] \in D[s] /\ u[e][s] \in T
  <2>1. /\ u[e][s] \in Link /\ D[s] = {s} \cup D[u[e][s]] \cup D[u[Opposite(e)][s]]
        /\ s \notin D[u[e][s]]
        /\ u[e][s] # NULL => u[e][s] \in D[u[e][s]] /\ u[e][s] \in T /\ u[e][s] # s
    BY ONLY <1>1, <1>17, <1>21, Below
  <2>2. u[e][s] # NULL => u[e][s] \in D[s]
    BY <2>1
  <2>3. u[e][s] # s /\ u[e][s] # p /\ u[e][s] # m
    BY <1>6, <1>16, <1>19, <2>1, <2>2
  <2>4. FineSide(u, B, {m}, 1, s, e)
    BY <1>1, <1>20 DEF Colored, Fine
  <2>5. B[s] = B[u[e][s]] + 0 + Bl(u, s) /\ (u.color[s] = "RED" => Color(u, u[e][s]) = "BLACK")
    BY <2>3, <2>4 DEF FineSide, Bl
  <2> QED BY <1>11, <2>1, <2>2, <2>3, <2>5 DEF Bl
<1>22. u.color[s] = "RED" => u.color[p] = "BLACK"
  <2>1. u.color[p] \in {"RED", "BLACK"}
    BY <1>2, <1>4 DEF Tree, Coloring
  <2> QED BY <1>14, <1>16, <2>1 DEF Color
<1>23. ASSUME NEW y \in D[m]
       PROVE  /\ y \in T /\ y # p /\ y # s /\ y \notin D[s]
              /\ \A e \in Dir : u[e][y] # p /\ u[e][y] # s
  <2>1. y \in T /\ y # p /\ y # s /\ y \notin D[s] /\ D[y] \subseteq D[m]
    BY <1>1, <1>8, <1>19, Nested
  <2>2. ASSUME NEW e \in Dir PROVE u[e][y] # p /\ u[e][y] # s
    <3>1. u[e][y] # NULL => u[e][y] \in D[y]
      <4>1. /\ D[y] = {y} \cup D[u[e][y]] \cup D[u[Opposite(e)][y]]
            /\ u[e][y] # NULL => u[e][y] \in D[u[e][y]]
        BY ONLY <1>1, <2>1, <2>2, Below
      <4> QED BY <4>1
    <3> QED BY <1>6, <1>8, <1>16, <1>19, <2>1, <3>1
  <2> QED BY <2>1, <2>2
<1>24. D[s] \subseteq T \ {k}
  BY <1>2, <1>9, <1>20
<1>25. p = u.parent[m] /\ d = Side(u, m) /\ o = Opposite(d) /\ s = u[o][p]
  BY DEF p, d, o, s
<1>26. /\ u \in Tree /\ T \in SUBSET Node /\ p \in T /\ u[d][p] = m /\ Sibling(u, m) = s
       /\ s # m /\ p # m /\ B[m] \in Nat \ {0} /\ k \in D[m]
  BY <1>1, <1>2, <1>4, <1>6, <1>8, <1>11 DEF p, d, o, s
<1>27. Site(u, T, D, k, B, m, p, d, o, s)
  BY <1>1, <1>5, <1>6, <1>10, <1>15, <1>16, <1>17, <1>18, <1>21, <1>22, <1>23, <1>24, <1>25,
       <1>26 DEF Site
<1> QED BY <1>27

LEMMA AllBlackIs ==
  ASSUME NEW u \in Tree, NEW s
  PROVE  AllBlack(u, s) <=>
           Color(u, s) = "BLACK" /\ \A e \in Dir : Color(u, u[e][s]) = "BLACK"
<1>1. "left" \in Dir /\ "right" \in Dir
  BY DEF Dir
<1>2. u.left = u["left"] /\ u.right = u["right"]
  BY <1>1, TreeFields
<1> QED BY <1>2 DEF AllBlack, Dir

\* New colors without a rotation: what is to be looked at.
LEMMA Recolored ==
  ASSUME NEW u, NEW T, NEW D, NEW K, Shaped(u, T, D, K), NEW S \in SUBSET T,
         NEW B, NEW L, NEW e, Colored(u, S, B, L, e), NEW M, NEW f,
         NEW X, NEW c, NEW C, SameBut(u, B, c, C, X),
         \A a \in S, g \in Dir : a \in X \/ u[g][a] \in X \/ u[g][a] \in L \/ u[g][a] \in M
                                   => FineSide(SetColors(u, c), C, M, f, a, g)
  PROVE  Colored(SetColors(u, c), S, C, M, f)
<1> DEFINE v == SetColors(u, c)
<1>1. /\ c \in Coloring /\ C \in Heights /\ \A k \in Node \ X : c[k] = u.color[k] /\ C[k] = B[k]
      /\ B \in Heights
  BY DEF SameBut, Colored
<1>2. v.color = c /\ \A d \in Dir : v[d] = u[d]
  BY <1>1, ColorsShaped
<1>3. T \in SUBSET Node
  BY DEF Shaped
<1>4. \A a \in S, g \in Dir : a \in X \/ u[g][a] \in X \/ u[g][a] \in L \/ u[g][a] \in M
                                   => FineSide(v, C, M, f, a, g)
  OBVIOUS
<1> HIDE DEF v
<1>5. ASSUME NEW a \in S, NEW g \in Dir, a \notin X, u[g][a] \notin X, u[g][a] \notin L,
             u[g][a] \notin M
      PROVE  FineSide(v, C, M, f, a, g)
  <2>1. FineSide(u, B, L, e, a, g) /\ a \in Node /\ u[g][a] \in Link
    BY <1>3, Below DEF Colored, Fine
  <2>2. C[a] = B[a] /\ c[a] = u.color[a]
    BY <1>1, <1>5, <2>1
  <2>3. C[u[g][a]] = B[u[g][a]] /\ Color(v, u[g][a]) = Color(u, u[g][a])
    <3>1. CASE u[g][a] = NULL
      BY <1>1, <3>1, HeightFacts, LinkFacts DEF Color
    <3>2. CASE u[g][a] # NULL
      <4>1. u[g][a] \in Node
        BY <2>1, <3>2, LinkFacts
      <4> QED BY <1>1, <1>2, <1>5, <3>2, <4>1 DEF Color
    <3> QED BY <3>1, <3>2
  <2> QED BY <1>2, <1>5, <2>1, <2>2, <2>3 DEF FineSide
<1>6. \A a \in S, g \in Dir : FineSide(v, C, M, f, a, g)
  BY <1>4, <1>5
<1>7. Colored(v, S, C, M, f)
  BY <1>1, <1>6 DEF Colored, Fine
<1> QED BY <1>7 DEF v

\* delete_case1 at the root.
LEMMA DeleteTop ==
  ASSUME NEW u, NEW T, NEW D, NEW K, NEW Y, NEW k, NEW B, NEW m,
         Lacking(u, T, D, K, Y, k, B, m), u.parent[m] = NULL
  PROVE  Done(u, u, T, K, Y, k, B)
<1>1. /\ Shaped(u, T, D, K) /\ m \in T /\ Colored(u, T \ {k}, B, {m}, 1)
      /\ u.root # k => u.color[u.root] = "BLACK"
  BY DEF Lacking
<1>2. /\ \A a \in T, d \in Dir : u[d][a] # NULL => u.parent[u[d][a]] = a
      /\ m # NULL /\ T \in SUBSET Node /\ NULL \notin Node
  BY <1>1, LinkFacts DEF Shaped
<1>3. ASSUME NEW a \in T \ {k}, NEW d \in Dir PROVE FineSide(u, B, {}, 0, a, d)
  <2>1. FineSide(u, B, {m}, 1, a, d)
    BY <1>1 DEF Colored, Fine
  <2>2. u[d][a] # m
    BY <1>2
  <2> QED BY <2>1, <2>2 DEF FineSide
<1>4. Colored(u, T \ {k}, B, {}, 0)
  BY <1>1, <1>3 DEF Colored, Fine
<1>5. Balanced(u, T, D, K, T \ {k}, B) /\ Same(u, u, B, B, Y)
  BY <1>1, <1>4 DEF Balanced, Same
<1> QED BY <1>5 DEF Done

\* What Site says of single nodes.
LEMMA SiteNodes ==
  ASSUME NEW u, NEW T, NEW D, NEW k, NEW B, NEW m, NEW p, NEW d, NEW o, NEW s,
         Site(u, T, D, k, B, m, p, d, o, s)
  PROVE  /\ m \in Node /\ p \in Node /\ s \in Node /\ m \in Link /\ p \in Link /\ s \in Link
         /\ NULL \notin Node /\ NULL \in Link /\ u.color \in Coloring
                /\ u.color \in [Node -> {"RED", "BLACK"}]
         /\ B \in [Link -> Nat \ {0}] /\ B[NULL] = 1 /\ Bl(u, p) \in {0, 1} /\ Bl(u, s) \in {0, 1}
         /\ \A x \in Link : B[x] \in Nat /\ B[x] > 0 /\ (x = NULL \/ x \in Node)
<1>1. /\ T \in SUBSET Node /\ m \in T /\ p \in T /\ s \in T /\ u \in Tree /\ B \in Heights
  BY DEF Site
<1>2. NULL \notin Node /\ NULL \in Link /\ Node \subseteq Link
  BY LinkFacts
<1>3. u.color \in Coloring /\ u.color \in [Node -> {"RED", "BLACK"}]
  BY <1>1 DEF Tree, Coloring
<1>4. B \in [Link -> Nat \ {0}] /\ B[NULL] = 1
  BY <1>1, <1>2, HeightFacts
<1>5. \A x \in Link : B[x] \in Nat /\ B[x] > 0 /\ (x = NULL \/ x \in Node)
  BY <1>4, LinkFacts
<1> QED BY <1>1, <1>2, <1>3, <1>4, <1>5 DEF Bl

\* The colors after cases 3 and 4: the sibling is red, the parent black.
Reddened(u, s, p) == [u.color EXCEPT ![s] = "RED", ![p] = "BLACK"]

\* The black sibling of m, with black children, gives up a black node.
LEMMA SiblingReddens ==
  ASSUME NEW u, NEW T, NEW D, NEW K, NEW Y, NEW k, NEW B, NEW m, NEW p, NEW d, NEW o, NEW s,
         Lacking(u, T, D, K, Y, k, B, m), Site(u, T, D, k, B, m, p, d, o, s), AllBlack(u, s)
  PROVE  LET v == SetColors(u, Reddened(u, s, p))
         IN  /\ Shaped(v, T, D, K) /\ v.color = Reddened(u, s, p) /\ v.next = u.next
             /\ v.root = u.root /\ v.color \in Coloring /\ v.color[p] = "BLACK"
             /\ v.color[u.root] = "BLACK" \/ u.root = k
             /\ Y \subseteq D[p] /\ p \in T /\ k \in Y /\ v.parent = u.parent
             /\ \E C : Colored(v, T \ {k}, C, {p}, Bl(u, p)) /\ Same(u, v, B, C, Y)
<1> DEFINE c == Reddened(u, s, p)
           C == [B EXCEPT ![s] = B[m], ![p] = B[m] + 1]
           v == SetColors(u, c)
<1>1. /\ d \in Dir /\ o \in Dir /\ Dir = {d, o} /\ d # o /\ s = u[o][p] /\ u[d][p] = m
      /\ u \in Tree /\ T \in SUBSET Node /\ m \in T /\ p \in T /\ s \in T
      /\ s # m /\ p # m /\ p # s /\ u.parent[s] = p /\ u.root # s /\ u.root \in T
      /\ B[m] \in Nat \ {0} /\ B[s] = B[m] + 1 /\ B[p] = B[s] + Bl(u, p) /\ p = u.parent[m]
  BY DEF Site
<1>2. \A e \in Dir : /\ u[e][s] \in Link /\ u[e][s] # s /\ u[e][s] # p /\ u[e][s] # m
                     /\ B[s] = B[u[e][s]] + Bl(u, s)
  BY DEF Site
<1>3. \A y \in D[m] : y \in T /\ y # p /\ y # s
  BY DEF Site
<1>4. /\ Shaped(u, T, D, K) /\ k \in Y /\ Y \subseteq D[m] /\ Colored(u, T \ {k}, B, {m}, 1)
      /\ u.root # k => u.color[u.root] = "BLACK"
  BY DEF Lacking
<1>5. /\ m \in Node /\ p \in Node /\ s \in Node /\ m \in Link /\ p \in Link /\ s \in Link
      /\ NULL \notin Node /\ NULL \in Link /\ u.color \in [Node -> {"RED", "BLACK"}]
      /\ B \in [Link -> Nat \ {0}] /\ B[NULL] = 1 /\ Bl(u, p) \in {0, 1}
      /\ \A x \in Link : B[x] \in Nat /\ B[x] > 0 /\ (x = NULL \/ x \in Node)
  BY SiteNodes
<1>6. u.color[s] = "BLACK" /\ \A e \in Dir : Color(u, u[e][s]) = "BLACK"
  BY <1>1, <1>5, AllBlackIs DEF Color
<1>7. /\ c \in Coloring /\ c[s] = "RED" /\ c[p] = "BLACK"
      /\ \A x \in Node : x # s /\ x # p => c[x] = u.color[x]
  BY <1>1, <1>5 DEF Coloring, Reddened
<1>8. /\ C \in [Link -> Nat \ {0}] /\ C[s] = B[m] /\ C[p] = B[m] + 1
      /\ \A x \in Link : x # s /\ x # p => C[x] = B[x]
  <2>1. B[m] + 1 \in Nat \ {0}
    BY <1>1
  <2> QED BY <1>1, <1>5, <2>1
<1> HIDE DEF C, c
<1>9. SameBut(u, B, c, C, {s, p})
  <2>1. C \in Heights
    BY <1>5, <1>8 DEF Heights
  <2> QED BY <1>5, <1>7, <1>8, <2>1, LinkFacts DEF SameBut
<1>10. /\ Shaped(v, T, D, K) /\ v.color = c /\ v.root = u.root /\ v.parent = u.parent
       /\ v.next = u.next /\ \A e \in Dir : v[e] = u[e]
  BY <1>4, <1>7, ColorsShaped
<1>11. ASSUME NEW a \in T \ {k}, NEW g \in Dir,
              a \in {s, p} \/ u[g][a] \in {s, p} \/ u[g][a] \in {m} \/ u[g][a] \in {p}
       PROVE  FineSide(v, C, {p}, Bl(u, p), a, g)
  <2>1. FineSide(u, B, {m}, 1, a, g)
    BY <1>4 DEF Colored, Fine
  <2>2. u[g][a] # NULL => u.parent[u[g][a]] = a
    BY <1>4 DEF Shaped
  <2>3. u[g][a] \in Link /\ a \in Link /\ a \in Node
    BY <1>1, <1>4, Below, LinkFacts
  <2>4. v[g][a] = u[g][a] /\ v.color[a] = c[a]
    BY <1>10
  <2>5. CASE a = p
    <3>1. u[g][p] \in {m, s} /\ u[g][p] # p
      BY <1>1
    <3>2. C[u[g][p]] = B[m]
      BY <1>1, <1>5, <1>8, <3>1
    <3>3. C[p] = C[u[g][p]] + 0 + 1
      BY <1>1, <1>8, <3>2
    <3> QED BY <1>7, <2>4, <2>5, <3>1, <3>3 DEF FineSide
  <2>6. CASE a = s
    <3>1. u[g][s] \in Link /\ u[g][s] # s /\ u[g][s] # p /\ B[s] = B[u[g][s]] + 1
      BY <1>2, <1>6 DEF Bl
    <3>2. C[u[g][s]] = B[u[g][s]] /\ B[u[g][s]] \in Nat
      BY <1>5, <1>8, <3>1
    <3>3. Color(v, u[g][s]) = "BLACK"
      <4>1. u[g][s] # NULL => u[g][s] \in Node
        BY <1>5, <3>1
      <4> QED BY <1>6, <1>7, <1>10, <3>1, <4>1 DEF Color
    <3>5. B[u[g][s]] = B[m] /\ B[m] \in Nat
      <4>1. \A x, y \in Nat : x + 1 = y + 1 => x = y
        OBVIOUS
      <4>2. B[u[g][s]] + 1 = B[m] + 1 /\ B[m] \in Nat
        BY <1>1, <3>1
      <4> QED BY <3>2, <4>1, <4>2
    <3>4. C[s] = C[u[g][s]] + 0 + 0
      <4>1. C[s] = C[u[g][s]] /\ C[s] \in Nat
        BY <1>8, <3>2, <3>5
      <4>2. \A x \in Nat : x = x + 0 + 0
        OBVIOUS
      <4> QED BY <4>1, <4>2
    <3> QED BY <1>7, <2>4, <2>6, <3>1, <3>3, <3>4 DEF FineSide
  <2>7. CASE a # p /\ a # s
    <3>1. u[g][a] = p /\ u[g][a] # m
      BY <1>1, <1>5, <1>11, <2>2, <2>7
    <3>2. C[a] = B[a] /\ c[a] = u.color[a] /\ B[a] \in Nat
      BY <1>5, <1>7, <1>8, <2>3, <2>7
    <3>3. Color(v, p) = "BLACK" /\ B[p] = B[m] + 1 + Bl(u, p)
      BY <1>1, <1>5, <1>7, <1>10 DEF Color
    <3>4. B[a] = B[p] + 0 + (IF u.color[a] = "BLACK" THEN 1 ELSE 0)
      BY <2>1, <3>1 DEF FineSide
    <3>5. C[a] = C[p] + Bl(u, p) + (IF u.color[a] = "BLACK" THEN 1 ELSE 0)
      BY <1>1, <1>5, <1>8, <3>2, <3>3, <3>4
    <3> QED BY <2>4, <3>1, <3>2, <3>3, <3>5 DEF FineSide
  <2> QED BY <2>5, <2>6, <2>7
<1>12. Colored(v, T \ {k}, C, {p}, Bl(u, p))
  <2>1. T \ {k} \in SUBSET T
    OBVIOUS
  <2>2. \A a \in T \ {k}, g \in Dir :
          a \in {s, p} \/ u[g][a] \in {s, p} \/ u[g][a] \in {m} \/ u[g][a] \in {p}
            => FineSide(SetColors(u, c), C, {p}, Bl(u, p), a, g)
    BY <1>11
  <2> QED BY ONLY <1>4, <1>9, <2>1, <2>2, Recolored
<1> HIDE DEF v
<1>13. Y \subseteq D[p]
  <2>1. D[p] = {p} \cup D[u[d][p]] \cup D[u[Opposite(d)][p]]
    BY ONLY <1>1, <1>4, Below
  <2> QED BY <1>1, <1>4, <2>1
<1>14. c[u.root] = "BLACK" \/ u.root = k
  BY <1>1, <1>4, <1>7
<1>15. Same(u, v, B, C, Y)
  <2> SUFFICES ASSUME NEW y \in Y
               PROVE  v.color[y] = u.color[y] /\ C[y] = B[y]
    BY <1>10 DEF Same
  <2>1. y \in Node /\ y \in Link /\ y # p /\ y # s
    BY <1>1, <1>3, <1>4, LinkFacts
  <2> QED BY <1>7, <1>8, <1>10, <2>1
<1>16. \E F : Colored(v, T \ {k}, F, {p}, Bl(u, p)) /\ Same(u, v, B, F, Y)
  BY <1>12, <1>15
<1> QED BY <1>1, <1>4, <1>7, <1>10, <1>13, <1>14, <1>16 DEF v, c

\* delete_case3: the sibling gives up a black node, and the parent lacks one.
LEMMA DeleteClimb ==
  ASSUME NEW u, NEW T, NEW D, NEW K, NEW Y, NEW k, NEW B, NEW m, NEW p, NEW d, NEW o, NEW s,
         Lacking(u, T, D, K, Y, k, B, m), Site(u, T, D, k, B, m, p, d, o, s),
         Color(u, p) = "BLACK", AllBlack(u, s)
  PROVE  LET v == SetColors(u, [u.color EXCEPT ![s] = "RED"])
         IN  v.next = u.next /\ \E C : Lacking(v, T, D, K, Y, k, C, p) /\ Same(u, v, B, C, Y)
<1> DEFINE v == SetColors(u, Reddened(u, s, p))
<1>1. /\ m \in Node /\ p \in Node /\ s \in Node /\ p # s /\ p # NULL
      /\ u.color \in [Node -> {"RED", "BLACK"}]
  <2>1. m \in Node /\ p \in Node /\ s \in Node /\ u.color \in [Node -> {"RED", "BLACK"}]
    BY SiteNodes
  <2>2. p # s /\ p # NULL
    BY DEF Site
  <2> QED BY <2>1, <2>2
<1>2. u.color[p] = "BLACK" /\ Bl(u, p) = 1
  BY <1>1 DEF Color, Bl
<1>3. [u.color EXCEPT ![s] = "RED"] = Reddened(u, s, p)
  BY <1>1, <1>2 DEF Reddened
<1>4. /\ Shaped(v, T, D, K) /\ v.color = Reddened(u, s, p) /\ v.next = u.next
      /\ v.root = u.root /\ v.color \in Coloring /\ v.color[p] = "BLACK"
      /\ v.color[u.root] = "BLACK" \/ u.root = k
      /\ Y \subseteq D[p] /\ p \in T /\ k \in Y /\ v.parent = u.parent
      /\ \E C : Colored(v, T \ {k}, C, {p}, Bl(u, p)) /\ Same(u, v, B, C, Y)
  BY SiblingReddens
<1> HIDE DEF v
<1>5. PICK C : Colored(v, T \ {k}, C, {p}, Bl(u, p)) /\ Same(u, v, B, C, Y)
  BY <1>4
<1>6. Lacking(v, T, D, K, Y, k, C, p)
  BY <1>2, <1>4, <1>5 DEF Lacking
<1>7. v.next = u.next /\ \E F : Lacking(v, T, D, K, Y, k, F, p) /\ Same(u, v, B, F, Y)
  BY <1>4, <1>5, <1>6
<1> QED BY <1>3, <1>7 DEF v

\* delete_case4: the red parent gives its color to the sibling.
LEMMA DeleteCase4Last ==
  ASSUME NEW u, NEW T, NEW D, NEW K, NEW Y, NEW k, NEW B, NEW m, NEW p, NEW d, NEW o, NEW s,
         Lacking(u, T, D, K, Y, k, B, m), Site(u, T, D, k, B, m, p, d, o, s),
         Color(u, p) = "RED", AllBlack(u, s)
  PROVE  Done(u, DeleteCase4(u, m), T, K, Y, k, B)
<1> DEFINE v == SetColors(u, Reddened(u, s, p))
<1>1. /\ m \in Node /\ p \in Node /\ s \in Node /\ p # s /\ p # NULL /\ p = u.parent[m]
      /\ u.color \in [Node -> {"RED", "BLACK"}] /\ s = Sibling(u, m) /\ u \in Tree
  <2>1. m \in Node /\ p \in Node /\ s \in Node /\ u.color \in [Node -> {"RED", "BLACK"}]
    BY SiteNodes
  <2>2. p # s /\ p # NULL /\ p = u.parent[m] /\ s = Sibling(u, m) /\ u \in Tree
    BY DEF Site
  <2> QED BY <2>1, <2>2
<1>2. u.color[p] = "RED" /\ Bl(u, p) = 0
  BY <1>1 DEF Color, Bl
<1>3. DeleteCase4(u, m) = v
  <2>1. [u EXCEPT !.color[s] = "RED", !.color[p] = "BLACK"] = v
    BY <1>1 DEF SetColors, Tree, Reddened
  <2> QED BY <1>1, <2>1 DEF DeleteCase4
<1>4. /\ Shaped(v, T, D, K) /\ v.color = Reddened(u, s, p) /\ v.next = u.next
      /\ v.root = u.root /\ v.color \in Coloring /\ v.color[p] = "BLACK"
      /\ v.color[u.root] = "BLACK" \/ u.root = k
      /\ Y \subseteq D[p] /\ p \in T /\ k \in Y /\ v.parent = u.parent
      /\ \E C : Colored(v, T \ {k}, C, {p}, Bl(u, p)) /\ Same(u, v, B, C, Y)
  BY SiblingReddens
<1> HIDE DEF v
<1>5. PICK C : Colored(v, T \ {k}, C, {p}, Bl(u, p)) /\ Same(u, v, B, C, Y)
  BY <1>4
<1>6. ASSUME NEW a \in T \ {k}, NEW g \in Dir PROVE FineSide(v, C, {}, 0, a, g)
  <2>1. FineSide(v, C, {p}, 0, a, g)
    BY <1>2, <1>5 DEF Colored, Fine
  <2>2. v[g][a] = p => Color(v, v[g][a]) = "BLACK"
    BY <1>1, <1>4 DEF Color
  <2>3. C \in Heights /\ v[g][a] \in Link
    BY <1>4, <1>5, Below DEF Colored
  <2> QED BY <2>1, <2>2, <2>3, HeightFacts DEF FineSide
<1>7. Colored(v, T \ {k}, C, {}, 0)
  BY <1>5, <1>6 DEF Colored, Fine
<1>8. Balanced(v, T, D, K, T \ {k}, C)
  BY <1>4, <1>7 DEF Balanced
<1> QED BY <1>3, <1>4, <1>5, <1>8 DEF Done

\* The sibling of m is rotated to the place of the parent.
LEMMA SiteRotated ==
  ASSUME NEW u, NEW T, NEW D, NEW K, NEW Y, NEW k, NEW B, NEW m, NEW p, NEW d, NEW o, NEW s,
         Lacking(u, T, D, K, Y, k, B, m), Site(u, T, D, k, B, m, p, d, o, s),
         NEW c \in Coloring, NEW X \in SUBSET {p, s, u[o][s]}, NEW C, SameBut(u, B, c, C, X),
         NEW v, v = Rotate(SetColors(u, c), p, d)
  PROVE  /\ Pivot(u, T, D, K, p, d, s, u[o][s], c, v)
         /\ v.color = c /\ v.next = u.next /\ v.root = IF u.root = p THEN s ELSE u.root
         /\ v[o][p] = u[d][s] /\ v[d][s] = p /\ v[d][p] = m /\ v[o][s] = u[o][s] /\ v.parent[m] = p
         /\ \A a \in Node \ {p, s}, e \in Dir : v[e][a] = IF u[e][a] = p THEN s ELSE u[e][a]
         /\ Same(u, v, B, C, Y) /\ \E E : Shaped(v, T, E, K) /\ Y \subseteq E[m]
<1>1. /\ o = Opposite(d) /\ s = u[o][p] /\ d \in Dir /\ o \in Dir /\ s # NULL /\ p \in T /\ m \in T
      /\ u[d][p] = m /\ s # m /\ p # m /\ p # s /\ u.parent[m] = p
  BY DEF Site
<1>2. \A e \in Dir : /\ u[e][s] # m /\ (u[e][s] # NULL => u[e][s] \in D[s])
  BY DEF Site
<1>3. \A y \in D[m] : /\ y \in T /\ y # p /\ y # s /\ y \notin D[s]
                      /\ \A e \in Dir : u[e][y] # p /\ u[e][y] # s
  BY DEF Site
<1>4. Shaped(u, T, D, K) /\ Y \subseteq D[m]
  BY DEF Lacking
<1>5. m \in Node /\ m \in Link /\ NULL \notin Node
  BY SiteNodes
<1>6. Pivot(u, T, D, K, p, d, s, u[o][s], c, v)
  BY <1>1, <1>4 DEF Pivot
<1> DEFINE b == u[o][s]
<1>7. b = u[o][s]
  OBVIOUS
<1> HIDE DEF b
<1>8. /\ v.color = c /\ v.next = u.next
      /\ v.root = IF u.root = p THEN s ELSE u.root
      /\ v[o][p] = u[d][s] /\ v[d][s] = p /\ v[d][p] = u[d][p] /\ v[o][s] = b
      /\ \A a \in Node \ {p, s}, e \in Dir :
                  v[e][a] = IF u[e][a] = p THEN s ELSE u[e][a]
      /\ \A a \in Node : v.parent[a] = IF a = p THEN s
                                             ELSE IF a = s THEN u.parent[p]
                                             ELSE IF a = u[d][s] THEN p ELSE u.parent[a]
  BY <1>1, <1>6, <1>7, PivotLinks
<1>9. v.parent[m] = p
  BY <1>1, <1>2, <1>5, <1>8
<1>10. \E E : Shaped(v, T, E, K) /\ \A j \in Link : j # p /\ j # s => E[j] = D[j]
  BY ONLY <1>6, PivotShaped
<1>11. \E E : Shaped(v, T, E, K) /\ Y \subseteq E[m]
  BY <1>1, <1>4, <1>5, <1>10
<1>12. Same(u, v, B, C, Y)
  <2>1. Y \in SUBSET T
    BY <1>3, <1>4
  <2>2. \A y \in Y : /\ y # p /\ y # s /\ y # u[o][s] /\ y # u[d][s]
                     /\ \A e \in Dir : u[e][y] # p
    <3>1. \A y \in T : y # NULL
      BY <1>4, <1>5 DEF Shaped
    <3> QED BY <1>1, <1>2, <1>3, <1>4, <3>1
  <2>3. X \in SUBSET {p, s, u[o][s]} /\ SameBut(u, B, c, C, X)
    OBVIOUS
  <2> QED BY ONLY <1>6, <2>1, <2>2, <2>3, PivotSame
<1> QED BY <1>1, <1>6, <1>7, <1>8, <1>9, <1>11, <1>12

\* The colors around m that are used: numbers of black nodes below the sibling.
LEMMA SiteHeights ==
  ASSUME NEW u, NEW T, NEW D, NEW k, NEW B, NEW m, NEW p, NEW d, NEW o, NEW s,
         Site(u, T, D, k, B, m, p, d, o, s)
  PROVE  /\ B[m] \in Nat /\ B[m] > 0 /\ B[s] = B[m] + 1 /\ B[p] = B[m] + 1 + Bl(u, p)
         /\ \A e \in Dir : /\ u.color[s] = "RED" => B[u[e][s]] = B[m] + 1
                           /\ u.color[s] = "BLACK" => B[u[e][s]] = B[m]
         /\ u.color[s] = "RED" => Bl(u, p) = 1
<1>1. B[m] \in Nat \ {0} /\ B[s] = B[m] + 1 /\ B[p] = B[s] + Bl(u, p)
      /\ (u.color[s] = "RED" => u.color[p] = "BLACK")
  BY DEF Site
<1>2. ASSUME NEW e \in Dir
      PROVE  /\ u.color[s] = "RED" => B[u[e][s]] = B[m] + 1
             /\ u.color[s] = "BLACK" => B[u[e][s]] = B[m]
  <2>1. B[u[e][s]] \in Nat /\ B[s] = B[u[e][s]] + Bl(u, s)
    BY DEF Site
  <2>2. \A x, y \in Nat : (y + 1 = x + 0 => x = y + 1) /\ (y + 1 = x + 1 => x = y)
    OBVIOUS
  <2>3. B[m] + 1 = B[u[e][s]] + Bl(u, s) /\ B[m] \in Nat
    BY <1>1, <2>1
  <2> HIDE DEF Site
  <2> QED BY <2>1, <2>2, <2>3 DEF Bl
<1> QED BY <1>1, <1>2 DEF Bl

\* The colors of case 2, and of case 5 with i coming up.
Case2Colors(u, p, s) == [u.color EXCEPT ![p] = "RED", ![s] = "BLACK"]

Case5Colors(u, s, i) == [u.color EXCEPT ![s] = "RED", ![i] = "BLACK"]

\* delete_case2: the red sibling comes up; the parent of m is red then, the sibling black.
LEMMA DeleteCase2Turn ==
  ASSUME NEW u, NEW T, NEW D, NEW K, NEW Y, NEW k, NEW B, NEW m, NEW p, NEW d, NEW o, NEW s,
         Lacking(u, T, D, K, Y, k, B, m), Site(u, T, D, k, B, m, p, d, o, s),
         u.color[s] = "RED",
         NEW v, v = Rotate(SetColors(u, Case2Colors(u, p, s)), p, d)
  PROVE  /\ v.next = u.next /\ v.parent[m] = p /\ Color(v, p) = "RED"
         /\ v[d][p] = m /\ Color(v, v[o][p]) = "BLACK"
         /\ \E E, C : Lacking(v, T, E, K, Y, k, C, m) /\ Same(u, v, B, C, Y)
<1> DEFINE c == Case2Colors(u, p, s)
           C == [B EXCEPT ![p] = B[m] + 1, ![s] = B[m] + 2]
           b == u[o][s]
           i == u[d][s]
<1>1. /\ m \in Node /\ p \in Node /\ s \in Node /\ m \in Link /\ p \in Link /\ s \in Link
      /\ NULL \notin Node /\ NULL \in Link /\ u.color \in Coloring
             /\ u.color \in [Node -> {"RED", "BLACK"}]
      /\ B \in [Link -> Nat \ {0}] /\ B[NULL] = 1
      /\ \A x \in Link : B[x] \in Nat /\ B[x] > 0 /\ (x = NULL \/ x \in Node)
  BY SiteNodes
<1>2. /\ o = Opposite(d) /\ s = u[o][p] /\ d \in Dir /\ o \in Dir /\ s # NULL /\ p \in T /\ m \in T
      /\ u[d][p] = m /\ s # m /\ p # m /\ p # s /\ u.parent[m] = p /\ k \in D[m] /\ d # o
      /\ Dir = {d, o} /\ s \in T /\ u.root # s /\ p # NULL
  BY DEF Site
<1>3. \A e \in Dir : /\ u[e][s] \in Link /\ u[e][s] # s /\ u[e][s] # p /\ u[e][s] # m
                     /\ Color(u, u[e][s]) = "BLACK"
  BY DEF Site
<1>4. \A y \in D[m] : y # p /\ y # s
  BY DEF Site
<1>5. /\ B[m] \in Nat /\ B[m] > 0 /\ B[s] = B[m] + 1 /\ B[p] = B[m] + 1 + Bl(u, p)
      /\ Bl(u, p) = 1 /\ \A e \in Dir : B[u[e][s]] = B[m] + 1
  BY SiteHeights
<1>6. /\ c \in Coloring /\ c[p] = "RED" /\ c[s] = "BLACK"
      /\ \A x \in Node : x # s /\ x # p => c[x] = u.color[x]
  BY <1>1, <1>2 DEF Coloring, Case2Colors
<1>7. /\ C \in [Link -> Nat \ {0}] /\ C[s] = B[m] + 2 /\ C[p] = B[m] + 1 /\ B[p] = B[m] + 2
      /\ \A x \in Link : x # s /\ x # p => C[x] = B[x]
  <2>1. B[m] + 1 \in Nat \ {0} /\ B[m] + 2 \in Nat \ {0} /\ B[p] = B[m] + 2
    BY <1>5
  <2> QED BY <1>1, <1>2, <2>1
<1> DEFINE X == {p, s}
<1>8. v = Rotate(SetColors(u, c), p, d) /\ b = u[o][s] /\ i = u[d][s] /\ X = {p, s}
  OBVIOUS
<1> HIDE DEF c, C, b, i, X
<1>9. /\ SameBut(u, B, c, C, X) /\ X \in SUBSET {p, s, u[o][s]} /\ X \in SUBSET {p, s, b}
             /\ C \in Heights
  <2>1. C \in Heights
    BY <1>1, <1>2, <1>7 DEF Heights
  <2> QED BY <1>1, <1>6, <1>7, <1>8, <2>1, LinkFacts DEF SameBut
<1>10. /\ Pivot(u, T, D, K, p, d, s, u[o][s], c, v)
       /\ v.color = c /\ v.next = u.next /\ v.root = IF u.root = p THEN s ELSE u.root
       /\ v[o][p] = u[d][s] /\ v[d][s] = p /\ v[d][p] = m /\ v[o][s] = u[o][s] /\ v.parent[m] = p
       /\ \A a \in Node \ {p, s}, e \in Dir : v[e][a] = IF u[e][a] = p THEN s ELSE u[e][a]
       /\ Same(u, v, B, C, Y) /\ \E E : Shaped(v, T, E, K) /\ Y \subseteq E[m]
  BY ONLY Lacking(u, T, D, K, Y, k, B, m), Site(u, T, D, k, B, m, p, d, o, s), <1>6, <1>8, <1>9,
          SiteRotated
<1>11. \A x \in Link : x # s /\ x # p => C[x] = B[x] /\ Color(v, x) = Color(u, x)
  <2> SUFFICES ASSUME NEW x \in Link, x # s, x # p PROVE Color(v, x) = Color(u, x)
    BY <1>7
  <2> QED BY <1>1, <1>6, <1>10 DEF Color
<1>12. i \in Link /\ i # s /\ i # p /\ i # m /\ B[i] = B[m] + 1 /\ Color(u, i) = "BLACK"
       /\ b \in Link /\ b # s /\ b # p /\ b # m /\ B[b] = B[m] + 1 /\ Color(u, b) = "BLACK"
  BY <1>2, <1>3, <1>5, <1>8
<1>13. /\ C[i] = B[m] + 1 /\ Color(v, i) = "BLACK" /\ C[b] = B[m] + 1 /\ Color(v, b) = "BLACK"
       /\ C[m] = B[m] /\ v.color[p] = "RED" /\ v.color[s] = "BLACK"
       /\ v[o][p] = i /\ v[d][s] = p /\ v[d][p] = m /\ v[o][s] = b
  BY <1>1, <1>2, <1>6, <1>8, <1>10, <1>11, <1>12
<1>14. /\ FineSide(v, C, {m}, 1, p, d) /\ FineSide(v, C, {m}, 1, p, o)
       /\ FineSide(v, C, {m}, 1, s, d) /\ FineSide(v, C, {m}, 1, s, o)
  <2>1. /\ C[p] = C[m] + 1 + 0 /\ C[p] = C[i] + 0 + 0
        /\ C[s] = C[p] + 0 + 1 /\ C[s] = C[b] + 0 + 1
    BY <1>5, <1>7, <1>13
  <2> QED BY <1>2, <1>12, <1>13, <2>1 DEF FineSide
<1>15. Fine(v, C, {m}, 1, p) /\ Fine(v, C, {m}, 1, s)
  BY <1>2, <1>14 DEF Fine
<1> DEFINE S == T \ {k}
           L == {m}
<1>16. /\ Colored(u, S, B, L, 1) /\ p \in S /\ S \in SUBSET T
       /\ (u.root # k => u.color[u.root] = "BLACK") /\ k \in Y
  BY <1>2, <1>4 DEF Lacking
<1>17. Loose(u, p, d, s, b, L, 1, L, 1)
  BY <1>1, <1>2 DEF Loose
<1>18. Colored(v, S, C, L, 1)
  <2>1. Pivot(u, T, D, K, p, d, s, b, c, v)
    BY <1>8, <1>10
  <2>2. C[s] = B[p] /\ (c[s] = "BLACK" \/ u.color[p] = "RED")
            /\ (b \in S \cap X => Fine(v, C, L, 1, b))
    BY <1>6, <1>7, <1>8, <1>12
  <2>3. Fine(v, C, L, 1, p) /\ Fine(v, C, L, 1, s)
    BY <1>15
  <2>4. /\ Pivot(u, T, D, K, p, d, s, b, c, v) /\ S \in SUBSET T /\ Colored(u, S, B, L, 1)
               /\ p \in S
        /\ Loose(u, p, d, s, b, L, 1, L, 1) /\ X \in SUBSET {p, s, b} /\ SameBut(u, B, c, C, X)
    BY <1>9, <1>16, <1>17, <2>1
  <2> HIDE DEF S, L
  <2> QED BY ONLY <2>2, <2>3, <2>4, RotateColored
<1>19. PICK E : Shaped(v, T, E, K) /\ Y \subseteq E[m]
  BY <1>10
<1>20. v.root # k => v.color[v.root] = "BLACK"
  <2>1. u.root \in Node
    BY <1>2 DEF Site
  <2> QED BY <1>2, <1>4, <1>6, <1>10, <1>13, <1>16, <2>1
<1>21. Lacking(v, T, E, K, Y, k, C, m)
  BY <1>2, <1>16, <1>18, <1>19, <1>20 DEF Lacking
<1>22. \E F, G : Lacking(v, T, F, K, Y, k, G, m) /\ Same(u, v, B, G, Y)
  BY <1>10, <1>21
<1> QED BY <1>2, <1>10, <1>13, <1>22 DEF Color

\* delete_case6: the red outer child of the sibling makes up for the black node.
LEMMA DeleteCase6Sound ==
  ASSUME NEW u, NEW T, NEW D, NEW K, NEW Y, NEW k, NEW B, NEW m, NEW p, NEW d, NEW o, NEW s,
         Lacking(u, T, D, K, Y, k, B, m), Site(u, T, D, k, B, m, p, d, o, s),
         u.color[s] = "BLACK", Color(u, u[o][s]) = "RED"
  PROVE  Done(u, DeleteCase6(u, m), T, K, Y, k, B)
<1> DEFINE b == u[o][s]
           i == u[d][s]
           c == [u.color EXCEPT ![s] = u.color[p], ![p] = "BLACK", ![b] = "BLACK"]
           C == [B EXCEPT ![p] = B[m] + 1, ![s] = B[p], ![b] = B[m] + 1]
           v == Rotate(SetColors(u, c), p, d)
           X == {p, s, b}
<1>1. /\ m \in Node /\ p \in Node /\ s \in Node /\ m \in Link /\ p \in Link /\ s \in Link
      /\ NULL \notin Node /\ NULL \in Link /\ u.color \in Coloring
             /\ u.color \in [Node -> {"RED", "BLACK"}]
      /\ B \in [Link -> Nat \ {0}] /\ B[NULL] = 1
      /\ \A x \in Link : B[x] \in Nat /\ B[x] > 0 /\ (x = NULL \/ x \in Node)
  BY SiteNodes
<1>2. /\ o = Opposite(d) /\ s = u[o][p] /\ d \in Dir /\ o \in Dir /\ s # NULL /\ p \in T /\ m \in T
      /\ u[d][p] = m /\ s # m /\ p # m /\ p # s /\ u.parent[m] = p /\ k \in D[m] /\ d # o
      /\ Dir = {d, o} /\ s \in T /\ u.root # s /\ p # NULL /\ u.root \in T /\ u \in Tree
      /\ p = u.parent[m] /\ d = Side(u, m) /\ Sibling(u, m) = s
  BY DEF Site
<1>3. \A e \in Dir : /\ u[e][s] \in Link /\ u[e][s] # s /\ u[e][s] # p /\ u[e][s] # m
                     /\ (u[e][s] # NULL => u[e][s] \in D[s] /\ u[e][s] \in T)
  BY DEF Site
<1>4. /\ \A y \in D[m] : y # p /\ y # s
      /\ D[s] \subseteq T \ {k}
  BY DEF Site
<1>5. /\ B[m] \in Nat /\ B[m] > 0 /\ B[s] = B[m] + 1 /\ B[p] = B[m] + 1 + Bl(u, p)
      /\ \A e \in Dir : B[u[e][s]] = B[m]
  BY SiteHeights
<1>6. /\ Shaped(u, T, D, K) /\ k \in Y /\ Colored(u, T \ {k}, B, {m}, 1)
      /\ u.root # k => u.color[u.root] = "BLACK"
  BY DEF Lacking
<1>7. /\ b \in Node /\ b \in T \ {k} /\ b # s /\ b # p /\ b # m /\ b # NULL /\ B[b] = B[m]
      /\ i \in Link /\ i # s /\ i # p /\ i # m /\ B[i] = B[m] /\ u.color[b] = "RED"
  BY <1>1, <1>2, <1>3, <1>4, <1>5 DEF Color
<1>8. i # b /\ u.root # b
  <2>1. u[o][s] # NULL => u[o][s] # u[Opposite(o)][s]
    BY ONLY <1>2, <1>6, Below
  <2>2. Opposite(o) = d
    BY <1>2, Dirs
  <2>3. /\ u[o][s] # NULL => u.parent[u[o][s]] = s
        /\ u.root # NULL => u.parent[u.root] = NULL
    BY <1>2, <1>6 DEF Shaped
  <2> QED BY <1>2, <1>7, <2>1, <2>2, <2>3
<1>9. /\ c \in Coloring /\ c[p] = "BLACK" /\ c[s] = u.color[p] /\ c[b] = "BLACK"
      /\ \A x \in Node : x # s /\ x # p /\ x # b => c[x] = u.color[x]
  BY <1>1, <1>2, <1>7 DEF Coloring
<1>10. /\ C \in [Link -> Nat \ {0}] /\ C[s] = B[p] /\ C[p] = B[m] + 1 /\ C[b] = B[m] + 1
       /\ \A x \in Link : x # s /\ x # p /\ x # b => C[x] = B[x]
  <2>1. B[m] + 1 \in Nat \ {0} /\ B[p] \in Nat \ {0} /\ b \in Link
    BY <1>1, <1>5, <1>7, LinkFacts
  <2> HIDE DEF b
  <2> QED BY <1>1, <1>2, <1>7, <2>1
<1>11. DeleteCase6(u, m) = v
  <2>1. [u EXCEPT !.color[s] = u.color[p], !.color[p] = "BLACK", !.color[b] = "BLACK"]
           = SetColors(u, c)
    BY <1>2 DEF SetColors, Tree
  <2> QED BY <1>2, <2>1 DEF DeleteCase6
<1>12. v = Rotate(SetColors(u, c), p, d) /\ b = u[o][s] /\ i = u[d][s] /\ X = {p, s, b}
  OBVIOUS
<1> HIDE DEF c, C, b, i, X, v
<1>13. /\ SameBut(u, B, c, C, X) /\ X \in SUBSET {p, s, u[o][s]} /\ X \in SUBSET {p, s, b}
              /\ C \in Heights
  <2>1. C \in Heights
    BY <1>1, <1>2, <1>7, <1>10 DEF Heights
  <2> QED BY <1>1, <1>9, <1>10, <1>12, <2>1, LinkFacts DEF SameBut
<1>14. /\ Pivot(u, T, D, K, p, d, s, u[o][s], c, v)
       /\ v.color = c /\ v.next = u.next /\ v.root = IF u.root = p THEN s ELSE u.root
       /\ v[o][p] = u[d][s] /\ v[d][s] = p /\ v[d][p] = m /\ v[o][s] = u[o][s] /\ v.parent[m] = p
       /\ \A a \in Node \ {p, s}, e \in Dir : v[e][a] = IF u[e][a] = p THEN s ELSE u[e][a]
       /\ Same(u, v, B, C, Y) /\ \E E : Shaped(v, T, E, K) /\ Y \subseteq E[m]
  BY <1>9, <1>12, <1>13, SiteRotated
<1>15. \A x \in Link : x # s /\ x # p /\ x # b => C[x] = B[x] /\ Color(v, x) = Color(u, x)
  <2> SUFFICES ASSUME NEW x \in Link, x # s, x # p, x # b PROVE Color(v, x) = Color(u, x)
    BY <1>10
  <2> QED BY <1>1, <1>9, <1>14 DEF Color
<1>16. /\ C[i] = B[m] /\ C[m] = B[m] /\ v.color[p] = "BLACK" /\ v.color[b] = "BLACK"
       /\ Color(v, p) = "BLACK" /\ Color(v, b) = "BLACK" /\ v.color[s] = u.color[p]
       /\ v[o][p] = i /\ v[d][s] = p /\ v[d][p] = m /\ v[o][s] = b
  BY <1>1, <1>2, <1>7, <1>8, <1>9, <1>12, <1>14, <1>15 DEF Color
<1>17. /\ FineSide(v, C, {}, 0, p, d) /\ FineSide(v, C, {}, 0, p, o)
       /\ FineSide(v, C, {}, 0, s, d) /\ FineSide(v, C, {}, 0, s, o)
  <2>1. /\ C[p] = C[m] + 0 + 1 /\ C[p] = C[i] + 0 + 1
        /\ C[s] = C[p] + 0 + Bl(u, p) /\ C[s] = C[b] + 0 + Bl(u, p)
    BY <1>5, <1>10, <1>16 DEF Bl
  <2> QED BY <1>2, <1>16, <2>1 DEF FineSide, Bl
<1>18. Fine(v, C, {}, 0, p) /\ Fine(v, C, {}, 0, s)
  BY <1>2, <1>17 DEF Fine
<1>19. Fine(v, C, {}, 0, b)
  <2> SUFFICES ASSUME NEW g \in Dir PROVE FineSide(v, C, {}, 0, b, g)
    BY DEF Fine
  <2>1. FineSide(u, B, {m}, 1, b, g)
    BY <1>6, <1>7 DEF Colored, Fine
  <2>2. u[g][b] \in Link /\ u[g][b] # b /\ (u[g][b] # NULL => u.parent[u[g][b]] = b)
    <3>1. u[g][b] \in Link /\ (u[g][b] # NULL => u[g][b] # b)
      BY <1>6, <1>7, Below
    <3> QED BY <1>6, <1>7, <3>1 DEF Shaped
  <2>3. u.parent[s] = p /\ (u.parent[p] # b)
    <3>1. b \in T /\ p \notin D[s] /\ b \in D[s] /\ p \in T
      <4>1. p \notin D[u[o][p]]
        BY <1>2, <1>6, Below
      <4> QED BY <1>2, <1>3, <1>7, <1>12, <4>1
    <3>2. u.parent[p] # b
      <4> SUFFICES ASSUME u.parent[p] = b PROVE FALSE
        OBVIOUS
      <4>1. p \in D[b]
        <5>1. PICK e \in Dir : u[e][b] = p
          BY <1>2, <1>6, <1>7 DEF Shaped
        <5>2. /\ D[b] = {b} \cup D[u[e][b]] \cup D[u[Opposite(e)][b]]
              /\ (u[e][b] # NULL => u[e][b] \in D[u[e][b]])
          BY ONLY <1>6, <3>1, <5>1, Below
        <5> QED BY <1>2, <5>1, <5>2
      <4>2. D[b] \subseteq D[s]
        BY <1>2, <1>6, <3>1, Nested
      <4> QED BY <3>1, <4>1, <4>2
    <3> QED BY <3>2 DEF Site
  <2>4. u[g][b] # p /\ u[g][b] # s /\ u[g][b] # m
    BY <1>1, <1>2, <1>7, <2>2, <2>3
  <2>5. B[b] = B[u[g][b]] /\ B[u[g][b]] \in Nat
    <3>1. B[b] = B[u[g][b]] + 0 + 0
      BY <1>7, <2>1, <2>4 DEF FineSide
    <3> QED BY <1>1, <2>2, <3>1
  <2>6. v[g][b] = u[g][b] /\ C[u[g][b]] = B[m]
    BY <1>7, <1>14, <1>15, <2>2, <2>4, <2>5
  <2>7. C[b] = C[u[g][b]] + 0 + 1
    BY <1>5, <1>10, <2>6
  <2> QED BY <1>16, <2>6, <2>7 DEF FineSide
<1> DEFINE S == T \ {k}
           L == {m}
           M == {}
<1>20. /\ Colored(u, S, B, L, 1) /\ p \in S /\ S \in SUBSET T
  BY <1>2, <1>4, <1>6
<1>21. Loose(u, p, d, s, b, L, 1, M, 0)
  BY <1>1, <1>2 DEF Loose
<1>22. Colored(v, S, C, M, 0)
  <2>1. Pivot(u, T, D, K, p, d, s, b, c, v)
    BY <1>12, <1>14
  <2>2. C[s] = B[p] /\ (c[s] = "BLACK" \/ u.color[p] = "RED")
            /\ (b \in S \cap X => Fine(v, C, M, 0, b))
    BY <1>1, <1>9, <1>10, <1>19
  <2>3. Fine(v, C, M, 0, p) /\ Fine(v, C, M, 0, s)
    BY <1>18
  <2>4. /\ Pivot(u, T, D, K, p, d, s, b, c, v) /\ S \in SUBSET T /\ Colored(u, S, B, L, 1)
               /\ p \in S
        /\ Loose(u, p, d, s, b, L, 1, M, 0) /\ X \in SUBSET {p, s, b} /\ SameBut(u, B, c, C, X)
    BY <1>13, <1>20, <1>21, <2>1
  <2> HIDE DEF S, L, M
  <2> QED BY ONLY <2>2, <2>3, <2>4, RotateColored
<1>23. PICK E : Shaped(v, T, E, K) /\ Y \subseteq E[m]
  BY <1>14
<1>24. v.root # k => v.color[v.root] = "BLACK"
  <2>1. u.root \in Node /\ k # p
    BY <1>2, <1>4 DEF Site
  <2>2. CASE u.root = p
    BY <1>6, <1>14, <1>16, <2>1, <2>2
  <2>3. CASE u.root # p
    BY <1>2, <1>6, <1>8, <1>9, <1>14, <2>1, <2>3
  <2> QED BY <2>2, <2>3
<1>25. Balanced(v, T, E, K, T \ {k}, C)
  BY <1>22, <1>23, <1>24 DEF Balanced
<1> QED BY <1>11, <1>14, <1>25 DEF Done

\* delete_case5: the red inner child of the black sibling takes its place.
LEMMA DeleteCase5Turn ==
  ASSUME NEW u, NEW T, NEW D, NEW K, NEW Y, NEW k, NEW B, NEW m, NEW p, NEW d, NEW o, NEW s,
         Lacking(u, T, D, K, Y, k, B, m), Site(u, T, D, k, B, m, p, d, o, s),
         u.color[s] = "BLACK", Color(u, u[d][s]) = "RED", Color(u, u[o][s]) = "BLACK",
         NEW v, v = Rotate(SetColors(u, Case5Colors(u, s, u[d][s])), s, o)
  PROVE  /\ v.next = u.next /\ v.parent[m] = p /\ v[d][p] = m
         /\ Color(v, v[o][p]) = "BLACK" /\ v[o][p] # NULL /\ Color(v, v[o][v[o][p]]) = "RED"
         /\ \E E, C : Lacking(v, T, E, K, Y, k, C, m) /\ Same(u, v, B, C, Y)
<1> DEFINE i == u[d][s]
           x == u[d][i]
           a == u[o][s]
           j == u[o][i]
           c == Case5Colors(u, s, i)
           C == [B EXCEPT ![i] = B[m] + 1, ![s] = B[m]]
           X == {s, i}
<1>1. /\ m \in Node /\ p \in Node /\ s \in Node /\ m \in Link /\ p \in Link /\ s \in Link
      /\ NULL \notin Node /\ NULL \in Link /\ u.color \in Coloring
             /\ u.color \in [Node -> {"RED", "BLACK"}]
      /\ B \in [Link -> Nat \ {0}] /\ B[NULL] = 1
      /\ \A y \in Link : B[y] \in Nat /\ B[y] > 0 /\ (y = NULL \/ y \in Node)
  BY SiteNodes
<1>2. /\ o = Opposite(d) /\ s = u[o][p] /\ d \in Dir /\ o \in Dir /\ s # NULL /\ p \in T /\ m \in T
      /\ u[d][p] = m /\ s # m /\ p # m /\ p # s /\ u.parent[m] = p /\ k \in D[m] /\ d # o
      /\ Dir = {d, o} /\ s \in T /\ u.root # s /\ p # NULL /\ u.root \in T /\ u \in Tree
      /\ d = Opposite(o)
  BY DEF Site
<1>3. \A e \in Dir : /\ u[e][s] \in Link /\ u[e][s] # s /\ u[e][s] # p /\ u[e][s] # m
                     /\ (u[e][s] # NULL => u[e][s] \in D[s] /\ u[e][s] \in T)
  BY DEF Site
<1>4. /\ \A y \in D[m] : /\ y \in T /\ y # p /\ y # s /\ y \notin D[s]
                         /\ \A e \in Dir : u[e][y] # p /\ u[e][y] # s
      /\ D[s] \subseteq T \ {k}
  BY DEF Site
<1>5. /\ B[m] \in Nat /\ B[m] > 0 /\ B[s] = B[m] + 1
      /\ \A e \in Dir : B[u[e][s]] = B[m]
  BY SiteHeights
<1>6. /\ Shaped(u, T, D, K) /\ k \in Y /\ Colored(u, T \ {k}, B, {m}, 1) /\ Y \subseteq D[m]
      /\ u.root # k => u.color[u.root] = "BLACK"
  BY DEF Lacking
<1>7. /\ i \in Node /\ i \in Link /\ i \in T \ {k} /\ i \in D[s]
      /\ i # s /\ i # p /\ i # m /\ i # NULL /\ B[i] = B[m] /\ u.color[i] = "RED"
  BY <1>1, <1>2, <1>3, <1>4, <1>5 DEF Color
<1>8. a \in Link /\ a # s /\ a # p /\ a # m /\ a # i /\ B[a] = B[m] /\ Color(u, a) = "BLACK"
  <2>1. u[d][s] # NULL => u[d][s] # u[Opposite(d)][s]
    BY ONLY <1>2, <1>6, Below
  <2> QED BY <1>2, <1>3, <1>5, <1>7, <2>1
<1>9. /\ u.root # i /\ u.parent[i] = s
      /\ \A e \in Dir : u[e][i] # NULL => u.parent[u[e][i]] = i
  <2>1. /\ u.root # NULL => u.parent[u.root] = NULL
        /\ \A y \in T, e \in Dir : u[e][y] # NULL => u.parent[u[e][y]] = y
    BY ONLY <1>6 DEF Shaped
  <2>2. i \in T
    BY <1>7
  <2>3. u.parent[i] = s
    BY <1>2, <1>7, <2>1
  <2> QED BY <1>2, <1>7, <2>1, <2>2, <2>3
<1>10. \A e \in Dir : /\ u[e][i] \in Link /\ (u[e][i] # NULL => u[e][i] \in D[i] /\ u[e][i] # i)
  <2> SUFFICES ASSUME NEW e \in Dir
               PROVE  u[e][i] \in Link /\ (u[e][i] # NULL => u[e][i] \in D[i] /\ u[e][i] # i)
    OBVIOUS
  <2>1. /\ u[e][i] \in Link /\ D[i] = {i} \cup D[u[e][i]] \cup D[u[Opposite(e)][i]]
        /\ (u[e][i] # NULL => u[e][i] \in D[u[e][i]] /\ u[e][i] # i)
    BY <1>6, <1>7, Below
  <2> QED BY <2>1
<1>11. D[i] \subseteq D[s] /\ p \notin D[s] /\ s \notin D[i]
  <2>1. D[i] \subseteq D[s]
    BY <1>2, <1>6, <1>7, Nested
  <2>2. p \notin D[u[o][p]] /\ s \notin D[u[d][s]]
    BY <1>2, <1>6, Below
  <2> QED BY <1>2, <2>1, <2>2
<1>12. \A e \in Dir : u[e][i] # s /\ u[e][i] # i /\ u[e][i] # m /\ u[e][i] # p
  <2> TAKE e \in Dir
  <2>1. CASE u[e][i] = NULL
    BY ONLY <1>1, <1>7, <2>1
  <2>2. CASE u[e][i] # NULL
    <3>1. u[e][i] \in D[i] /\ u[e][i] # i /\ u.parent[u[e][i]] = i
      BY ONLY <1>9, <1>10, <2>2
    <3> QED BY ONLY <1>2, <1>7, <1>11, <3>1
  <2> QED BY ONLY <2>1, <2>2
<1>13. ASSUME NEW e \in Dir PROVE B[u[e][i]] = B[m] /\ Color(u, u[e][i]) = "BLACK"
  <2>1. FineSide(u, B, {m}, 1, i, e)
    BY <1>6, <1>7 DEF Colored, Fine
  <2>2. B[i] = B[u[e][i]] + 0 + 0 /\ Color(u, u[e][i]) = "BLACK"
    BY <1>7, <1>12, <2>1 DEF FineSide
  <2>3. B[u[e][i]] \in Nat
    BY <1>1, <1>10
  <2> QED BY <1>7, <2>2, <2>3
<1>14. /\ c \in Coloring /\ c[s] = "RED" /\ c[i] = "BLACK"
       /\ \A y \in Node : y # s /\ y # i => c[y] = u.color[y]
  BY <1>1, <1>7 DEF Coloring, Case5Colors
<1>15. /\ C \in [Link -> Nat \ {0}] /\ C[s] = B[m] /\ C[i] = B[m] + 1
       /\ \A y \in Link : y # s /\ y # i => C[y] = B[y]
  <2>1. B[m] + 1 \in Nat \ {0} /\ B[m] \in Nat \ {0}
    BY <1>5
  <2> HIDE DEF i
  <2> QED BY <1>1, <1>7, <2>1
<1>16. /\ v = Rotate(SetColors(u, c), s, o) /\ i = u[d][s] /\ x = u[d][i] /\ a = u[o][s]
              /\ j = u[o][i]
       /\ X = {s, i}
  OBVIOUS
<1>17. x \in Link /\ j \in Link /\ x # s /\ x # i /\ x # m /\ x # p /\ j # s /\ j # i /\ j # m
           /\ j # p
       /\ B[x] = B[m] /\ Color(u, x) = "BLACK" /\ B[j] = B[m] /\ Color(u, j) = "BLACK"
       /\ (x # NULL => x \in D[i]) /\ (j # NULL => j \in D[i])
  BY <1>2, <1>10, <1>12, <1>13
<1> HIDE DEF c, C, i, x, a, j, X
<1>18. /\ SameBut(u, B, c, C, X) /\ X \in SUBSET {s, i, x} /\ C \in Heights
  <2>1. C \in Heights
    BY <1>1, <1>7, <1>15 DEF Heights
  <2> QED BY <1>1, <1>7, <1>14, <1>15, <1>16, <2>1, LinkFacts DEF SameBut
<1>19. Pivot(u, T, D, K, s, o, i, x, c, v)
  BY <1>2, <1>6, <1>7, <1>14, <1>16 DEF Pivot
<1>20. LET oo == Opposite(o)
       IN  /\ v \in Tree /\ v.color = c /\ v.next = u.next /\ \E E : Shaped(v, T, E, K)
           /\ v.root = IF u.root = s THEN i ELSE u.root
           /\ v[oo][s] = u[o][i] /\ v[o][i] = s /\ v[o][s] = u[o][s] /\ v[oo][i] = x
           /\ \A y \in Node \ {s, i}, e \in Dir :
                v[e][y] = IF u[e][y] = s THEN i ELSE u[e][y]
           /\ \A y \in Node : v.parent[y] = IF y = s THEN i
                                           ELSE IF y = i THEN u.parent[s]
                                           ELSE IF y = u[o][i] THEN s ELSE u.parent[y]
           /\ i \in T /\ s # i /\ u.parent[i] = s /\ x \in Link /\ u[o][i] \in Link
  BY ONLY <1>19, PivotLinks
<1>21. /\ v.color = c /\ v.next = u.next /\ v.root = u.root
       /\ v[d][s] = j /\ v[o][i] = s /\ v[o][s] = a /\ v[d][i] = x
       /\ v[d][p] = m /\ v[o][p] = i /\ v.parent[m] = p
  <2>1. /\ v.color = c /\ v.next = u.next /\ v.root = u.root
        /\ v[d][s] = j /\ v[o][i] = s /\ v[o][s] = a /\ v[d][i] = x
    BY <1>2, <1>16, <1>20
  <2>2. \A e \in Dir : v[e][p] = IF u[e][p] = s THEN i ELSE u[e][p]
    <3>1. p \in Node \ {s, i}
      BY <1>1, <1>2, <1>7
    <3> QED BY <1>20, <3>1
  <2>3. v.parent[m] = u.parent[m]
    <3>1. m # s /\ m # i /\ m # u[o][i]
      BY <1>2, <1>7, <1>16, <1>17
    <3> QED BY <1>1, <1>20, <3>1
  <2> QED BY <1>2, <2>1, <2>2, <2>3
<1>22. \E E : Shaped(v, T, E, K) /\ \A y \in Link : y # s /\ y # i => E[y] = D[y]
  BY ONLY <1>19, PivotShaped
<1>23. PICK E : Shaped(v, T, E, K) /\ Y \subseteq E[m]
  BY <1>1, <1>2, <1>6, <1>7, <1>22
<1>24. \A y \in Link : y # s /\ y # i => C[y] = B[y] /\ Color(v, y) = Color(u, y)
  <2> SUFFICES ASSUME NEW y \in Link, y # s, y # i PROVE Color(v, y) = Color(u, y)
    BY <1>15
  <2> QED BY <1>1, <1>14, <1>21 DEF Color
<1>25. /\ C[j] = B[m] /\ Color(v, j) = "BLACK" /\ C[a] = B[m] /\ Color(v, a) = "BLACK"
       /\ C[x] = B[m] /\ Color(v, x) = "BLACK" /\ C[s] = B[m] /\ C[i] = B[m] + 1
       /\ v.color[s] = "RED" /\ v.color[i] = "BLACK"
  BY <1>8, <1>14, <1>15, <1>17, <1>21, <1>24
<1>26. /\ FineSide(v, C, {m}, 1, s, d) /\ FineSide(v, C, {m}, 1, s, o)
       /\ FineSide(v, C, {m}, 1, i, d) /\ FineSide(v, C, {m}, 1, i, o)
  <2>1. /\ C[s] = C[j] + 0 + 0 /\ C[s] = C[a] + 0 + 0
        /\ C[i] = C[x] + 0 + 1 /\ C[i] = C[s] + 0 + 1
    BY <1>5, <1>25
  <2> QED BY ONLY <1>2, <1>8, <1>17, <1>21, <1>25, <2>1 DEF FineSide
<1>27. Fine(v, C, {m}, 1, s) /\ Fine(v, C, {m}, 1, i)
  BY <1>2, <1>26 DEF Fine
<1> DEFINE S == T \ {k}
           L == {m}
<1>28. Colored(u, S, B, L, 1) /\ s \in S /\ S \in SUBSET T
  BY <1>2, <1>4, <1>6
<1>29. Loose(u, s, o, i, x, L, 1, L, 1)
  BY <1>1, <1>2, <1>7 DEF Loose
<1>30. Colored(v, S, C, L, 1)
  <2>1. C[i] = B[s] /\ (c[i] = "BLACK" \/ u.color[s] = "RED")
            /\ (x \in S \cap X => Fine(v, C, L, 1, x))
    BY <1>5, <1>14, <1>16, <1>17, <1>25
  <2>2. Fine(v, C, L, 1, s) /\ Fine(v, C, L, 1, i)
    BY <1>27
  <2>3. /\ Pivot(u, T, D, K, s, o, i, x, c, v) /\ S \in SUBSET T /\ Colored(u, S, B, L, 1)
               /\ s \in S
        /\ Loose(u, s, o, i, x, L, 1, L, 1) /\ X \in SUBSET {s, i, x} /\ SameBut(u, B, c, C, X)
    BY <1>18, <1>19, <1>28, <1>29
  <2> HIDE DEF S, L
  <2> QED BY ONLY <2>1, <2>2, <2>3, RotateColored
<1>31. v.root # k => v.color[v.root] = "BLACK"
  BY ONLY <1>1, <1>2, <1>6, <1>9, <1>14, <1>21 DEF Shaped
<1>32. Lacking(v, T, E, K, Y, k, C, m)
  BY <1>2, <1>6, <1>23, <1>30, <1>31 DEF Lacking
<1>33. Same(u, v, B, C, Y)
  <2>1. Y \in SUBSET T /\ X \in SUBSET {s, i, x} /\ SameBut(u, B, c, C, X)
    BY <1>4, <1>6, <1>18
  <2>2. \A y \in Y : /\ y # s /\ y # i /\ y # x /\ y # u[o][i]
                     /\ \A e \in Dir : u[e][y] # s
    <3>1. \A y \in Y : y # NULL
      BY <1>1, <1>6, <2>1 DEF Shaped
    <3> QED BY <1>4, <1>6, <1>7, <1>11, <1>16, <1>17, <3>1
  <2> QED BY ONLY <1>19, <2>1, <2>2, PivotSame
<1>34. \E F, G : Lacking(v, T, F, K, Y, k, G, m) /\ Same(u, v, B, G, Y)
  BY <1>32, <1>33
<1>35. /\ v.next = u.next /\ v.parent[m] = p /\ v[d][p] = m
       /\ Color(v, v[o][p]) = "BLACK" /\ v[o][p] # NULL /\ Color(v, v[o][v[o][p]]) = "RED"
  BY ONLY <1>2, <1>7, <1>21, <1>25 DEF Color
<1> QED BY <1>16, <1>34, <1>35

\* Doing one thing after the other.
LEMMA DoneAfter ==
  ASSUME NEW u, NEW v, NEW w, NEW T, NEW K, NEW Y, NEW k, NEW B, NEW C,
         Same(u, v, B, C, Y), v.next = u.next, Done(v, w, T, K, Y, k, C)
  PROVE  Done(u, w, T, K, Y, k, B)
<1>1. PICK E, F : Balanced(w, T, E, K, T \ {k}, F) /\ Same(v, w, C, F, Y)
  BY DEF Done
<1>2. Same(u, w, B, F, Y) /\ w.next = u.next
  BY <1>1 DEF Same, Done
<1> QED BY <1>1, <1>2 DEF Done

\* The site of m after a rotation that leaves m on its side.
LEMMA SiteAgain ==
  ASSUME NEW v, NEW T, NEW D, NEW K, NEW Y, NEW k, NEW B, NEW m, NEW p, NEW d,
         Lacking(v, T, D, K, Y, k, B, m), v.parent[m] = p, p # NULL, p \in Node, d \in Dir,
         v[d][p] = m
  PROVE  Site(v, T, D, k, B, m, p, d, Opposite(d), v[Opposite(d)][p])
<1>1. PICK q, e, o, s : Site(v, T, D, k, B, m, q, e, o, s)
  BY SiteOf
<1>2. q = p /\ e = Side(v, m) /\ o = Opposite(e) /\ s = v[o][q]
  BY <1>1 DEF Site
<1>3. d = Side(v, m)
  <2>1. Shaped(v, T, D, K) /\ m \in T
    BY DEF Lacking
  <2> QED BY <2>1, OneParent
<1> QED BY <1>1, <1>2, <1>3

\* Cases 5 and 6.
LEMMA DeleteCase5Sound ==
  ASSUME NEW u, NEW T, NEW D, NEW K, NEW Y, NEW k, NEW B, NEW m, NEW p, NEW d, NEW o, NEW s,
         Lacking(u, T, D, K, Y, k, B, m), Site(u, T, D, k, B, m, p, d, o, s),
         Color(u, s) = "BLACK", ~AllBlack(u, s)
  PROVE  Done(u, DeleteCase5(u, m), T, K, Y, k, B)
<1>1. /\ o = Opposite(d) /\ s = u[o][p] /\ d \in Dir /\ o \in Dir /\ s # NULL /\ p \in T /\ m \in T
      /\ Dir = {d, o} /\ s \in T /\ p # NULL /\ u \in Tree /\ u.color[s] = "BLACK"
      /\ p = u.parent[m] /\ d = Side(u, m) /\ Sibling(u, m) = s /\ p # s
      /\ \A e \in Dir : u[e][s] \in Link /\ u[e][s] # s
  BY DEF Site, Color
<1>2. p \in Node /\ s \in Node /\ NULL \notin Node
  BY SiteNodes
<1>3. \A e \in Dir : Color(u, u[e][s]) \in {"RED", "BLACK"}
  BY <1>1, ColorFacts
<1>4. CASE Color(u, u[d][s]) = "RED" /\ Color(u, u[o][s]) = "BLACK"
  <2> DEFINE c == Case5Colors(u, s, u[d][s])
             v == Rotate(SetColors(u, c), s, o)
  <2>1. DeleteCase5(u, m) = DeleteCase6(v, m)
    <3>1. [u EXCEPT !.color[s] = "RED", !.color[u[d][s]] = "BLACK"] = SetColors(u, c)
      BY <1>1 DEF SetColors, Tree, Case5Colors
    <3> HIDE DEF c
    <3>2. DeleteCase5(u, m) =
            DeleteCase6(Rotate([u EXCEPT !.color[s] = "RED", !.color[u[d][s]] = "BLACK"], s, o), m)
      BY <1>1, <1>4 DEF DeleteCase5
    <3> QED BY <3>1, <3>2
  <2>2. /\ v.next = u.next /\ v.parent[m] = p /\ v[d][p] = m
        /\ Color(v, v[o][p]) = "BLACK" /\ v[o][p] # NULL /\ Color(v, v[o][v[o][p]]) = "RED"
        /\ \E E, C : Lacking(v, T, E, K, Y, k, C, m) /\ Same(u, v, B, C, Y)
    <3>1. v = Rotate(SetColors(u, Case5Colors(u, s, u[d][s])), s, o) /\ u.color[s] = "BLACK"
      BY <1>1
    <3> HIDE DEF v
    <3> QED BY ONLY Lacking(u, T, D, K, Y, k, B, m), Site(u, T, D, k, B, m, p, d, o, s), <1>4, <3>1,
                    DeleteCase5Turn
  <2> HIDE DEF c, v
  <2>3. PICK E, C : Lacking(v, T, E, K, Y, k, C, m) /\ Same(u, v, B, C, Y)
    BY <2>2
  <2>4. Site(v, T, E, k, C, m, p, d, o, v[o][p])
    BY <1>1, <1>2, <2>2, <2>3, SiteAgain
  <2>5. v.color[v[o][p]] = "BLACK"
    BY <2>2 DEF Color
  <2>6. Done(v, DeleteCase6(v, m), T, K, Y, k, C)
    BY ONLY <2>2, <2>3, <2>4, <2>5, DeleteCase6Sound
  <2> QED BY ONLY <2>1, <2>2, <2>3, <2>6, DoneAfter
<1>5. CASE ~(Color(u, u[d][s]) = "RED" /\ Color(u, u[o][s]) = "BLACK")
  <2>1. DeleteCase5(u, m) = DeleteCase6(u, m)
    BY <1>1, <1>5 DEF DeleteCase5
  <2>2. Color(u, u[o][s]) = "RED"
    <3>1. PICK e \in Dir : Color(u, u[e][s]) # "BLACK"
      BY <1>1, AllBlackIs
    <3> QED BY <1>1, <1>3, <1>5, <3>1
  <2>3. Done(u, DeleteCase6(u, m), T, K, Y, k, B)
    BY <1>1, <2>2, DeleteCase6Sound
  <2> QED BY <2>1, <2>3
<1> QED BY <1>4, <1>5

\* Case 4 with the cases behind it.
LEMMA DeleteCase4Sound ==
  ASSUME NEW u, NEW T, NEW D, NEW K, NEW Y, NEW k, NEW B, NEW m, NEW p, NEW d, NEW o, NEW s,
         Lacking(u, T, D, K, Y, k, B, m), Site(u, T, D, k, B, m, p, d, o, s),
         Color(u, s) = "BLACK", Color(u, p) = "RED" \/ ~AllBlack(u, s)
  PROVE  Done(u, DeleteCase4(u, m), T, K, Y, k, B)
<1>1. CASE Color(u, p) = "RED" /\ AllBlack(u, s)
  BY <1>1, DeleteCase4Last
<1>2. CASE ~(Color(u, p) = "RED" /\ AllBlack(u, s))
  <2>1. ~AllBlack(u, s)
    BY <1>2
  <2>2. p = u.parent[m] /\ Sibling(u, m) = s
    BY DEF Site
  <2>3. DeleteCase4(u, m) = DeleteCase5(u, m)
    BY <1>2, <2>2 DEF DeleteCase4
  <2>4. Done(u, DeleteCase5(u, m), T, K, Y, k, B)
    BY <2>1, DeleteCase5Sound
  <2> QED BY <2>3, <2>4
<1> QED BY <1>1, <1>2

\* Case 2 with the cases behind it.
LEMMA DeleteCase2Sound ==
  ASSUME NEW u, NEW T, NEW D, NEW K, NEW Y, NEW k, NEW B, NEW m, NEW p, NEW d, NEW o, NEW s,
         Lacking(u, T, D, K, Y, k, B, m), Site(u, T, D, k, B, m, p, d, o, s),
         ~(Color(u, p) = "BLACK" /\ AllBlack(u, s))
  PROVE  Done(u, DeleteCase4(DeleteCase2(u, m), m), T, K, Y, k, B)
<1>1. /\ o = Opposite(d) /\ d \in Dir /\ s # NULL /\ p # NULL /\ u \in Tree /\ p # s
      /\ p = u.parent[m] /\ d = Side(u, m) /\ Sibling(u, m) = s
  BY DEF Site
<1>2. p \in Node /\ s \in Node /\ p \in Link /\ s \in Link
  BY SiteNodes
<1>3. CASE Color(u, s) = "RED"
  <2> DEFINE c == Case2Colors(u, p, s)
             v == Rotate(SetColors(u, c), p, d)
  <2>1. DeleteCase2(u, m) = v
    <3>1. [u EXCEPT !.color[p] = "RED", !.color[s] = "BLACK"] = SetColors(u, c)
      BY <1>1 DEF SetColors, Tree, Case2Colors
    <3> HIDE DEF c
    <3> QED BY <1>1, <1>3, <3>1 DEF DeleteCase2
  <2>2. /\ v.next = u.next /\ v.parent[m] = p /\ Color(v, p) = "RED"
        /\ v[d][p] = m /\ Color(v, v[o][p]) = "BLACK"
        /\ \E E, C : Lacking(v, T, E, K, Y, k, C, m) /\ Same(u, v, B, C, Y)
    <3>1. u.color[s] = "RED"
      BY <1>1, <1>3 DEF Color
    <3>2. v = Rotate(SetColors(u, Case2Colors(u, p, s)), p, d)
      OBVIOUS
    <3> HIDE DEF v
    <3> QED BY ONLY Lacking(u, T, D, K, Y, k, B, m), Site(u, T, D, k, B, m, p, d, o, s),
                    <3>1, <3>2, DeleteCase2Turn
  <2> HIDE DEF c, v
  <2>3. PICK E, C : Lacking(v, T, E, K, Y, k, C, m) /\ Same(u, v, B, C, Y)
    BY <2>2
  <2>4. Site(v, T, E, k, C, m, p, d, o, v[o][p])
    BY <1>1, <1>2, <2>2, <2>3, SiteAgain
  <2>5. Done(v, DeleteCase4(v, m), T, K, Y, k, C)
    BY ONLY <2>2, <2>3, <2>4, DeleteCase4Sound
  <2>6. Done(u, DeleteCase4(v, m), T, K, Y, k, B)
    BY ONLY <2>2, <2>3, <2>5, DoneAfter
  <2> QED BY <2>1, <2>6
<1>4. CASE Color(u, s) # "RED"
  <2>1. DeleteCase2(u, m) = u
    BY <1>1, <1>4 DEF DeleteCase2
  <2>2. Color(u, s) = "BLACK" /\ (Color(u, p) = "RED" \/ ~AllBlack(u, s))
    BY <1>1, <1>2, <1>4, ColorFacts
  <2>3. Done(u, DeleteCase4(u, m), T, K, Y, k, B)
    BY <2>2, DeleteCase4Sound
  <2> QED BY <2>1, <2>3
<1> QED BY <1>3, <1>4

\* delete_case1 for the colors q[1] and the node q[2].
DeleteStops(u, q) ==
  LET m == q[2]
      v == SetColors(u, q[1])
      p == u.parent[m]
  IN  p = NULL \/ ~(Color(v, p) = "BLACK" /\ AllBlack(v, Sibling(v, m)))

DeleteEnd(u, q) ==
  LET m == q[2]
      v == SetColors(u, q[1])
  IN  IF u.parent[m] = NULL THEN v ELSE DeleteCase4(DeleteCase2(v, m), m)

DeleteOn(u, q) ==
  LET m == q[2]
      v == SetColors(u, q[1])
  IN  <<[q[1] EXCEPT ![Sibling(v, m)] = "RED"], u.parent[m]>>

DeleteBody(u, f) ==
  [q \in Coloring \X Node |->
     LET m == q[2]
         v == [u EXCEPT !.color = q[1]]
         p == u.parent[m]
         s == Sibling(v, m)
     IN  IF p = NULL THEN v
         ELSE IF Color(v, p) = "BLACK" /\ AllBlack(v, s)
           THEN f[<<[q[1] EXCEPT ![s] = "RED"], p>>]
         ELSE DeleteCase4(DeleteCase2(v, m), m)]

Deletes(u) == CHOOSE f : f = DeleteBody(u, f)

LEMMA DeleteBodyIs ==
  ASSUME NEW u \in Tree, NEW f
  PROVE  DeleteBody(u, f) = [q \in Coloring \X Node |->
           IF DeleteStops(u, q) THEN DeleteEnd(u, q) ELSE f[DeleteOn(u, q)]]
<1>1. ASSUME NEW q \in Coloring \X Node
      PROVE  DeleteBody(u, f)[q] =
               IF DeleteStops(u, q) THEN DeleteEnd(u, q) ELSE f[DeleteOn(u, q)]
  BY DEF DeleteBody, DeleteStops, DeleteEnd, DeleteOn, SetColors
<1> QED BY <1>1 DEF DeleteBody

LEMMA DeleteStep ==
  ASSUME NEW u \in Tree, NEW mu, Ascending(u, mu)
  PROVE  /\ \A q \in Coloring \X Node :
              Deletes(u)[q] = IF DeleteStops(u, q) THEN DeleteEnd(u, q)
                              ELSE Deletes(u)[DeleteOn(u, q)]
         /\ \A q \in Coloring \X Node : ~DeleteStops(u, q) =>
              DeleteOn(u, q) \in Coloring \X Node /\ mu[DeleteOn(u, q)[2]] < mu[q[2]]
<1> DEFINE S == Coloring \X Node
           Stop == {q \in S : DeleteStops(u, q)}
           nx == [q \in S \ Stop |-> DeleteOn(u, q)]
           val == [q \in Stop |-> DeleteEnd(u, q)]
           V == {DeleteEnd(u, q) : q \in S} \cup {NULL}
           rho == [q \in S |-> mu[q[2]]]
           h == Deletes(u)
<1>1. /\ mu \in [Link -> Nat] /\ \A n \in Node : mu[u.parent[n]] < mu[n]
      /\ u.parent \in [Node -> Link]
  BY DEF Ascending, Tree
<1>2. \A q \in S \ Stop : DeleteOn(u, q) \in S /\ mu[DeleteOn(u, q)[2]] < mu[q[2]]
  <2> TAKE q \in S \ Stop
  <2>1. q[1] \in Coloring /\ q[2] \in Node /\ ~DeleteStops(u, q)
    OBVIOUS
  <2> DEFINE p == u.parent[q[2]]
  <2>2. p # NULL
    BY <2>1 DEF DeleteStops
  <2>3. p \in Node /\ mu[p] < mu[q[2]]
    BY <1>1, <2>1, <2>2, LinkFacts
  <2>5. DeleteOn(u, q)[2] = p /\ DeleteOn(u, q) = <<DeleteOn(u, q)[1], p>>
        /\ DeleteOn(u, q)[1] = [q[1] EXCEPT ![Sibling(SetColors(u, q[1]), q[2])] = "RED"]
    BY DEF DeleteOn
  <2>6. DeleteOn(u, q)[1] \in Coloring
    BY <2>1, <2>5 DEF Coloring
  <2> HIDE DEF p
  <2> QED BY <2>3, <2>5, <2>6
<1>3. rho \in [S -> Nat] /\ \A q \in S : rho[q] = mu[q[2]]
  <2>1. \A q \in S : mu[q[2]] \in Nat
    BY <1>1, LinkFacts
  <2> HIDE DEF S
  <2> QED BY <2>1
<1> HIDE DEF S, rho
<1>4. /\ Stop \in SUBSET S /\ nx \in [S \ Stop -> S] /\ val \in [Stop -> V]
      /\ \A q \in S \ Stop : nx[q] = DeleteOn(u, q)
      /\ \A q \in Stop : val[q] = DeleteEnd(u, q)
      /\ \A q \in S : q \in Stop <=> DeleteStops(u, q)
  BY <1>2
<1>5. Walking(S, V, Stop, nx, val, rho) /\ V # {}
  <2>1. \A q \in S \ Stop : rho[nx[q]] < rho[q]
    BY <1>2, <1>3, <1>4
  <2>2. NULL \in V
    OBVIOUS
  <2> HIDE DEF V, Stop, nx, val
  <2> QED BY <1>3, <1>4, <2>1, <2>2 DEF Walking
<1>6. \A f : DeleteBody(u, f) = [q \in S |-> IF q \in Stop THEN val[q] ELSE f[nx[q]]]
  <2> TAKE f
  <2>1. DeleteBody(u, f) = [q \in S |->
           IF DeleteStops(u, q) THEN DeleteEnd(u, q) ELSE f[DeleteOn(u, q)]]
    BY DeleteBodyIs DEF S
  <2> QED BY <1>4, <2>1
<1>12. \A q \in S : q \in Stop <=> DeleteStops(u, q)
  BY <1>4
<1> HIDE DEF V, Stop, nx, val
<1>7. PICK f : Tails(S, Stop, nx, val, f)
  BY <1>5, TailExists
<1>8. f = DeleteBody(u, f)
  BY <1>6, <1>7 DEF Tails
<1>9. h = DeleteBody(u, h)
  BY <1>8 DEF Deletes
<1>10. Tails(S, Stop, nx, val, h)
  BY <1>6, <1>9 DEF Tails
<1>11. \A q \in S : h[q] = IF q \in Stop THEN val[q] ELSE h[nx[q]]
  BY <1>5, <1>10, TailFixed
<1>13. \A q \in S : h[q] = IF DeleteStops(u, q) THEN DeleteEnd(u, q) ELSE h[DeleteOn(u, q)]
  BY <1>4, <1>11, <1>12
<1>14. \A q \in S : ~DeleteStops(u, q) => DeleteOn(u, q) \in S /\ mu[DeleteOn(u, q)[2]] < mu[q[2]]
  BY <1>2, <1>12
<1> QED BY <1>13, <1>14 DEF S

\* The black node that is about to leave is balanced away.
LEMMA DeleteSound ==
  ASSUME NEW u, NEW T, NEW D, NEW K, NEW Y, NEW k, NEW B, NEW n, Lacking(u, T, D, K, Y, k, B, n)
  PROVE  Done(u, DeleteCase1(u, n), T, K, Y, k, B)
<1> DEFINE S == Coloring \X Node
           Is(q, C) == Lacking(SetColors(u, q[1]), T, D, K, Y, k, C, q[2])
           Good(q, C) == Done(SetColors(u, q[1]), Deletes(u)[q], T, K, Y, k, C)
           P == {q \in S : \A C : Is(q, C) => Good(q, C)}
<1>1. Shaped(u, T, D, K) /\ u \in Tree /\ n \in Node /\ u.color \in Coloring
  BY DEF Lacking, Shaped, Tree
<1>2. PICK mu : Ascending(u, mu)
  BY <1>1, Acyclic
<1>3. mu \in [Link -> Nat]
  BY <1>2 DEF Ascending
<1> DEFINE rho == [q \in S |-> mu[q[2]]]
<1>4. rho \in [S -> Nat] /\ \A q \in S : rho[q] = mu[q[2]]
  <2>1. \A q \in S : mu[q[2]] \in Nat
    BY <1>3, LinkFacts
  <2> HIDE DEF S
  <2> QED BY <2>1
<1>5. /\ \A q \in S : Deletes(u)[q] = IF DeleteStops(u, q) THEN DeleteEnd(u, q)
                                       ELSE Deletes(u)[DeleteOn(u, q)]
      /\ \A q \in S : ~DeleteStops(u, q) =>
              DeleteOn(u, q) \in S /\ mu[DeleteOn(u, q)[2]] < mu[q[2]]
  BY <1>1, <1>2, DeleteStep
<1> HIDE DEF rho
<1>6. ASSUME NEW q \in S, \A j \in S : rho[j] < rho[q] => j \in P PROVE q \in P
  <2>1. SUFFICES ASSUME NEW C, Is(q, C) PROVE Good(q, C)
    BY <1>6
  <2> DEFINE c == q[1]
             m == q[2]
             v == SetColors(u, c)
             p == u.parent[m]
  <2>2. c \in Coloring /\ m \in Node /\ Lacking(v, T, D, K, Y, k, C, m)
    BY <2>1
  <2>3. /\ v \in Tree /\ v.color = c /\ v.next = u.next /\ v.parent = u.parent
    BY <1>1, <2>2, ColorsShaped
  <2>4. \A e : SetColors(v, e) = SetColors(u, e)
    BY <1>1, <2>2, ColorsAgain
  <2>6. CASE p = NULL
    <3>1. Deletes(u)[q] = v
      BY <1>5, <2>6 DEF DeleteStops, DeleteEnd
    <3>2. Done(v, v, T, K, Y, k, C)
      BY <2>2, <2>3, <2>6, DeleteTop
    <3> QED BY <3>1, <3>2
  <2>7. CASE p # NULL
    <3>1. PICK r, d, o, s : Site(v, T, D, k, C, m, r, d, o, s)
      BY <2>2, <2>3, <2>7, SiteOf
    <3>2. r = p /\ s = Sibling(v, m)
      BY <2>3, <3>1 DEF Site
    <3>3. CASE ~(Color(v, r) = "BLACK" /\ AllBlack(v, s))
      <4>1. Deletes(u)[q] = DeleteCase4(DeleteCase2(v, m), m)
        BY <1>5, <2>7, <3>2, <3>3 DEF DeleteStops, DeleteEnd
      <4>2. Done(v, DeleteCase4(DeleteCase2(v, m), m), T, K, Y, k, C)
        BY ONLY <2>2, <3>1, <3>3, DeleteCase2Sound
      <4> QED BY <4>1, <4>2
    <3>4. CASE Color(v, r) = "BLACK" /\ AllBlack(v, s)
      <4> DEFINE j == DeleteOn(u, q)
                 w == SetColors(u, j[1])
      <4>1. ~DeleteStops(u, q)
        BY <2>7, <3>2, <3>4 DEF DeleteStops
      <4>2. j \in S /\ Deletes(u)[q] = Deletes(u)[j] /\ mu[j[2]] < mu[q[2]]
        BY <1>5, <4>1
      <4>3. j[1] = [v.color EXCEPT ![s] = "RED"] /\ j[2] = r
        BY <2>3, <3>2 DEF DeleteOn
      <4> HIDE DEF j
      <4>4. j \in P
        BY <1>4, <1>6, <4>2
      <4>5. LET x == SetColors(v, [v.color EXCEPT ![s] = "RED"])
            IN  x.next = v.next /\ \E A : Lacking(x, T, D, K, Y, k, A, r) /\ Same(v, x, C, A, Y)
        <5> HIDE DEF v
        <5> QED BY ONLY <2>2, <3>1, <3>4, DeleteClimb
      <4>6. w = SetColors(v, [v.color EXCEPT ![s] = "RED"])
        BY <2>4, <4>3
      <4> HIDE DEF v, w
      <4>7. w.next = v.next /\ \E A : Lacking(w, T, D, K, Y, k, A, r) /\ Same(v, w, C, A, Y)
        BY <4>5, <4>6
      <4>8. PICK A : Lacking(w, T, D, K, Y, k, A, r) /\ Same(v, w, C, A, Y)
        BY <4>7
      <4>9. Is(j, A)
        BY <4>3, <4>8 DEF w
      <4>10. Done(w, Deletes(u)[j], T, K, Y, k, A)
        BY <4>4, <4>9 DEF w
      <4>11. Done(v, Deletes(u)[j], T, K, Y, k, C)
        BY ONLY <4>7, <4>8, <4>10, DoneAfter
      <4> QED BY <4>2, <4>11 DEF v
    <3> QED BY <3>3, <3>4
  <2> QED BY <2>6, <2>7
<1> HIDE DEF P
<1>7. S \subseteq P
  <2> HIDE DEF S
  <2>1. rho \in [S -> Nat] /\ \A x \in S : (\A y \in S : rho[y] < rho[x] => y \in P) => x \in P
    BY <1>4, <1>6
  <2> QED BY ONLY <2>1, MeasureInduction
<1> DEFINE q == <<u.color, n>>
<1>8. q \in S /\ q[1] = u.color /\ q[2] = n
  BY <1>1
<1>9. SetColors(u, u.color) = u
  BY <1>1 DEF SetColors, Tree
<1>10. Is(q, B)
  BY <1>8, <1>9
<1>11. Good(q, B)
  BY <1>7, <1>8, <1>10 DEF P
<1>12. DeleteCase1(u, n) = Deletes(u)[q]
  BY DEF DeleteCase1, Deletes, DeleteBody
<1> QED BY <1>8, <1>9, <1>11, <1>12

(***************************************************************************)
(* A node comes into the tree, or leaves it.                               *)
(***************************************************************************)
\* Only the order of the keys matters.
LEMMA OrderShaped ==
  ASSUME NEW u, NEW T, NEW D, NEW K, Shaped(u, T, D, K), NEW J \in [Node -> Int],
         \A a, b \in T : K[a] < K[b] => J[a] < J[b]
  PROVE  Shaped(u, T, D, J)
<1>1. ASSUME NEW n \in T, NEW d \in Dir, NEW m \in D[u[d][n]] PROVE Before(d, J[m], J[n])
  <2>1. Before(d, K[m], K[n]) /\ D[u[d][n]] \in SUBSET T
    <3>1. u[d][n] \in Link
      BY Below
    <3> QED BY <3>1 DEF Shaped
  <2> QED BY <2>1 DEF Before
<1> QED BY <1>1 DEF Shaped

\* y is w without n, whose child c takes its place.
Cut(w, n, c, y) ==
  /\ y \in Tree /\ y.root = IF w.root = n THEN c ELSE w.root
  /\ \A m \in Node, d \in Dir :
       y[d][m] = IF m = n THEN NULL ELSE IF w[d][m] = n THEN c ELSE w[d][m]
  /\ \A m \in Node :
       y.parent[m] = IF m = n THEN NULL ELSE IF m = c THEN w.parent[n] ELSE w.parent[m]

LEMMA CutShaped ==
  ASSUME NEW w, NEW T, NEW D, NEW K, Shaped(w, T, D, K), NEW n \in T, NEW e \in Dir,
         w[e][n] = NULL, NEW c, c = w[Opposite(e)][n], NEW y, Cut(w, n, c, y)
  PROVE  Shaped(y, T \ {n}, [j \in Link |-> D[j] \ {n}], K)
<1> DEFINE F == [j \in Link |-> D[j] \ {n}]
           S == T \ {n}
<1>1. /\ w \in Tree /\ T \in SUBSET Node /\ K \in [Node -> Int] /\ D \in [Link -> SUBSET T]
      /\ D[NULL] = {} /\ D[w.root] = T
      /\ w.root # NULL => w.root \in T /\ w.parent[w.root] = NULL
      /\ \A m \in T : D[m] = {m} \cup D[w["left"][m]] \cup D[w["right"][m]]
      /\ \A m \in T, d \in Dir :
           w[d][m] # NULL => w[d][m] \in T /\ w.parent[w[d][m]] = m
      /\ \A m \in T, d \in Dir : \A x \in D[w[d][m]] : Before(d, K[x], K[m])
      /\ \A m \in T : w.parent[m] = NULL => m = w.root
      /\ \A m \in T : w.parent[m] # NULL =>
           w.parent[m] \in T /\ \E d \in Dir : w[d][w.parent[m]] = m
      /\ \A m \in Node \ T : w.parent[m] = NULL /\ \A d \in Dir : w[d][m] = NULL
  BY DEF Shaped
<1>2. NULL \notin Node /\ NULL \in Link /\ Node \subseteq Link /\ n \in Node /\ n # NULL
  BY <1>1, LinkFacts
<1>3. "left" \in Dir /\ "right" \in Dir /\ Opposite(e) \in Dir /\ Dir = {e, Opposite(e)}
  BY Dirs DEF Dir
<1>4. /\ c \in Link /\ D[n] = {n} \cup D[c] /\ n \notin D[c] /\ c # n
      /\ c # NULL => c \in T /\ w.parent[c] = n
  <2>1. /\ w[Opposite(e)][n] \in Link
        /\ D[n] = {n} \cup D[w[Opposite(e)][n]] \cup D[w[Opposite(Opposite(e))][n]]
        /\ n \notin D[w[Opposite(e)][n]]
        /\ w[Opposite(e)][n] # NULL => w[Opposite(e)][n] # n
    BY <1>3, Below
  <2>2. Opposite(Opposite(e)) = e
    BY Dirs
  <2> QED BY <1>1, <1>2, <1>3, <2>1, <2>2
<1>5. \A m \in S : m \in T /\ m \in Node /\ m # n /\ m # NULL
  BY <1>1, <1>2
<1>6. /\ y \in Tree /\ y.root = IF w.root = n THEN c ELSE w.root
      /\ \A m \in Node, d \in Dir :
           y[d][m] = IF m = n THEN NULL ELSE IF w[d][m] = n THEN c ELSE w[d][m]
      /\ \A m \in Node :
           y.parent[m] = IF m = n THEN NULL ELSE IF m = c THEN w.parent[n] ELSE w.parent[m]
  BY DEF Cut
<1>7. F \in [Link -> SUBSET S] /\ \A j \in Link : F[j] = D[j] \ {n}
  BY <1>1
<1> HIDE DEF F
<1>8. ASSUME NEW m \in S, NEW d \in Dir PROVE F[y[d][m]] = D[w[d][m]] \ {n}
  <2>1. w[d][m] \in Link
    BY <1>5, Below
  <2> QED BY <1>4, <1>5, <1>6, <1>7, <2>1
<1>9. F[NULL] = {} /\ F[y.root] = S
  <2>1. w.root \in Link
    BY <1>1, <1>2
  <2> QED BY <1>1, <1>2, <1>4, <1>6, <1>7, <2>1
<1>10. y.root # NULL => y.root \in S /\ y.parent[y.root] = NULL
  BY <1>1, <1>2, <1>4, <1>6
<1>11. \A m \in S : F[m] = {m} \cup F[y["left"][m]] \cup F[y["right"][m]]
  BY <1>1, <1>2, <1>3, <1>5, <1>7, <1>8
<1>12. \A m \in S, d \in Dir : y[d][m] # NULL => y[d][m] \in S /\ y.parent[y[d][m]] = m
  <2> SUFFICES ASSUME NEW m \in S, NEW d \in Dir, y[d][m] # NULL
               PROVE  y[d][m] \in S /\ y.parent[y[d][m]] = m
    OBVIOUS
  <2>1. CASE w[d][m] = n
    BY <1>1, <1>2, <1>4, <1>5, <1>6, <2>1
  <2>2. CASE w[d][m] # n
    <3>1. y[d][m] = w[d][m] /\ w[d][m] \in T /\ w.parent[w[d][m]] = m
      BY <1>1, <1>5, <1>6, <2>2
    <3> QED BY <1>1, <1>4, <1>5, <1>6, <2>2, <3>1
  <2> QED BY <2>1, <2>2
<1>13. \A m \in S, d \in Dir : \A x \in F[y[d][m]] : Before(d, K[x], K[m])
  BY <1>1, <1>8
<1>14. \A m \in S : y.parent[m] = NULL => m = y.root
  BY <1>1, <1>4, <1>5, <1>6
<1>15. \A m \in S : y.parent[m] # NULL =>
         y.parent[m] \in S /\ \E d \in Dir : y[d][y.parent[m]] = m
  <2> SUFFICES ASSUME NEW m \in S, y.parent[m] # NULL
               PROVE  y.parent[m] \in S /\ \E d \in Dir : y[d][y.parent[m]] = m
    OBVIOUS
  <2> DEFINE a == IF m = c THEN n ELSE m
             q == w.parent[a]
  <2>1. a \in T /\ y.parent[m] = q /\ q # NULL
    BY <1>5, <1>6
  <2> HIDE DEF a
  <2>2. q \in T /\ \E d \in Dir : w[d][q] = a
    BY <1>1, <2>1
  <2> HIDE DEF q
  <2>3. PICK d \in Dir : w[d][q] = a
    BY <2>2
  <2>4. q # n
    <3>1. w[d][q] # NULL => w[d][q] # q
      BY <2>2, Below
    <3>2. q = n => a # n /\ (a = NULL \/ a = c)
      BY <1>3, <1>5, <2>1, <2>3, <3>1, <1>2
    <3> QED BY <1>1, <1>2, <2>1, <3>2 DEF a
  <2>5. q \in Node
    BY <1>1, <2>2
  <2>6. y[d][q] = m
    BY <1>5, <1>6, <2>3, <2>4, <2>5 DEF a
  <2> QED BY <2>1, <2>2, <2>4, <2>6
<1>16. \A m \in Node \ S : y.parent[m] = NULL /\ \A d \in Dir : y[d][m] = NULL
  BY <1>1, <1>2, <1>4, <1>6
<1>17. Shaped(y, S, F, K)
  <2>1. y \in Tree /\ S \in SUBSET Node /\ K \in [Node -> Int] /\ F \in [Link -> SUBSET S]
    BY <1>1, <1>6, <1>7
  <2> HIDE DEF S
  <2> QED BY <2>1, <1>9, <1>10, <1>11, <1>12, <1>13, <1>14, <1>15, <1>16 DEF Shaped
<1> QED BY <1>17 DEF F

\* y is w with n below p.
Hung(w, p, d, n, y) ==
  /\ y \in Tree /\ y.root = w.root
  /\ \A m \in Node, g \in Dir : y[g][m] = IF m = p /\ g = d THEN n ELSE w[g][m]
  /\ \A m \in Node : y.parent[m] = IF m = n THEN p ELSE w.parent[m]

HungBelow(D, p, n) ==
  [x \in Link |-> IF x = n THEN {n} ELSE IF p \in D[x] THEN D[x] \cup {n} ELSE D[x]]

LEMMA HungShaped ==
  ASSUME NEW w, NEW T, NEW D, NEW K, Shaped(w, T, D, K), NEW p \in T, NEW d \in Dir,
         w[d][p] = NULL, NEW n \in Node \ T, NEW y, Hung(w, p, d, n, y), Before(d, K[n], K[p]),
         \A a \in T, g \in Dir : p \in D[w[g][a]] => Before(g, K[n], K[a])
  PROVE  Shaped(y, T \cup {n}, HungBelow(D, p, n), K)
<1> DEFINE F == HungBelow(D, p, n)
           S == T \cup {n}
<1>1. /\ w \in Tree /\ T \in SUBSET Node /\ K \in [Node -> Int] /\ D \in [Link -> SUBSET T]
      /\ D[NULL] = {} /\ D[w.root] = T
      /\ w.root # NULL => w.root \in T /\ w.parent[w.root] = NULL
      /\ \A m \in T : D[m] = {m} \cup D[w["left"][m]] \cup D[w["right"][m]]
      /\ \A m \in T, g \in Dir :
           w[g][m] # NULL => w[g][m] \in T /\ w.parent[w[g][m]] = m
      /\ \A m \in T, g \in Dir : \A x \in D[w[g][m]] : Before(g, K[x], K[m])
      /\ \A m \in T : w.parent[m] = NULL => m = w.root
      /\ \A m \in T : w.parent[m] # NULL =>
           w.parent[m] \in T /\ \E g \in Dir : w[g][w.parent[m]] = m
      /\ \A m \in Node \ T : w.parent[m] = NULL /\ \A g \in Dir : w[g][m] = NULL
  BY DEF Shaped
<1>2. NULL \notin Node /\ NULL \in Link /\ Node \subseteq Link /\ n \in Node /\ n # NULL
          /\ p \in Node
  BY <1>1, LinkFacts
<1>3. "left" \in Dir /\ "right" \in Dir
  BY DEF Dir
<1>4. /\ y \in Tree /\ y.root = w.root
      /\ \A m \in Node, g \in Dir : y[g][m] = IF m = p /\ g = d THEN n ELSE w[g][m]
      /\ \A m \in Node : y.parent[m] = IF m = n THEN p ELSE w.parent[m]
  BY DEF Hung
<1>5. /\ F \in [Link -> SUBSET S] /\ F[n] = {n} /\ F[NULL] = {}
      /\ \A x \in Link : x # n => F[x] = IF p \in D[x] THEN D[x] \cup {n} ELSE D[x]
  BY <1>1, <1>2 DEF HungBelow
<1> HIDE DEF F
<1>6. ASSUME NEW m \in T, NEW g \in Dir
      PROVE  /\ w[g][m] \in Link /\ w[g][m] # n
             /\ F[w[g][m]] = IF p \in D[w[g][m]] THEN D[w[g][m]] \cup {n} ELSE D[w[g][m]]
  <2>1. w[g][m] \in Link /\ w[g][m] # n
    BY <1>1, <1>2, Below
  <2> QED BY <1>5, <2>1
<1>7. \A m \in Node, g \in Dir : m = n => y[g][m] = NULL
  BY <1>1, <1>2, <1>4
<1>8. F[y.root] = S
  <2>1. w.root \in T
    BY <1>1
  <2> QED BY <1>1, <1>2, <1>4, <1>5, <2>1
<1>9. y.root # NULL => y.root \in S /\ y.parent[y.root] = NULL
  BY <1>1, <1>2, <1>4
<1>10. ASSUME NEW m \in S PROVE F[m] = {m} \cup F[y["left"][m]] \cup F[y["right"][m]]
  <2>1. CASE m = n
    BY <1>2, <1>3, <1>5, <1>7, <2>1
  <2>2. CASE m = p
    <3> DEFINE o == Opposite(d)
    <3>1. o \in Dir /\ o # d /\ Dir = {d, o}
      BY Dirs
    <3>2. D[p] = {p} \cup D[w[d][p]] \cup D[w[o][p]] /\ p \in D[p]
      BY Below
    <3>3. p \notin D[w[o][p]]
      BY <3>1, Below
    <3>4. y[d][p] = n /\ y[o][p] = w[o][p]
      BY <1>2, <1>4, <3>1
    <3>5. F[w[o][p]] = D[w[o][p]]
      BY <1>6, <3>1, <3>3
    <3>6. F[p] = D[p] \cup {n}
      BY <1>2, <1>5, <3>2
    <3>7. F[p] = {p} \cup F[y[d][p]] \cup F[y[o][p]]
      BY <1>1, <1>5, <3>2, <3>4, <3>5, <3>6
    <3> HIDE DEF o
    <3>8. (d = "left" /\ o = "right") \/ (d = "right" /\ o = "left")
      BY <3>1 DEF Dir
    <3> QED BY <2>2, <3>7, <3>8
  <2>3. CASE m # n /\ m # p
    <3>1. m \in T /\ m \in Node /\ m \in Link
      BY <1>1, <1>2, <2>3
    <3>2. \A g \in Dir : y[g][m] = w[g][m]
      BY <1>4, <2>3, <3>1
    <3>3. p \in D[m] <=> p \in D[w["left"][m]] \/ p \in D[w["right"][m]]
      BY <1>1, <2>3, <3>1
    <3> DEFINE a == w["left"][m]
               b == w["right"][m]
    <3>4. /\ F[a] = IF p \in D[a] THEN D[a] \cup {n} ELSE D[a]
          /\ F[b] = IF p \in D[b] THEN D[b] \cup {n} ELSE D[b]
          /\ F[m] = IF p \in D[m] THEN D[m] \cup {n} ELSE D[m]
          /\ y["left"][m] = a /\ y["right"][m] = b /\ D[m] = {m} \cup D[a] \cup D[b]
      BY <1>1, <1>3, <1>5, <1>6, <2>3, <3>1, <3>2
    <3> HIDE DEF a, b
    <3>5. p \in D[m] <=> p \in D[a] \/ p \in D[b]
      BY <2>3, <3>4
    <3> QED BY ONLY <3>4, <3>5
  <2> QED BY <2>1, <2>2, <2>3
<1>11. \A m \in S, g \in Dir : y[g][m] # NULL => y[g][m] \in S /\ y.parent[y[g][m]] = m
  BY <1>1, <1>2, <1>4
<1>12. ASSUME NEW m \in S, NEW g \in Dir, NEW x \in F[y[g][m]] PROVE Before(g, K[x], K[m])
  <2>1. CASE m = n
    BY <1>2, <1>5, <1>7, <1>12, <2>1
  <2>2. CASE m = p /\ g = d
    BY <1>2, <1>4, <1>5, <1>12, <2>2
  <2>3. CASE m # n /\ ~(m = p /\ g = d)
    <3>1. m \in T /\ y[g][m] = w[g][m]
      BY <1>1, <1>4, <2>3
    <3>2. x \in F[w[g][m]]
      BY <1>12, <3>1
    <3>3. x \in D[w[g][m]] \/ (x = n /\ p \in D[w[g][m]])
      <4>1. F[w[g][m]] = IF p \in D[w[g][m]] THEN D[w[g][m]] \cup {n} ELSE D[w[g][m]]
        BY ONLY <1>6, <3>1, g \in Dir
      <4> QED BY ONLY <3>2, <4>1
    <3> QED BY <1>1, <3>1, <3>3
  <2> QED BY <2>1, <2>2, <2>3
<1>13. \A m \in S : y.parent[m] = NULL => m = y.root
  BY <1>1, <1>2, <1>4
<1>14. ASSUME NEW m \in S, y.parent[m] # NULL
       PROVE  y.parent[m] \in S /\ \E g \in Dir : y[g][y.parent[m]] = m
  <2>1. CASE m = n
    BY <1>2, <1>4, <2>1
  <2>2. CASE m # n
    <3>1. m \in T /\ y.parent[m] = w.parent[m]
      BY <1>1, <1>4, <2>2
    <3>2. PICK g \in Dir : w[g][w.parent[m]] = m
      BY <1>1, <1>14, <3>1
    <3>3. w.parent[m] \in T
      BY <1>1, <1>14, <3>1
    <3>4. y[g][w.parent[m]] = m
      BY <1>1, <1>2, <1>4, <3>1, <3>2, <3>3
    <3> QED BY <3>1, <3>3, <3>4
  <2> QED BY <2>1, <2>2
<1>15. \A m \in Node \ S : y.parent[m] = NULL /\ \A g \in Dir : y[g][m] = NULL
  BY <1>1, <1>2, <1>4
<1>16. Shaped(y, S, F, K)
  <2>1. y \in Tree /\ S \in SUBSET Node /\ K \in [Node -> Int] /\ F \in [Link -> SUBSET S]
    BY <1>1, <1>2, <1>4, <1>5
  <2> HIDE DEF S
  <2> QED BY <2>1, <1>5, <1>8, <1>9, <1>10, <1>11, <1>12, <1>13, <1>14, <1>15 DEF Shaped
<1> QED BY <1>16 DEF F

\* n becomes the root of an empty tree.
LEMMA RootShaped ==
  ASSUME NEW w, NEW D, NEW K, Shaped(w, {}, D, K), NEW n \in Node, NEW y \in Tree, y.root = n,
         \A m \in Node, g \in Dir : y[g][m] = w[g][m], y.parent = w.parent
  PROVE  Shaped(y, {n}, [x \in Link |-> IF x = n THEN {n} ELSE {}], K)
<1> DEFINE F == [x \in Link |-> IF x = n THEN {n} ELSE {}]
<1>1. /\ K \in [Node -> Int]
      /\ \A m \in Node : w.parent[m] = NULL /\ \A g \in Dir : w[g][m] = NULL
  BY DEF Shaped
<1>2. NULL \notin Node /\ NULL \in Link /\ n \in Link
  BY LinkFacts
<1>3. F \in [Link -> SUBSET {n}] /\ F[n] = {n} /\ F[NULL] = {}
  BY <1>2
<1>4. "left" \in Dir /\ "right" \in Dir
  BY DEF Dir
<1>5. \A m \in Node : y.parent[m] = NULL /\ \A g \in Dir : y[g][m] = NULL
  BY <1>1
<1> HIDE DEF F
<1>6. Shaped(y, {n}, F, K)
  BY <1>1, <1>2, <1>3, <1>4, <1>5 DEF Shaped
<1> QED BY <1>6 DEF F

(***************************************************************************)
(* A node and its predecessor change places.                               *)
(***************************************************************************)
\* v is u with the nodes renamed by h.
Renaming(h, T) ==
  /\ h \in [Link -> Link] /\ h[NULL] = NULL /\ \A x \in Link : h[h[x]] = x
  /\ \A x \in T : h[x] \in T

Renamed(u, h, v) ==
  /\ v \in Tree /\ v.root = h[u.root]
  /\ \A m \in Node : /\ v.parent[m] = h[u.parent[h[m]]] /\ v.color[m] = u.color[h[m]]
                     /\ \A d \in Dir : v[d][m] = h[u[d][h[m]]]

RenamedBelow(h, T, D) == [x \in Link |-> {y \in T : h[y] \in D[h[x]]}]

LEMMA RenamingFacts ==
  ASSUME NEW h, NEW T \in SUBSET Node, Renaming(h, T)
  PROVE  /\ \A x \in Link : h[x] \in Link /\ h[h[x]] = x /\ (h[x] = NULL <=> x = NULL)
         /\ \A x \in Node : h[x] \in Node
         /\ \A x \in Link : h[x] \in T <=> x \in T
<1>1. NULL \notin Node /\ NULL \in Link /\ Node \subseteq Link
          /\ \A x \in Link : x = NULL \/ x \in Node
  BY LinkFacts
<1>2. \A x \in Link : h[x] \in Link /\ h[h[x]] = x /\ (h[x] = NULL <=> x = NULL)
  BY <1>1 DEF Renaming
<1> QED BY <1>1, <1>2 DEF Renaming

LEMMA RenamedShaped ==
  ASSUME NEW u, NEW T, NEW D, NEW K, Shaped(u, T, D, K), NEW h, Renaming(h, T),
         NEW v, Renamed(u, h, v)
  PROVE  Shaped(v, T, RenamedBelow(h, T, D), [m \in Node |-> K[h[m]]])
<1> DEFINE F == RenamedBelow(h, T, D)
           J == [m \in Node |-> K[h[m]]]
<1>1. /\ u \in Tree /\ T \in SUBSET Node /\ K \in [Node -> Int] /\ D \in [Link -> SUBSET T]
      /\ D[NULL] = {} /\ D[u.root] = T
      /\ u.root # NULL => u.root \in T /\ u.parent[u.root] = NULL
      /\ \A m \in T : D[m] = {m} \cup D[u["left"][m]] \cup D[u["right"][m]]
      /\ \A m \in T, d \in Dir :
           u[d][m] # NULL => u[d][m] \in T /\ u.parent[u[d][m]] = m
      /\ \A m \in T, d \in Dir : \A x \in D[u[d][m]] : Before(d, K[x], K[m])
      /\ \A m \in T : u.parent[m] = NULL => m = u.root
      /\ \A m \in T : u.parent[m] # NULL =>
           u.parent[m] \in T /\ \E d \in Dir : u[d][u.parent[m]] = m
      /\ \A m \in Node \ T : u.parent[m] = NULL /\ \A d \in Dir : u[d][m] = NULL
  BY DEF Shaped
<1>2. /\ \A x \in Link : h[x] \in Link /\ h[h[x]] = x /\ (h[x] = NULL <=> x = NULL)
      /\ \A x \in Node : h[x] \in Node
      /\ \A x \in Link : h[x] \in T <=> x \in T
  BY <1>1, RenamingFacts
<1>3. NULL \notin Node /\ NULL \in Link /\ Node \subseteq Link
  BY LinkFacts
<1>4. \A x \in T : x \in Node /\ x \in Link /\ x # NULL /\ h[x] \in T /\ h[x] \in Node
  BY <1>1, <1>2, <1>3
<1>5. /\ v \in Tree /\ v.root = h[u.root]
      /\ \A m \in Node : v.parent[m] = h[u.parent[h[m]]]
      /\ \A m \in Node, d \in Dir : v[d][m] = h[u[d][h[m]]]
  BY DEF Renamed
<1>6. /\ F \in [Link -> SUBSET T] /\ \A x \in Link : F[x] = {y \in T : h[y] \in D[h[x]]}
  BY DEF RenamedBelow
<1>7. J \in [Node -> Int] /\ \A m \in Node : J[m] = K[h[m]]
  BY <1>1, <1>2
<1> HIDE DEF F, J
<1>8. u.root \in Link /\ \A m \in T, d \in Dir : u[d][m] \in Link
  <2>1. u.root \in Link
    BY <1>1, <1>3
  <2>2. \A m \in T, d \in Dir : u[d][m] \in Link
    BY Below
  <2> QED BY <2>1, <2>2
<1>9. ASSUME NEW m \in T, NEW d \in Dir
      PROVE  F[v[d][m]] = {y \in T : h[y] \in D[u[d][h[m]]]}
  <2>1. v[d][m] = h[u[d][h[m]]] /\ u[d][h[m]] \in Link
    BY <1>4, <1>5, <1>8
  <2>2. v[d][m] \in Link /\ h[v[d][m]] = u[d][h[m]]
    BY <1>2, <2>1
  <2> QED BY <1>6, <2>2
<1>10. F[NULL] = {} /\ F[v.root] = T
  <2>1. h[NULL] = NULL
    BY <1>2, <1>3
  <2>2. F[NULL] = {}
    BY <1>1, <1>3, <1>6, <2>1
  <2>3. v.root \in Link /\ h[v.root] = u.root
    BY <1>2, <1>5, <1>8
  <2>4. F[v.root] = {y \in T : h[y] \in T}
    BY <1>1, <1>6, <2>3
  <2> QED BY <1>4, <2>2, <2>4
<1>11. v.root # NULL => v.root \in T /\ v.parent[v.root] = NULL
  <2> SUFFICES ASSUME v.root # NULL PROVE v.root \in T /\ v.parent[v.root] = NULL
    OBVIOUS
  <2>1. u.root # NULL /\ u.root \in T /\ u.parent[u.root] = NULL
    BY <1>1, <1>2, <1>3, <1>5, <1>8
  <2>2. v.root \in T /\ h[v.root] = u.root
    BY <1>2, <1>4, <1>5, <2>1
  <2> QED BY <1>2, <1>3, <1>4, <1>5, <2>1, <2>2
<1>12. ASSUME NEW m \in T PROVE F[m] = {m} \cup F[v["left"][m]] \cup F[v["right"][m]]
  <2>1. "left" \in Dir /\ "right" \in Dir
    BY DEF Dir
  <2>2. /\ F[v["left"][m]] = {y \in T : h[y] \in D[u["left"][h[m]]]}
        /\ F[v["right"][m]] = {y \in T : h[y] \in D[u["right"][h[m]]]}
        /\ F[m] = {y \in T : h[y] \in D[h[m]]}
    BY <1>4, <1>6, <1>9, <2>1
  <2>3. D[h[m]] = {h[m]} \cup D[u["left"][h[m]]] \cup D[u["right"][h[m]]]
    BY <1>1, <1>4
  <2>4. \A y \in T : h[y] = h[m] <=> y = m
    BY <1>2, <1>4
  <2> QED BY <2>2, <2>3, <2>4
<1>13. ASSUME NEW m \in T, NEW d \in Dir, v[d][m] # NULL
       PROVE  v[d][m] \in T /\ v.parent[v[d][m]] = m
  <2>1. v[d][m] = h[u[d][h[m]]] /\ u[d][h[m]] \in Link /\ h[m] \in T
    BY <1>4, <1>5, <1>8
  <2>2. u[d][h[m]] # NULL
    BY <1>2, <1>13, <2>1
  <2>3. u[d][h[m]] \in T /\ u.parent[u[d][h[m]]] = h[m]
    BY <1>1, <2>1, <2>2
  <2>4. v[d][m] \in T /\ h[v[d][m]] = u[d][h[m]]
    BY <1>2, <1>4, <2>1, <2>3
  <2> QED BY <1>2, <1>4, <1>5, <2>3, <2>4
<1>14. ASSUME NEW m \in T, NEW d \in Dir, NEW x \in F[v[d][m]] PROVE Before(d, J[x], J[m])
  <2>1. x \in T /\ h[x] \in D[u[d][h[m]]] /\ h[m] \in T
    BY <1>4, <1>9, <1>14
  <2>2. Before(d, K[h[x]], K[h[m]])
    BY <1>1, <2>1
  <2> QED BY <1>4, <1>7, <2>1, <2>2
<1>15. ASSUME NEW m \in T, v.parent[m] = NULL PROVE m = v.root
  <2>1. u.parent[h[m]] \in Link
    BY <1>1, <1>4 DEF Tree
  <2>2. u.parent[h[m]] = NULL
    BY <1>2, <1>4, <1>5, <1>15, <2>1
  <2>3. h[m] = u.root
    BY <1>1, <1>4, <2>2
  <2> QED BY <1>2, <1>4, <1>5, <2>3
<1>16. ASSUME NEW m \in T, v.parent[m] # NULL
       PROVE  v.parent[m] \in T /\ \E d \in Dir : v[d][v.parent[m]] = m
  <2>1. u.parent[h[m]] \in Link
    BY <1>1, <1>4 DEF Tree
  <2>2. u.parent[h[m]] # NULL
    BY <1>2, <1>3, <1>4, <1>5, <1>16, <2>1
  <2>3. u.parent[h[m]] \in T /\ \E d \in Dir : u[d][u.parent[h[m]]] = h[m]
    BY <1>1, <1>4, <2>2
  <2>4. PICK d \in Dir : u[d][u.parent[h[m]]] = h[m]
    BY <2>3
  <2>5. v.parent[m] \in T /\ h[v.parent[m]] = u.parent[h[m]]
    BY <1>2, <1>4, <1>5, <2>1, <2>3
  <2>6. v[d][v.parent[m]] = h[h[m]]
    BY <1>4, <1>5, <2>4, <2>5
  <2> QED BY <1>2, <1>4, <2>5, <2>6
<1>17. ASSUME NEW m \in Node \ T PROVE v.parent[m] = NULL /\ \A d \in Dir : v[d][m] = NULL
  <2>1. m \in Link /\ h[m] \in Node \ T
    BY <1>2, <1>3
  <2> QED BY <1>1, <1>2, <1>3, <1>5, <2>1
<1>18. Shaped(v, T, F, J)
  <2>1. v \in Tree /\ T \in SUBSET Node
    BY <1>1, <1>5
  <2> QED BY <2>1, <1>6, <1>7, <1>10, <1>11, <1>12, <1>13, <1>14, <1>15, <1>16, <1>17 DEF Shaped
<1> QED BY <1>18 DEF F, J

LEMMA RenamedColored ==
  ASSUME NEW u, NEW T, NEW D, NEW K, Shaped(u, T, D, K), NEW h, Renaming(h, T),
         NEW v, Renamed(u, h, v),
         NEW B, Colored(u, T, B, {}, 0)
  PROVE  Colored(v, T, [x \in Link |-> B[h[x]]], {}, 0)
<1> DEFINE C == [x \in Link |-> B[h[x]]]
<1>1. u \in Tree /\ T \in SUBSET Node
  BY DEF Shaped
<1>2. /\ \A x \in Link : h[x] \in Link /\ h[h[x]] = x /\ (h[x] = NULL <=> x = NULL)
      /\ \A x \in Node : h[x] \in Node
      /\ \A x \in Link : h[x] \in T <=> x \in T
  BY <1>1, RenamingFacts
<1>3. NULL \notin Node /\ NULL \in Link /\ Node \subseteq Link
          /\ \A x \in Link : x = NULL \/ x \in Node
  BY LinkFacts
<1>4. C \in Heights
  <2>1. B \in [Link -> Nat \ {0}] /\ B[NULL] = 1
    BY <1>3, HeightFacts DEF Colored
  <2> QED BY <1>2, <1>3, <2>1 DEF Heights
<1>5. \A x \in Link : C[x] = B[h[x]]
  OBVIOUS
<1> HIDE DEF C
<1>6. ASSUME NEW m \in T, NEW d \in Dir PROVE FineSide(v, C, {}, 0, m, d)
  <2>1. m \in Node /\ m \in Link /\ h[m] \in T /\ h[m] \in Node
    BY <1>1, <1>2, <1>3
  <2>2. FineSide(u, B, {}, 0, h[m], d)
    BY <2>1 DEF Colored, Fine
  <2>3. u[d][h[m]] \in Link
    BY <2>1, Below
  <2> DEFINE a == u[d][h[m]]
             b == v[d][m]
  <2>4. b = h[a] /\ v.color[m] = u.color[h[m]] /\ b \in Link /\ h[b] = a /\ a \in Link
    BY <1>2, <2>1, <2>3 DEF Renamed
  <2>5. B[h[m]] = B[a] + 0 + (IF u.color[h[m]] = "BLACK" THEN 1 ELSE 0)
        /\ (u.color[h[m]] = "RED" => Color(u, a) = "BLACK")
    BY <2>2 DEF FineSide
  <2> HIDE DEF a
  <2>6. C[m] = B[h[m]] /\ C[b] = B[a]
    BY <1>5, <2>1, <2>4
  <2>7. Color(v, b) = Color(u, a)
    <3>1. CASE b = NULL
      BY <1>2, <2>4, <3>1 DEF Color
    <3>2. CASE b # NULL
      <4>1. b \in Node /\ a # NULL
        BY <1>2, <1>3, <2>4, <3>2
      <4>2. v.color[b] = u.color[h[b]]
        BY <4>1 DEF Renamed
      <4> HIDE DEF b
      <4> QED BY <2>4, <3>2, <4>1, <4>2 DEF Color
    <3> QED BY <3>1, <3>2
  <2> QED BY <2>4, <2>5, <2>6, <2>7 DEF FineSide
<1>7. Colored(v, T, C, {}, 0)
  BY <1>4, <1>6 DEF Colored, Fine
<1> QED BY <1>7 DEF C

\* The node x in the place of n and n in that of x.
Exchange(n, x) == [m \in Node \cup {NULL} |-> IF m = n THEN x ELSE IF m = x THEN n ELSE m]

LEMMA SwapRenames ==
  ASSUME NEW u \in Tree, NEW T \in SUBSET Node, NEW n \in T, NEW x \in T,
         NEW v, v = SwapNodes(u, n, x), NEW h, h = Exchange(n, x)
  PROVE  Renaming(h, T) /\ Renamed(u, h, v) /\ v.next = u.next
<1>1. NULL \notin Node /\ NULL \in Link /\ Link = Node \cup {NULL} /\ n \in Node /\ x \in Node
  BY LinkFacts DEF Link
<1>2. h \in [Link -> Link] /\ h[NULL] = NULL /\ h[n] = x /\ h[x] = n
      /\ \A m \in Link : m # n /\ m # x => h[m] = m
  BY <1>1 DEF Exchange
<1>3. Renaming(h, T)
  BY <1>1, <1>2 DEF Renaming
<1>4. \A m \in Node : h[m] \in Node
  BY <1>1, <1>2
<1> DEFINE Moved(f) == [m \in Node |-> h[f[h[m]]]]
           w == [u EXCEPT !.root = h[u.root], !.left = Moved(u.left), !.right = Moved(u.right),
                          !.parent = Moved(u.parent), !.color = [m \in Node |-> u.color[h[m]]]]
<1>5. v = w
  BY DEF SwapNodes, Exchange
<1>6. /\ u.root \in Link /\ u.left \in [Node -> Link] /\ u.right \in [Node -> Link]
      /\ u.parent \in [Node -> Link] /\ u.next \in [Node -> Link]
      /\ u.color \in [Node -> {"RED", "BLACK"}]
  BY DEF Tree, Coloring
<1>7. \A f \in [Node -> Link] : Moved(f) \in [Node -> Link]
          /\ \A m \in Node : Moved(f)[m] = h[f[h[m]]]
  BY <1>2, <1>4
<1> DEFINE c == [m \in Node |-> u.color[h[m]]]
           l == Moved(u.left)
           r == Moved(u.right)
           p == Moved(u.parent)
           o == h[u.root]
<1>8. /\ c \in [Node -> {"RED", "BLACK"}] /\ \A m \in Node : c[m] = u.color[h[m]]
      /\ o \in Link
  BY <1>2, <1>4, <1>6
<1>9. /\ l \in [Node -> Link] /\ r \in [Node -> Link] /\ p \in [Node -> Link]
      /\ \A m \in Node : /\ l[m] = h[u.left[h[m]]] /\ r[m] = h[u.right[h[m]]]
                         /\ p[m] = h[u.parent[h[m]]]
  BY <1>6, <1>7
<1>10. w = [u EXCEPT !.root = o, !.left = l, !.right = r, !.parent = p, !.color = c]
           /\ o = h[u.root]
  OBVIOUS
<1> HIDE DEF c, l, r, p, o, w
<1>11. /\ w \in Tree /\ w.root = o /\ w["left"] = l /\ w["right"] = r /\ w.parent = p /\ w.color = c
       /\ w.next = u.next
  BY <1>6, <1>8, <1>9, <1>10 DEF Tree, Coloring
<1>12. Renamed(u, h, v)
  <2>1. \A m \in Node, d \in Dir : w[d][m] = h[u[d][h[m]]]
    <3>1. u.left = u["left"] /\ u.right = u["right"]
      OBVIOUS
    <3> QED BY <1>9, <1>11, <3>1 DEF Dir
  <2> QED BY <1>5, <1>8, <1>9, <1>10, <1>11, <2>1 DEF Renamed
<1> QED BY <1>3, <1>5, <1>11, <1>12

\* Nothing is between a node and the greatest node of its left subtree.
LEMMA PredecessorOrder ==
  ASSUME NEW u, NEW T, NEW D, NEW K, Shaped(u, T, D, K), NEW n \in T, u["left"][n] # NULL,
         NEW x, x = MaximumNode(u, u["left"][n])
  PROVE  /\ x \in T /\ x # n /\ x \in D[u["left"][n]] /\ u["right"][x] = NULL
         /\ K[x] < K[n]
         /\ \A b \in T \ {n, x} : (K[n] < K[b] <=> K[x] < K[b]) /\ (K[b] < K[n] <=> K[b] < K[x])
<1> DEFINE l == u["left"][n]
<1>1. "left" \in Dir /\ "right" \in Dir /\ Opposite("left") = "right"
  BY DEF Dir, Opposite
<1>2. /\ l \in T /\ u \in Tree /\ K \in [Node -> Int] /\ T \in SUBSET Node
      /\ \A m \in D[l] : K[m] < K[n]
      /\ \A m \in D[u["right"][n]] : K[n] < K[m]
  BY <1>1 DEF Shaped, Before
<1>3. /\ D[n] = {n} \cup D[l] \cup D[u["right"][n]] /\ n \notin D[l]
  <2>1. /\ D[n] = {n} \cup D[u["left"][n]] \cup D[u[Opposite("left")][n]]
        /\ n \notin D[u["left"][n]]
    BY <1>1, Below
  <2> QED BY <1>1, <2>1
<1> HIDE DEF l
<1>4. LET z == MaximumNode(u, l)
      IN  /\ z \in D[l] /\ z \in T /\ u.right[z] = NULL
          /\ \A m \in D[l] : m = z \/ K[m] < K[z]
  BY <1>2, MaximumIs
<1>5. /\ x \in D[l] /\ x \in T /\ u.right[x] = NULL
      /\ \A m \in D[l] : m = x \/ K[m] < K[x]
  BY <1>4 DEF l
<1>6. K[x] < K[n] /\ x # n /\ x \in D[n]
  BY <1>2, <1>3, <1>5
<1>7. ASSUME NEW b \in T \ {n, x}
      PROVE  (K[n] < K[b] <=> K[x] < K[b]) /\ (K[b] < K[n] <=> K[b] < K[x])
  <2>1. K[b] \in Int /\ K[x] \in Int /\ K[n] \in Int
    BY <1>2, <1>5
  <2>2. CASE b \in D[l]
    BY <1>2, <1>5, <1>6, <2>1, <2>2
  <2>3. CASE b \in D[u["right"][n]]
    BY <1>2, <1>6, <2>1, <2>3
  <2>4. CASE b \notin D[n]
    <3>1. (\A z \in D[n] : K[z] < K[b]) \/ (\A z \in D[n] : K[b] < K[z])
      BY <2>4, Apart
    <3>2. n \in D[n]
      BY <1>3
    <3> QED BY <1>6, <2>1, <3>1, <3>2
  <2> QED BY <1>3, <2>2, <2>3, <2>4
<1>8. u["right"][x] = NULL
  BY <1>5
<1> QED BY <1>5, <1>6, <1>7, <1>8 DEF l

(***************************************************************************)
(* A node leaves the tree.                                                 *)
(***************************************************************************)
\* n is ready to be replaced by c.
Ready(w, T, E, K, n, e, c, C) ==
  /\ Shaped(w, T, E, K) /\ w[e][n] = NULL /\ w[Opposite(e)][n] = c
  /\ Colored(w, T \ {n}, C, {}, 0) /\ (w.root \in T \ {n} => w.color[w.root] = "BLACK")
  /\ C[n] = C[c] /\ (w.color[n] = "BLACK" => Color(w, c) = "BLACK")

LEMMA CutBalanced ==
  ASSUME NEW w, NEW T, NEW D, NEW K, NEW n \in T, NEW e \in Dir, NEW c, NEW C,
         Ready(w, T, D, K, n, e, c, C), NEW y, Cut(w, n, c, y),
         \A j \in Node \ {n} :
           y.color[j] = IF j = c /\ w.parent[n] = NULL THEN "BLACK" ELSE w.color[j]
  PROVE  \E E, G : Balanced(y, T \ {n}, E, K, T \ {n}, G)
<1> DEFINE S == T \ {n}
           Up == w.parent[n] = NULL /\ c # NULL /\ w.color[c] = "RED"
           G == [x \in Link |-> IF Up /\ x = c THEN C[x] + 1 ELSE C[x]]
<1> /\ Shaped(w, T, D, K) /\ w[e][n] = NULL /\ c = w[Opposite(e)][n]
    /\ Colored(w, T \ {n}, C, {}, 0) /\ (w.root \in T \ {n} => w.color[w.root] = "BLACK")
    /\ C[n] = C[c] /\ (w.color[n] = "BLACK" => Color(w, c) = "BLACK")
  BY DEF Ready
<1>1. Shaped(y, S, [j \in Link |-> D[j] \ {n}], K)
  BY CutShaped
<1>2. /\ T \in SUBSET Node /\ w \in Tree
      /\ w.root # NULL => w.root \in T /\ w.parent[w.root] = NULL
      /\ \A m \in T, d \in Dir :
           w[d][m] # NULL => w[d][m] \in T /\ w.parent[w[d][m]] = m
  BY DEF Shaped
<1>3. NULL \notin Node /\ NULL \in Link /\ Node \subseteq Link /\ n \in Node /\ n # NULL
      /\ \A x \in Link : x = NULL \/ x \in Node
  BY <1>2, LinkFacts
<1>4. /\ c \in Link /\ c # n /\ (c # NULL => c \in T /\ w.parent[c] = n)
  <2>1. Opposite(e) \in Dir
    BY Dirs
  <2>2. /\ w[Opposite(e)][n] \in Link
        /\ w[Opposite(e)][n] # NULL => w[Opposite(e)][n] # n
    BY <2>1, Below
  <2> QED BY <1>2, <1>3, <2>1, <2>2
<1>5. /\ y.root = IF w.root = n THEN c ELSE w.root
      /\ \A m \in Node, d \in Dir :
           y[d][m] = IF m = n THEN NULL ELSE IF w[d][m] = n THEN c ELSE w[d][m]
  BY DEF Cut
<1>6. C \in [Link -> Nat \ {0}] /\ C[NULL] = 1
  BY <1>3, HeightFacts DEF Colored
<1>7. /\ G \in Heights
      /\ \A x \in Link : G[x] = IF Up /\ x = c THEN C[x] + 1 ELSE C[x]
  <2>1. G \in [Link -> Nat \ {0}]
    BY <1>6
  <2> QED BY <1>3, <1>6, <2>1 DEF Heights
<1> HIDE DEF G
<1>8. ASSUME NEW a \in S, NEW d \in Dir PROVE FineSide(y, G, {}, 0, a, d)
  <2>1. FineSide(w, C, {}, 0, a, d) /\ a \in T /\ a \in Node /\ a \in Link /\ a # n
    BY <1>2, <1>3 DEF Colored, Fine
  <2>2. w[d][a] \in Link
    BY <2>1, Below
  <2>3. /\ C[a] = C[w[d][a]] + 0 + (IF w.color[a] = "BLACK" THEN 1 ELSE 0)
        /\ w.color[a] = "RED" => Color(w, w[d][a]) = "BLACK"
    BY <2>1 DEF FineSide
  <2>4. CASE w[d][a] = n
    <3>1. w.parent[n] = a /\ a # NULL
      BY <1>2, <1>3, <2>1, <2>4
    <3>2. ~Up /\ y.color[a] = w.color[a] /\ y[d][a] = c /\ G[a] = C[a] /\ G[c] = C[c]
      BY <1>4, <1>5, <1>7, <2>1, <2>4, <3>1
    <3>3. Color(y, c) = Color(w, c)
      BY <1>3, <1>4, <3>1 DEF Color
    <3>4. w.color[a] = "RED" => w.color[n] = "BLACK"
      BY <1>3, <2>3, <2>4 DEF Color
    <3> QED BY <2>3, <2>4, <3>2, <3>3, <3>4 DEF FineSide
  <2>5. CASE w[d][a] # n
    <3> DEFINE b == w[d][a]
    <3>1. y[d][a] = b
      BY <1>5, <2>1, <2>5
    <3>2. b # NULL => b # c /\ b \in Node
      BY <1>2, <1>3, <1>4, <2>1, <2>2
    <3>3. Color(y, b) = Color(w, b) /\ G[b] = C[b]
      <4>1. CASE b = NULL
        BY <1>3, <1>7, <4>1 DEF Color
      <4>2. CASE b # NULL
        BY <1>7, <2>2, <2>5, <3>2, <4>2 DEF Color
      <4> QED BY <4>1, <4>2
    <3> HIDE DEF b
    <3>4. C[b] \in Nat /\ C[a] \in Nat /\ b = w[d][a]
      BY <1>6, <2>1, <2>2 DEF b
    <3>5. CASE a = c /\ w.parent[n] = NULL
      <4>1. y.color[a] = "BLACK"
        BY <2>1, <3>5
      <4>2. w.color[a] \in {"RED", "BLACK"}
        BY <1>2, <2>1 DEF Tree, Coloring
      <4>3. G[a] = G[b] + 0 + 1
        <5>1. CASE w.color[a] = "RED"
          <6>1. G[a] = C[a] + 1 /\ C[a] = C[b] + 0 + 0
            BY <1>3, <1>7, <2>1, <2>3, <3>4, <3>5, <5>1
          <6> QED BY <3>3, <3>4, <6>1
        <5>2. CASE w.color[a] = "BLACK"
          BY <1>7, <2>1, <2>3, <3>3, <3>4, <3>5, <5>2
        <5> QED BY <4>2, <5>1, <5>2
      <4> QED BY <3>1, <4>1, <4>3 DEF FineSide
    <3>6. CASE ~(a = c /\ w.parent[n] = NULL)
      <4>1. y.color[a] = w.color[a] /\ G[a] = C[a]
        BY <1>7, <2>1, <3>6
      <4> QED BY <2>3, <3>1, <3>3, <3>4, <4>1 DEF FineSide
    <3> QED BY <3>5, <3>6
  <2> QED BY <2>4, <2>5
<1>9. Colored(y, S, G, {}, 0)
  BY <1>7, <1>8 DEF Colored, Fine
<1>10. y.root \in S => y.color[y.root] = "BLACK"
  BY <1>2, <1>3, <1>4, <1>5
<1> HIDE DEF S
<1>11. Balanced(y, S, [j \in Link |-> D[j] \ {n}], K, S, G)
  BY <1>1, <1>9, <1>10 DEF Balanced
<1> QED BY <1>11 DEF S

\* What Unlink does to the colors before n is replaced.
Prepared(v, n, c) ==
  IF Color(v, n) = "BLACK" THEN DeleteCase1([v EXCEPT !.color[n] = Color(v, c)], n) ELSE v

LEMMA PreparedReady ==
  ASSUME NEW v, NEW T, NEW D, NEW K, NEW B, Balanced(v, T, D, K, T, B), NEW n \in T, NEW e \in Dir,
         v[e][n] = NULL, NEW c, c = v[Opposite(e)][n], NEW w, w = Prepared(v, n, c)
  PROVE  w.next = v.next /\ \E E, C : Ready(w, T, E, K, n, e, c, C)
<1> DEFINE o == Opposite(e)
<1>1. /\ Shaped(v, T, D, K) /\ Colored(v, T, B, {}, 0) /\ v \in Tree /\ T \in SUBSET Node
      /\ (v.root \in T => v.color[v.root] = "BLACK") /\ (v.root # NULL => v.root \in T)
      /\ D[v.root] = T /\ D[NULL] = {}
      /\ \A m \in T, d \in Dir : v[d][m] # NULL => v.parent[v[d][m]] = m
  BY DEF Balanced, Shaped
<1>2. NULL \notin Node /\ NULL \in Link /\ Node \subseteq Link /\ n \in Node /\ n # NULL
      /\ \A x \in Link : x = NULL \/ x \in Node
  BY <1>1, LinkFacts
<1>3. o \in Dir /\ Opposite(o) = e
  BY Dirs
<1>4. /\ c \in Link /\ c # n /\ n \in D[n] /\ (c # NULL => c \in D[n])
  <2>1. /\ v[o][n] \in Link /\ n \in D[n]
        /\ D[n] = {n} \cup D[v[o][n]] \cup D[v[Opposite(o)][n]]
        /\ v[o][n] # NULL => v[o][n] \in D[v[o][n]] /\ v[o][n] # n
    BY ONLY <1>1, <1>3, Below
  <2> QED BY <1>2, <2>1
<1>5. /\ B[n] = B[c] + 0 + (IF v.color[n] = "BLACK" THEN 1 ELSE 0)
      /\ B \in [Link -> Nat \ {0}] /\ B[NULL] = 1 /\ B[c] \in Nat \ {0}
  <2>1. FineSide(v, B, {}, 0, n, o)
    BY <1>1, <1>3 DEF Colored, Fine
  <2>2. B \in [Link -> Nat \ {0}] /\ B[NULL] = 1
    BY <1>1, <1>2, HeightFacts DEF Colored
  <2> QED BY <1>4, <2>1, <2>2 DEF FineSide
<1>6. Color(v, n) = v.color[n] /\ v.color[n] \in {"RED", "BLACK"}
          /\ Color(v, c) \in {"RED", "BLACK"}
      /\ v.color \in [Node -> {"RED", "BLACK"}]
  <2>1. v.color \in [Node -> {"RED", "BLACK"}]
    BY <1>1 DEF Tree, Coloring
  <2> QED BY <1>1, <1>2, <1>4, <2>1, ColorFacts DEF Color
<1>7. CASE v.color[n] = "RED"
  <2>1. w = v
    BY <1>6, <1>7 DEF Prepared
  <2>2. Colored(v, T \ {n}, B, {}, 0)
    BY <1>1 DEF Colored
  <2>3. B[n] = B[c]
    BY <1>5, <1>7
  <2>4. Ready(v, T, D, K, n, e, c, B)
    BY <1>1, <1>7, <2>2, <2>3 DEF Ready
  <2> QED BY <2>1, <2>4
<1>8. CASE v.color[n] = "BLACK"
  <2> DEFINE f == [v.color EXCEPT ![n] = Color(v, c)]
             x == SetColors(v, f)
             A == [B EXCEPT ![n] = B[c]]
  <2>1. /\ f \in Coloring /\ f[n] = Color(v, c) /\ \A j \in Node : j # n => f[j] = v.color[j]
    BY <1>2, <1>6 DEF Coloring
  <2>2. /\ A \in [Link -> Nat \ {0}] /\ A[n] = B[c] /\ B[n] = B[c] + 1
        /\ \A j \in Link : j # n => A[j] = B[j]
    BY <1>2, <1>5, <1>8
  <2> HIDE DEF f, A
  <2>3. SameBut(v, B, f, A, {n})
    <3>1. A \in Heights
      BY <1>2, <1>5, <2>2 DEF Heights
    <3> QED BY <1>2, <2>1, <2>2, <3>1 DEF SameBut
  <2>4. /\ Shaped(x, T, D, K) /\ x.color = f /\ x.root = v.root /\ x.parent = v.parent
        /\ x.next = v.next /\ \A d \in Dir : x[d] = v[d]
    BY <1>1, <2>1, ColorsShaped
  <2>5. ASSUME NEW a \in T \ {n}, NEW g \in Dir,
               a \in {n} \/ v[g][a] \in {n} \/ v[g][a] \in {} \/ v[g][a] \in {n}
        PROVE  FineSide(SetColors(v, f), A, {n}, 1, a, g)
    <3>1. v[g][a] = n /\ a \in Node /\ a \in Link
      BY <1>1, <1>2, <2>5
    <3>2. FineSide(v, B, {}, 0, a, g)
      BY <1>1 DEF Colored, Fine
    <3>3. B[a] = B[n] + 0 + (IF v.color[a] = "BLACK" THEN 1 ELSE 0)
      BY <3>1, <3>2 DEF FineSide
    <3>4. A[a] = A[n] + 1 + (IF v.color[a] = "BLACK" THEN 1 ELSE 0)
      BY <1>5, <2>2, <3>1, <3>3
    <3>5. f[a] = v.color[a]
      BY <2>1, <3>1
    <3> QED BY <2>4, <3>1, <3>4, <3>5 DEF FineSide
  <2>6. Colored(x, T \ {n}, A, {n}, 1)
    <3>1. T \ {n} \in SUBSET T
      OBVIOUS
    <3>2. \A a \in T \ {n}, g \in Dir :
            a \in {n} \/ v[g][a] \in {n} \/ v[g][a] \in {} \/ v[g][a] \in {n}
              => FineSide(SetColors(v, f), A, {n}, 1, a, g)
      BY <2>5
    <3>3. Colored(v, T \ {n}, B, {}, 0)
      BY <1>1 DEF Colored
    <3> QED BY ONLY <1>1, <2>3, <3>1, <3>2, <3>3, Recolored
  <2>7. Lacking(x, T, D, K, D[n], n, A, n)
    <3>1. x.root # n => x.color[x.root] = "BLACK"
      <4>1. v.root \in T
        BY <1>1
      <4> QED BY <1>1, <2>1, <2>4, <4>1
    <3> HIDE DEF x
    <3> QED BY <1>4, <2>4, <2>6, <3>1 DEF Lacking
  <2>8. Prepared(v, n, c) = DeleteCase1(x, n)
    <3>1. [v EXCEPT !.color[n] = Color(v, c)] = x
      BY <1>1 DEF SetColors, Tree, f
    <3> HIDE DEF x
    <3> QED BY <1>6, <1>8, <3>1 DEF Prepared
  <2> HIDE DEF x
  <2>9. Done(x, w, T, K, D[n], n, A)
    BY <2>7, <2>8, DeleteSound
  <2>10. PICK E, C : Balanced(w, T, E, K, T \ {n}, C) /\ Same(x, w, A, C, D[n])
    BY <2>9 DEF Done
  <2>11. /\ w.color[n] = Color(v, c) /\ C[n] = B[c] /\ \A d \in Dir : w[d][n] = v[d][n]
    BY <1>4, <2>1, <2>2, <2>4, <2>10 DEF Same
  <2>12. C \in Heights /\ C[NULL] = 1
    BY <1>2, <2>10, HeightFacts DEF Balanced, Colored
  <2>13. C[c] = B[c] /\ Color(w, c) = Color(v, c)
    <3>1. CASE c = NULL
      BY <1>5, <2>12, <3>1 DEF Color
    <3>2. CASE c # NULL
      <4>1. w.color[c] = f[c] /\ C[c] = A[c] /\ c \in Node
        BY <1>2, <1>4, <2>4, <2>10, <3>2 DEF Same
      <4> QED BY <1>4, <2>1, <2>2, <3>2, <4>1 DEF Color
    <3> QED BY <3>1, <3>2
  <2>14. Ready(w, T, E, K, n, e, c, C)
    BY <1>3, <2>10, <2>11, <2>13 DEF Ready, Balanced
  <2>15. w.next = v.next
    BY <2>4, <2>9 DEF Done
  <2> QED BY <2>14, <2>15
<1> QED BY <1>6, <1>7, <1>8

\* The tree in which n has at most one child.
Swapped(u, n) ==
  IF u.left[n] # NULL /\ u.right[n] # NULL
    THEN SwapNodes(u, n, MaximumNode(u, u.left[n])) ELSE u

LEMMA SwappedBalanced ==
  ASSUME NEW u, NEW T, NEW D, NEW B, Balanced(u, T, D, KeyOf, T, B), NEW n \in T,
         NEW v, v = Swapped(u, n)
  PROVE  /\ v.next = u.next /\ (v.left[n] = NULL \/ v.right[n] = NULL)
         /\ \E E, K, C : /\ Balanced(v, T, E, K, T, C)
                         /\ \A a, b \in T \ {n} : K[a] < K[b] => KeyOf[a] < KeyOf[b]
<1>1. /\ Shaped(u, T, D, KeyOf) /\ Colored(u, T, B, {}, 0) /\ u \in Tree /\ T \in SUBSET Node
      /\ (u.root \in T => u.color[u.root] = "BLACK")
  BY DEF Balanced, Shaped
<1>2. CASE ~(u.left[n] # NULL /\ u.right[n] # NULL)
  <2>1. v = u
    BY <1>2 DEF Swapped
  <2> QED BY <1>2, <2>1
<1>3. CASE u.left[n] # NULL /\ u.right[n] # NULL
  <2> DEFINE x == MaximumNode(u, u["left"][n])
             h == Exchange(n, x)
             J == [m \in Node |-> KeyOf[h[m]]]
             F == RenamedBelow(h, T, D)
             C == [m \in Link |-> B[h[m]]]
  <2>1. u.left = u["left"] /\ u.right = u["right"] /\ "right" \in Dir
    BY DEF Dir
  <2>2. v = SwapNodes(u, n, x)
    BY <1>3, <2>1 DEF Swapped
  <2>3. x = MaximumNode(u, u["left"][n]) /\ u["left"][n] # NULL
    BY <1>3, <2>1
  <2> HIDE DEF x
  <2>4. /\ x \in T /\ x # n /\ u["right"][x] = NULL
        /\ KeyOf[x] < KeyOf[n]
        /\ \A b \in T \ {n, x} : /\ (KeyOf[n] < KeyOf[b] <=> KeyOf[x] < KeyOf[b])
                                 /\ (KeyOf[b] < KeyOf[n] <=> KeyOf[b] < KeyOf[x])
    BY <1>1, <2>3, PredecessorOrder
  <2>5. h = Exchange(n, x)
    OBVIOUS
  <2> HIDE DEF h
  <2>6. Renaming(h, T) /\ Renamed(u, h, v) /\ v.next = u.next
    BY <1>1, <2>2, <2>4, <2>5, SwapRenames
  <2>7. Shaped(v, T, F, J)
    BY <1>1, <2>6, RenamedShaped
  <2>8. Colored(v, T, C, {}, 0)
    BY <1>1, <2>6, RenamedColored
  <2>9. h[n] = x /\ h[x] = n /\ (\A m \in T : m # n /\ m # x => h[m] = m) /\ h[NULL] = NULL
    BY <1>1, <2>4, <2>5, <2>6, LinkFacts DEF Exchange, Renaming, Link
  <2>10. v["right"][n] = NULL
    BY <1>1, <2>1, <2>4, <2>6, <2>9 DEF Renamed
  <2>11. v.root \in T => v.color[v.root] = "BLACK"
    <3>1. /\ \A y \in Link : h[y] \in Link /\ h[h[y]] = y
          /\ \A y \in Link : h[y] \in T <=> y \in T
      BY <1>1, <2>6, RenamingFacts
    <3>2. u.root \in Link /\ v.root = h[u.root]
      BY <1>1, <2>6 DEF Tree, Renamed
    <3> SUFFICES ASSUME v.root \in T PROVE v.color[v.root] = "BLACK"
      OBVIOUS
    <3>3. u.root \in T /\ h[v.root] = u.root
      BY <3>1, <3>2
    <3>4. v.color[v.root] = u.color[h[v.root]]
      BY <1>1, <2>6 DEF Renamed
    <3> QED BY <1>1, <3>3, <3>4
  <2>12. Balanced(v, T, F, J, T, C)
    BY <2>7, <2>8, <2>11 DEF Balanced
  <2>13. \A a, b \in T \ {n} : J[a] < J[b] => KeyOf[a] < KeyOf[b]
    <3> TAKE a, b \in T \ {n}
    <3>1. J[a] = KeyOf[h[a]] /\ J[b] = KeyOf[h[b]]
      BY <1>1
    <3>2. KeyOf[n] \in Int /\ KeyOf[x] \in Int /\ KeyOf[a] \in Int /\ KeyOf[b] \in Int
      BY <1>1, <2>4, RBTreeAssumption
    <3> HIDE DEF J
    <3>3. CASE a = x /\ b = x
      BY <2>9, <3>1, <3>2, <3>3
    <3>4. CASE a = x /\ b # x
      BY <2>4, <2>9, <3>1, <3>4
    <3>5. CASE a # x /\ b = x
      BY <2>4, <2>9, <3>1, <3>5
    <3>6. CASE a # x /\ b # x
      BY <2>9, <3>1, <3>6
    <3> QED BY <3>3, <3>4, <3>5, <3>6
  <2>14. v.right[n] = NULL
    BY <2>10
  <2> HIDE DEF J, F, C
  <2> QED BY <2>6, <2>12, <2>13, <2>14
<1> QED BY <1>2, <1>3

\* y is the tree x without the links of n.
Unlinked(x, n, y) ==
  /\ y \in Tree /\ y.root = x.root
  /\ \A m \in Node : /\ y.parent[m] = IF m = n THEN NULL ELSE x.parent[m]
                     /\ \A d \in Dir : y[d][m] = IF m = n THEN NULL ELSE x[d][m]
  /\ \A m \in Node \ {n} : y.color[m] = x.color[m]

LEMMA UnlinkSound ==
  ASSUME NEW u, NEW T, NEW D, NEW B, Balanced(u, T, D, KeyOf, T, B), NEW n \in T,
         NEW x, x = Unlink(u, n)
  PROVE  /\ x \in Tree /\ x.next = u.next
         /\ \A y : Unlinked(x, n, y) => \E E, C : Balanced(y, T \ {n}, E, KeyOf, T \ {n}, C)
<1> DEFINE v == Swapped(u, n)
           c == IF v.right[n] # NULL THEN v.right[n] ELSE v.left[n]
           w == Prepared(v, n, c)
           z == ReplaceNode(w, n, c)
<1>1. x = IF z.parent[n] = NULL /\ c # NULL THEN [z EXCEPT !.color[c] = "BLACK"] ELSE z
  BY DEF Unlink, Swapped, Prepared
<1>2. v = Swapped(u, n) /\ c = (IF v.right[n] # NULL THEN v.right[n] ELSE v.left[n])
      /\ w = Prepared(v, n, c) /\ z = ReplaceNode(w, n, c)
  OBVIOUS
<1> HIDE DEF v, c, w, z
<1>3. /\ v.next = u.next /\ (v.left[n] = NULL \/ v.right[n] = NULL)
      /\ \E E, K, C : /\ Balanced(v, T, E, K, T, C)
                      /\ \A a, b \in T \ {n} : K[a] < K[b] => KeyOf[a] < KeyOf[b]
  BY <1>2, SwappedBalanced
<1>4. PICK F, K, A : /\ Balanced(v, T, F, K, T, A)
                     /\ \A a, b \in T \ {n} : K[a] < K[b] => KeyOf[a] < KeyOf[b]
  BY <1>3
<1>5. PICK e \in Dir : v[e][n] = NULL /\ c = v[Opposite(e)][n]
  <2>1. "left" \in Dir /\ "right" \in Dir /\ Opposite("left") = "right"
            /\ Opposite("right") = "left"
    BY DEF Dir, Opposite
  <2>2. v.left = v["left"] /\ v.right = v["right"]
    OBVIOUS
  <2>3. CASE v.right[n] # NULL
    BY <1>2, <1>3, <2>1, <2>2, <2>3
  <2>4. CASE v.right[n] = NULL
    BY <1>2, <2>1, <2>2, <2>4
  <2> QED BY <2>3, <2>4
<1>6. w.next = v.next /\ \E E, C : Ready(w, T, E, K, n, e, c, C)
  BY <1>2, <1>4, <1>5, PreparedReady
<1>7. PICK E, C : Ready(w, T, E, K, n, e, c, C)
  BY <1>6
<1>8. /\ Shaped(w, T, E, K) /\ w[e][n] = NULL /\ c = w[Opposite(e)][n]
      /\ Colored(w, T \ {n}, C, {}, 0) /\ (w.root \in T \ {n} => w.color[w.root] = "BLACK")
      /\ C[n] = C[c] /\ (w.color[n] = "BLACK" => Color(w, c) = "BLACK")
      /\ w \in Tree /\ T \in SUBSET Node
  BY <1>7 DEF Ready, Shaped
<1>9. c \in Link /\ c # n /\ NULL \notin Node /\ n \in Node
          /\ \A j \in Link : j = NULL \/ j \in Node
  <2>1. Opposite(e) \in Dir
    BY Dirs
  <2>2. w[Opposite(e)][n] \in Link /\ (w[Opposite(e)][n] # NULL => w[Opposite(e)][n] # n)
    BY <1>8, <2>1, Below
  <2> QED BY <1>8, <2>2, LinkFacts
<1>10. /\ z \in Tree /\ z.color = w.color /\ z.next = w.next
       /\ z.root = IF w.root = n THEN c ELSE w.root
       /\ \A m \in Node, d \in Dir : z[d][m] = IF w[d][m] = n THEN c ELSE w[d][m]
       /\ z.parent = IF c = NULL THEN w.parent ELSE [w.parent EXCEPT ![c] = w.parent[n]]
  <2>1. Shaped(w, T, E, K) /\ c \in Link /\ z = ReplaceNode(w, n, c)
    BY <1>2, <1>8, <1>9
  <2> QED BY ONLY <2>1, n \in T, Replaced
<1>11. w.parent \in [Node -> Link]
  BY <1>8 DEF Tree
<1>12. \A m \in Node : z.parent[m] = IF m = c THEN w.parent[n] ELSE w.parent[m]
  BY <1>9, <1>10, <1>11
<1>13. z.parent[n] = w.parent[n]
  BY <1>9, <1>12
<1>14. /\ x \in Tree /\ x.next = z.next /\ x.root = z.root /\ x.parent = z.parent
       /\ \A d \in Dir : x[d] = z[d]
       /\ \A m \in Node : x.color[m] = IF m = c /\ w.parent[n] = NULL THEN "BLACK" ELSE w.color[m]
  <2>1. CASE w.parent[n] = NULL /\ c # NULL
    <3> DEFINE f == [z.color EXCEPT ![c] = "BLACK"]
    <3>1. x = SetColors(z, f)
      <4>1. [z EXCEPT !.color[c] = "BLACK"] = SetColors(z, f)
        BY <1>10 DEF SetColors, Tree
      <4> HIDE DEF f
      <4> QED BY <1>1, <1>13, <2>1, <4>1
    <3>2. c \in Node /\ z.color \in [Node -> {"RED", "BLACK"}]
      BY <1>9, <1>10, <2>1 DEF Tree, Coloring
    <3>3. f \in Coloring /\ \A m \in Node : f[m] = IF m = c THEN "BLACK" ELSE z.color[m]
      BY <3>2 DEF Coloring
    <3> HIDE DEF f
    <3>4. ASSUME NEW d \in Dir
          PROVE  /\ x \in Tree /\ x[d] = z[d] /\ x.parent = z.parent
                 /\ x.root = z.root /\ x.next = z.next /\ x.color = f
      BY <1>10, <3>1, <3>3, ColorsSet
    <3>5. "left" \in Dir
      BY DEF Dir
    <3> QED BY <1>10, <2>1, <3>3, <3>4, <3>5
  <2>2. CASE ~(w.parent[n] = NULL /\ c # NULL)
    <3>1. x = z
      BY <1>1, <1>13, <2>2
    <3> QED BY <1>9, <1>10, <2>2, <3>1
  <2> QED BY <2>1, <2>2
<1>15. x \in Tree /\ x.next = u.next
  BY <1>3, <1>6, <1>10, <1>14
<1>16. ASSUME NEW y, Unlinked(x, n, y) PROVE \E G, I : Balanced(y, T \ {n}, G, KeyOf, T \ {n}, I)
  <2>1. /\ y \in Tree /\ y.root = x.root
        /\ \A m \in Node : /\ y.parent[m] = IF m = n THEN NULL ELSE x.parent[m]
                           /\ \A d \in Dir : y[d][m] = IF m = n THEN NULL ELSE x[d][m]
        /\ \A m \in Node \ {n} : y.color[m] = x.color[m]
    BY <1>16 DEF Unlinked
  <2>2. Cut(w, n, c, y)
    BY <1>10, <1>12, <1>14, <2>1 DEF Cut
  <2>3. \A j \in Node \ {n} :
          y.color[j] = IF j = c /\ w.parent[n] = NULL THEN "BLACK" ELSE w.color[j]
    BY <1>14, <2>1
  <2>4. \E G, I : Balanced(y, T \ {n}, G, K, T \ {n}, I)
    BY ONLY <1>5, <1>7, <2>2, <2>3, n \in T, CutBalanced
  <2>5. PICK G, I : Balanced(y, T \ {n}, G, K, T \ {n}, I)
    BY <2>4
  <2>6. KeyOf \in [Node -> Int]
    BY RBTreeAssumption
  <2>7. Shaped(y, T \ {n}, G, KeyOf)
    <3>1. Shaped(y, T \ {n}, G, K)
      BY <2>5 DEF Balanced
    <3> QED BY <1>4, <2>6, <3>1, OrderShaped
  <2>8. Balanced(y, T \ {n}, G, KeyOf, T \ {n}, I)
    BY <2>5, <2>7 DEF Balanced
  <2> QED BY <2>8
<1> QED BY <1>15, <1>16

(***************************************************************************)
(* A new node comes into the tree.                                         *)
(***************************************************************************)
\* Attached for a tree u.
AttachedTo(u, n, p) ==
  IF p = NULL THEN [u EXCEPT !.root = n, !.color[n] = "RED"]
  ELSE [u EXCEPT ![IF KeyOf[p] > KeyOf[n] THEN "left" ELSE "right"][p] = n,
                 !.parent[n] = p, !.color[n] = "RED"]

\* The node below which n belongs.
InsertPlace(u, n) == IF u.root = NULL THEN NULL ELSE LastOnPath(u, u.root, KeyOf[n])

LEMMA AttachedHung ==
  ASSUME NEW u \in Tree, NEW n \in Node, NEW p \in Node, NEW d, d = Way(p, KeyOf[n]),
         NEW y, y = AttachedTo(u, n, p)
  PROVE  Hung(u, p, d, n, y) /\ y.next = u.next /\ y.color = [u.color EXCEPT ![n] = "RED"]
<1> DEFINE c == [u.color EXCEPT ![n] = "RED"]
           v == SetLink(u, d, p, n)
           w == SetParent(v, n, p)
           z == SetColors(w, c)
<1>1. d \in Dir /\ NULL \notin Node /\ n \in Link /\ p \in Link /\ c \in Coloring
  BY LinkFacts DEF Way, Dir, Tree, Coloring
<1>2. y = z
  <2>1. y = [u EXCEPT ![d][p] = n, !.parent[n] = p, !.color[n] = "RED"]
    BY <1>1 DEF AttachedTo, Way
  <2>2. d \in {"left", "right"}
    BY <1>1 DEF Dir
  <2> QED BY <2>1, <2>2 DEF SetLink, SetParent, SetColors, Tree
<1> HIDE DEF c, z, v, w
<1>3. /\ v \in Tree /\ v[d] = [u[d] EXCEPT ![p] = n] /\ v[Opposite(d)] = u[Opposite(d)]
      /\ v.root = u.root /\ v.parent = u.parent /\ v.next = u.next /\ v.color = u.color
  BY <1>1, LinkSet DEF v
<1>4. ASSUME NEW g \in Dir
      PROVE  /\ w \in Tree /\ w[g] = v[g] /\ w.parent = [v.parent EXCEPT ![n] = p]
             /\ w.root = v.root /\ w.next = v.next /\ w.color = v.color
  BY <1>1, <1>3, ParentSet DEF w
<1>5. w \in Tree
  BY <1>1, <1>4
<1>6. ASSUME NEW g \in Dir
      PROVE  /\ z \in Tree /\ z[g] = w[g] /\ z.parent = w.parent
             /\ z.root = w.root /\ z.next = w.next /\ z.color = c
  BY <1>1, <1>5, ColorsSet DEF z
<1>7. Dir = {d, Opposite(d)} /\ d # Opposite(d) /\ Opposite(d) \in Dir
  BY <1>1, Dirs
<1>8. u[d] \in [Node -> Link] /\ u.parent \in [Node -> Link]
  BY <1>1, TreeFields
<1>9. \A m \in Node, g \in Dir : z[g][m] = IF m = p /\ g = d THEN n ELSE u[g][m]
  <2> TAKE m \in Node, g \in Dir
  <2>1. z[g] = v[g]
    BY <1>4, <1>6
  <2>2. CASE g = d
    BY <1>3, <1>8, <2>1, <2>2
  <2>3. CASE g # d
    BY <1>3, <1>7, <2>1, <2>3
  <2> QED BY <2>2, <2>3
<1>10. \A m \in Node : z.parent[m] = IF m = n THEN p ELSE u.parent[m]
  <2>1. z.parent = [u.parent EXCEPT ![n] = p]
    BY <1>1, <1>3, <1>4, <1>6
  <2> QED BY <1>8, <2>1
<1>11. z \in Tree /\ z.root = u.root /\ z.next = u.next /\ z.color = c
  BY <1>1, <1>3, <1>4, <1>6
<1> QED BY <1>2, <1>9, <1>10, <1>11 DEF Hung, c

\* The colors of a tree with the new red node n.
LEMMA PlantColored ==
  ASSUME NEW u, NEW T, NEW D, NEW K, Shaped(u, T, D, K), NEW B, Colored(u, T, B, {}, 0),
         NEW n \in Node \ T, NEW y,
         \A m \in T, g \in Dir : y[g][m] = n \/ y[g][m] = u[g][m],
         \A m \in T, g \in Dir : y[g][m] = n => u[g][m] = NULL,
         \A g \in Dir : y[g][n] = NULL, y.color = [u.color EXCEPT ![n] = "RED"]
  PROVE  \E C : Colored(y, T \cup {n}, C, {n}, 0)
<1> DEFINE C == [B EXCEPT ![n] = 1]
<1>1. u \in Tree /\ T \in SUBSET Node
  BY DEF Shaped
<1>a. ASSUME NEW m \in T, NEW g \in Dir PROVE u[g][m] \in Link
  BY Below
<1>2. NULL \notin Node /\ NULL \in Link /\ n \in Node /\ n \in Link /\ n # NULL
          /\ Node \subseteq Link
      /\ \A x \in Link : x = NULL \/ x \in Node
  BY LinkFacts
<1>3. B \in [Link -> Nat \ {0}] /\ B[NULL] = 1
  BY <1>2, HeightFacts DEF Colored
<1>4. C \in Heights /\ C[n] = 1 /\ C[NULL] = 1 /\ \A x \in Link : x # n => C[x] = B[x]
  BY <1>2, <1>3 DEF Heights
<1>5. u.color \in [Node -> {"RED", "BLACK"}]
  BY <1>1 DEF Tree, Coloring
<1>6. y.color[n] = "RED" /\ \A x \in Node : x # n => y.color[x] = u.color[x]
  BY <1>2, <1>5
<1> HIDE DEF C
<1>7. ASSUME NEW m \in T, NEW g \in Dir PROVE FineSide(y, C, {n}, 0, m, g)
  <2>1. FineSide(u, B, {}, 0, m, g) /\ m \in Node /\ m # n /\ u[g][m] \in Link
    BY <1>1, <1>a DEF Colored, Fine
  <2>2. y.color[m] = u.color[m] /\ C[m] = B[m]
    BY <1>2, <1>4, <1>6, <2>1
  <2>3. CASE y[g][m] = n
    BY <1>3, <1>4, <2>1, <2>2, <2>3 DEF FineSide
  <2>4. CASE y[g][m] # n
    <3>1. y[g][m] = u[g][m]
      BY <2>4
    <3>2. C[u[g][m]] = B[u[g][m]]
      BY <1>4, <2>1, <2>4, <3>1
    <3>3. Color(y, u[g][m]) = Color(u, u[g][m])
      BY <1>2, <1>6, <2>1, <2>4, <3>1 DEF Color
    <3> QED BY <2>1, <2>2, <2>4, <3>1, <3>2, <3>3 DEF FineSide
  <2> QED BY <2>3, <2>4
<1>8. ASSUME NEW g \in Dir PROVE FineSide(y, C, {n}, 0, n, g)
  BY <1>2, <1>4, <1>6 DEF FineSide, Color
<1>9. Colored(y, T \cup {n}, C, {n}, 0)
  BY <1>4, <1>7, <1>8 DEF Colored, Fine
<1> QED BY <1>9

LEMMA PlantSound ==
  ASSUME NEW u, NEW T, NEW D, NEW B, Balanced(u, T, D, KeyOf, T, B), NEW n \in Node \ T,
         \A m \in T : KeyOf[m] # KeyOf[n], NEW y, y = AttachedTo(u, n, InsertPlace(u, n))
  PROVE  y.next = u.next /\ \E E, C : Inserting(y, T \cup {n}, E, KeyOf, C, n)
<1>1. /\ Shaped(u, T, D, KeyOf) /\ Colored(u, T, B, {}, 0) /\ u \in Tree /\ T \in SUBSET Node
      /\ (u.root \in T => u.color[u.root] = "BLACK") /\ (u.root # NULL => u.root \in T)
      /\ D[u.root] = T /\ D[NULL] = {}
      /\ \A m \in Node \ T : u.parent[m] = NULL /\ \A g \in Dir : u[g][m] = NULL
  BY DEF Balanced, Shaped
<1>2. NULL \notin Node /\ NULL \in Link /\ n \in Node /\ n # NULL /\ KeyOf[n] \in Int
      /\ KeyOf \in [Node -> Int]
  BY LinkFacts, RBTreeAssumption
<1>3. u.color \in [Node -> {"RED", "BLACK"}]
  BY <1>1 DEF Tree, Coloring
<1>4. CASE u.root = NULL
  <2>1. T = {} /\ InsertPlace(u, n) = NULL
    BY <1>1, <1>4 DEF InsertPlace
  <2> DEFINE c == [u.color EXCEPT ![n] = "RED"]
             v == SetRoot(u, n)
  <2>2. y = SetColors(v, c)
    BY <1>1, <2>1 DEF AttachedTo, SetRoot, SetColors, Tree
  <2>3. c \in Coloring /\ c[n] = "RED"
    BY <1>2, <1>3 DEF Coloring
  <2>4. ASSUME NEW g \in Dir
        PROVE  /\ v \in Tree /\ v[g] = u[g] /\ v.parent = u.parent
               /\ v.root = n /\ v.next = u.next /\ v.color = u.color
    BY <1>1, <1>2, LinkFacts, RootSet
  <2>5. "left" \in Dir
    BY DEF Dir
  <2> HIDE DEF v
  <2>6. v \in Tree
    BY <2>4, <2>5
  <2>7. c = [u.color EXCEPT ![n] = "RED"]
    OBVIOUS
  <2> HIDE DEF c
  <2>8. ASSUME NEW g \in Dir
        PROVE  /\ y \in Tree /\ y[g] = v[g] /\ y.parent = v.parent
               /\ y.root = v.root /\ y.next = v.next /\ y.color = c
    BY <2>2, <2>3, <2>6, ColorsSet
  <2>9. /\ y \in Tree /\ y.root = n /\ y.parent = u.parent /\ y.next = u.next /\ y.color = c
        /\ \A m \in Node, g \in Dir : y[g][m] = u[g][m]
    BY <2>4, <2>5, <2>8
  <2>10. Shaped(y, {n}, [x \in Link |-> IF x = n THEN {n} ELSE {}], KeyOf)
    <3>1. Shaped(u, {}, D, KeyOf)
      BY <1>1, <2>1
    <3> QED BY <1>2, <2>9, <3>1, RootShaped
  <2>11. \E C : Colored(y, T \cup {n}, C, {n}, 0)
    <3>1. /\ \A m \in T, g \in Dir : y[g][m] = n \/ y[g][m] = u[g][m]
          /\ \A m \in T, g \in Dir : y[g][m] = n => u[g][m] = NULL
          /\ \A g \in Dir : y[g][n] = NULL
          /\ y.color = [u.color EXCEPT ![n] = "RED"]
      BY <1>1, <1>2, <2>1, <2>7, <2>9
    <3>2. n \in Node \ T
      OBVIOUS
    <3> QED BY ONLY <1>1, <3>1, <3>2, PlantColored
  <2>12. T \cup {n} = {n} /\ n \in T \cup {n}
    BY <2>1
  <2>13. PICK C : Colored(y, T \cup {n}, C, {n}, 0)
    BY <2>11
  <2> DEFINE E == [x \in Link |-> IF x = n THEN {n} ELSE {}]
  <2> HIDE DEF E
  <2>14. Inserting(y, T \cup {n}, E, KeyOf, C, n)
    BY <2>3, <2>9, <2>10, <2>12, <2>13 DEF Inserting, E
  <2> QED BY <2>9, <2>14
<1>5. CASE u.root # NULL
  <2> DEFINE p == LastOnPath(u, u.root, KeyOf[n])
             d == Way(p, KeyOf[n])
  <2>1. p = InsertPlace(u, n) /\ d = Way(p, KeyOf[n])
    BY <1>5 DEF InsertPlace
  <2>2. p \in T /\ d \in Dir /\ u[d][p] = NULL /\ Fits(u, T, D, KeyOf[n], p)
    BY <1>1, <1>2, <1>5, LastFits
  <2> HIDE DEF p, d
  <2>3. p \in Node /\ y = AttachedTo(u, n, p)
    BY <1>1, <2>1, <2>2
  <2>4. Hung(u, p, d, n, y) /\ y.next = u.next /\ y.color = [u.color EXCEPT ![n] = "RED"]
    BY ONLY <1>1, <1>2, <2>1, <2>3, AttachedHung
  <2>5. Before(d, KeyOf[n], KeyOf[p])
    <3>1. KeyOf[p] \in Int /\ KeyOf[p] # KeyOf[n]
      BY <1>2, <2>2, <2>3
    <3> QED BY <1>2, <2>1, <3>1 DEF Way, Before
  <2>6. \A a \in T, g \in Dir : p \in D[u[g][a]] => Before(g, KeyOf[n], KeyOf[a])
    BY <2>2 DEF Fits
  <2>7. Shaped(y, T \cup {n}, HungBelow(D, p, n), KeyOf)
    <3>1. n \in Node \ T
      OBVIOUS
    <3> QED BY ONLY <1>1, <2>2, <2>4, <2>5, <2>6, <3>1, HungShaped
  <2>8. /\ y.root = u.root
        /\ \A m \in Node, g \in Dir : y[g][m] = IF m = p /\ g = d THEN n ELSE u[g][m]
    BY <2>4 DEF Hung
  <2>9. \E C : Colored(y, T \cup {n}, C, {n}, 0)
    <3>1. /\ \A m \in T, g \in Dir : y[g][m] = n \/ y[g][m] = u[g][m]
          /\ \A m \in T, g \in Dir : y[g][m] = n => u[g][m] = NULL
          /\ \A g \in Dir : y[g][n] = NULL
          /\ y.color = [u.color EXCEPT ![n] = "RED"]
      <4>1. \A m \in T, g \in Dir : u[g][m] # n
        BY <1>1, <1>2 DEF Shaped
      <4> QED BY <1>1, <1>2, <2>2, <2>4, <2>8, <4>1
    <3>2. n \in Node \ T
      OBVIOUS
    <3> QED BY ONLY <1>1, <3>1, <3>2, PlantColored
  <2>10. PICK C : Colored(y, T \cup {n}, C, {n}, 0)
    BY <2>9
  <2>11. y.color[n] = "RED" /\ (y.root # NULL /\ y.root # n => y.color[y.root] = "BLACK")
    BY <1>1, <1>2, <1>3, <2>4, <2>8
  <2>12. n \in T \cup {n}
    OBVIOUS
  <2> DEFINE S == T \cup {n}
             E == HungBelow(D, p, n)
  <2> HIDE DEF S, E
  <2>13. Inserting(y, S, E, KeyOf, C, n)
    BY <2>7, <2>10, <2>11, <2>12 DEF Inserting, S, E
  <2> QED BY <2>4, <2>13 DEF S
<1> QED BY <1>4, <1>5

\* zrbtree_insert of a new key.
LEMMA InsertedSound ==
  ASSUME NEW u, NEW T, NEW D, NEW B, Balanced(u, T, D, KeyOf, T, B), NEW n \in Node \ T,
         \A m \in T : KeyOf[m] # KeyOf[n],
         NEW x, x = InsertCase1(AttachedTo(u, n, InsertPlace(u, n)), n)
  PROVE  x.next = u.next /\ \E E, C : Balanced(x, T \cup {n}, E, KeyOf, T \cup {n}, C)
<1> DEFINE y == AttachedTo(u, n, InsertPlace(u, n))
<1>1. y.next = u.next /\ \E E, C : Inserting(y, T \cup {n}, E, KeyOf, C, n)
  BY PlantSound
<1>2. x = InsertCase1(y, n)
  OBVIOUS
<1> HIDE DEF y
<1>3. PICK E, C : Inserting(y, T \cup {n}, E, KeyOf, C, n)
  BY <1>1
<1>4. /\ \E F, A : Balanced(InsertCase1(y, n), T \cup {n}, F, KeyOf, T \cup {n}, A)
      /\ InsertCase1(y, n).next = y.next
  BY ONLY <1>3, InsertSound
<1> QED BY ONLY <1>1, <1>2, <1>4
=============================================================================
