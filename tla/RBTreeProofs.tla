------------------------------- MODULE RBTreeProofs -------------------------------
(***************************************************************************)
(* Proofs about the red-black tree of RBTree, second part: the lists of    *)
(* equal keys, the inductive invariant TreeInv, every call of the          *)
(* program, and the theorems.                                              *)
(***************************************************************************)
EXTENDS RBTreeShape

(***************************************************************************)
(* The lists of equal keys.                                                *)
(***************************************************************************)
\* The links nx lead in no circle.
Ranked(nx, rank) ==
  /\ rank \in [Link -> Nat]
  /\ \A a \in Node : rank[NULL] < rank[a] /\ rank[nx[a]] < rank[a]

\* The links nx are lists of nodes with equal keys.  No list leads to a node of P.
Lists(nx, P) ==
  /\ nx \in [Node -> Link] /\ P \in SUBSET Node
  /\ \A a \in Node : nx[a] # NULL => nx[a] \in Node \ P /\ KeyOf[nx[a]] = KeyOf[a]
  /\ \A a, b \in Node : nx[a] # NULL /\ nx[a] = nx[b] => a = b
  /\ \E rank : Ranked(nx, rank)

\* No lists.
LEMMA ListsEmpty ==
  ASSUME NEW nx, nx = [n \in Node |-> NULL], NEW P \in SUBSET Node
  PROVE  Lists(nx, P)
<1> DEFINE rank == [a \in Link |-> IF a = NULL THEN 0 ELSE 1]
<1>1. nx \in [Node -> Link] /\ \A a \in Node : nx[a] = NULL
  BY LinkFacts
<1>2. rank \in [Link -> Nat] /\ rank[NULL] = 0 /\ \A a \in Node : rank[a] = 1
  BY LinkFacts
<1> HIDE DEF rank
<1>3. Ranked(nx, rank)
  BY <1>1, <1>2 DEF Ranked
<1> QED BY <1>1, <1>3 DEF Lists

\* A list ends.
LEMMA ListsCleared ==
  ASSUME NEW nx, NEW P, Lists(nx, P), NEW n \in Node, NEW ny, ny = [nx EXCEPT ![n] = NULL]
  PROVE  Lists(ny, P)
<1>1. /\ nx \in [Node -> Link] /\ P \in SUBSET Node
      /\ \A a \in Node : nx[a] # NULL => nx[a] \in Node \ P /\ KeyOf[nx[a]] = KeyOf[a]
      /\ \A a, b \in Node : nx[a] # NULL /\ nx[a] = nx[b] => a = b
  BY DEF Lists
<1>2. PICK rank : Ranked(nx, rank)
  BY DEF Lists
<1>3. ny \in [Node -> Link] /\ \A a \in Node : ny[a] = IF a = n THEN NULL ELSE nx[a]
  BY <1>1, LinkFacts
<1>4. Ranked(ny, rank)
  BY <1>2, <1>3 DEF Ranked
<1>5. \A a \in Node : ny[a] # NULL => ny[a] \in Node \ P /\ KeyOf[ny[a]] = KeyOf[a]
  BY <1>1, <1>3
<1>6. \A a, b \in Node : ny[a] # NULL /\ ny[a] = ny[b] => a = b
  BY <1>1, <1>3
<1> QED BY <1>1, <1>3, <1>4, <1>5, <1>6 DEF Lists

\* The node n, which has the key of e, becomes the second of the list of e.
LEMMA ListsAdded ==
  ASSUME NEW nx, NEW P, Lists(nx, P), NEW n \in P, NEW e \in P, n # e, KeyOf[n] = KeyOf[e],
         NEW ny, ny = [nx EXCEPT ![n] = nx[e], ![e] = n]
  PROVE  Lists(ny, P \ {n})
<1>1. /\ nx \in [Node -> Link] /\ P \in SUBSET Node
      /\ \A a \in Node : nx[a] # NULL => nx[a] \in Node \ P /\ KeyOf[nx[a]] = KeyOf[a]
      /\ \A a, b \in Node : nx[a] # NULL /\ nx[a] = nx[b] => a = b
  BY DEF Lists
<1>2. PICK rank : Ranked(nx, rank)
  BY DEF Lists
<1>3. n \in Node /\ e \in Node /\ nx[e] \in Link /\ NULL \notin Node /\ nx[e] # n /\ nx[e] # e
  BY <1>1, LinkFacts
<1>4. /\ ny \in [Node -> Link]
      /\ \A a \in Node : ny[a] = IF a = n THEN nx[e] ELSE IF a = e THEN n ELSE nx[a]
  BY <1>1, <1>3, LinkFacts
<1>5. rank \in [Link -> Nat] /\ \A a \in Node : rank[NULL] < rank[a] /\ rank[nx[a]] < rank[a]
  BY <1>2 DEF Ranked
<1> DEFINE r == rank[nx[e]]
           new == [a \in Link |-> IF a = n THEN r + 1 ELSE IF a = e THEN r + 2 ELSE rank[a]]
<1>6. r \in Nat /\ rank[NULL] \in Nat /\ rank[NULL] <= r
  BY <1>3, <1>5, LinkFacts
<1>7. /\ new \in [Link -> Nat] /\ new[n] = r + 1 /\ new[e] = r + 2 /\ new[nx[e]] = r
      /\ \A a \in Link : a # n /\ a # e => new[a] = rank[a]
  BY <1>3, <1>5, <1>6, LinkFacts
<1> HIDE DEF r, new
<1>8. ASSUME NEW a \in Node PROVE new[NULL] < new[a] /\ new[ny[a]] < new[a]
  <2>1. new[NULL] = rank[NULL] /\ NULL \in Link /\ NULL # n /\ NULL # e
    BY <1>3, <1>7, LinkFacts
  <2>2. CASE a = n
    BY <1>4, <1>6, <1>7, <2>1, <2>2
  <2>3. CASE a = e
    BY <1>3, <1>4, <1>6, <1>7, <2>1, <2>3
  <2>4. CASE a # n /\ a # e
    <3>1. ny[a] = nx[a] /\ nx[a] \in Link /\ a \in Link
      BY <1>1, <1>4, <2>4, LinkFacts
    <3>2. nx[a] # n /\ nx[a] # e
      BY <1>1, <1>3, <3>1
    <3>3. new[ny[a]] = rank[nx[a]] /\ new[a] = rank[a]
      BY <1>7, <2>4, <3>1, <3>2
    <3> QED BY <1>5, <2>1, <3>3
  <2> QED BY <2>2, <2>3, <2>4
<1>9. Ranked(ny, new)
  BY <1>7, <1>8 DEF Ranked
<1>10. \A a \in Node : ny[a] # NULL => ny[a] \in Node \ (P \ {n}) /\ KeyOf[ny[a]] = KeyOf[a]
  BY <1>1, <1>3, <1>4
<1>11. \A a, b \in Node : ny[a] # NULL /\ ny[a] = ny[b] => a = b
  BY <1>1, <1>3, <1>4
<1> QED BY <1>1, <1>4, <1>9, <1>10, <1>11 DEF Lists

\* The node m behind a leaves its list.
LEMMA ListsCut ==
  ASSUME NEW nx, NEW P, Lists(nx, P), NEW a \in Node, NEW m \in Node, nx[a] = m,
         NEW ny, ny = [nx EXCEPT ![a] = nx[m], ![m] = NULL]
  PROVE  Lists(ny, P \cup {m})
<1>1. /\ nx \in [Node -> Link] /\ P \in SUBSET Node
      /\ \A b \in Node : nx[b] # NULL => nx[b] \in Node \ P /\ KeyOf[nx[b]] = KeyOf[b]
      /\ \A b, c \in Node : nx[b] # NULL /\ nx[b] = nx[c] => b = c
  BY DEF Lists
<1>2. PICK rank : Ranked(nx, rank)
  BY DEF Lists
<1>3. rank \in [Link -> Nat] /\ \A b \in Node : rank[NULL] < rank[b] /\ rank[nx[b]] < rank[b]
  BY <1>2 DEF Ranked
<1>4. NULL \notin Node /\ a # m /\ nx[m] # m /\ nx[m] \in Link
  BY <1>1, <1>3, LinkFacts
<1>5. /\ ny \in [Node -> Link]
      /\ \A b \in Node : ny[b] = IF b = m THEN NULL ELSE IF b = a THEN nx[m] ELSE nx[b]
  BY <1>1, <1>4, LinkFacts
<1>6. ASSUME NEW b \in Node PROVE rank[NULL] < rank[b] /\ rank[ny[b]] < rank[b]
  <2>1. CASE b = a
    <3>1. rank[nx[m]] < rank[m] /\ rank[m] < rank[a]
      BY <1>3
    <3>2. rank[nx[m]] \in Nat /\ rank[m] \in Nat /\ rank[a] \in Nat
      BY <1>3, <1>4, LinkFacts
    <3> QED BY <1>3, <1>4, <1>5, <2>1, <3>1, <3>2
  <2>2. CASE b # a
    BY <1>3, <1>5, <2>2
  <2> QED BY <2>1, <2>2
<1>7. Ranked(ny, rank)
  BY <1>3, <1>6 DEF Ranked
<1>8. ASSUME NEW b \in Node, ny[b] # NULL
      PROVE  ny[b] \in Node \ (P \cup {m}) /\ KeyOf[ny[b]] = KeyOf[b]
  <2>1. CASE b = a
    BY <1>1, <1>4, <1>5, <1>8, <2>1
  <2>2. CASE b # a
    BY <1>1, <1>4, <1>5, <1>8, <2>2
  <2> QED BY <2>1, <2>2
<1>9. \A b, c \in Node : ny[b] # NULL /\ ny[b] = ny[c] => b = c
  BY <1>1, <1>4, <1>5
<1> QED BY <1>1, <1>5, <1>7, <1>8, <1>9 DEF Lists

(***************************************************************************)
(* Chain, the list of a node as a sequence.                                *)
(***************************************************************************)
ChainBody(u, f) == [m \in Link |-> IF m = NULL THEN <<>> ELSE <<m>> \o f[u.next[m]]]

Chained(u) == CHOOSE f : f = ChainBody(u, f)

LEMMA ChainStep ==
  ASSUME NEW u, NEW P, Lists(u.next, P), NEW n \in Link
  PROVE  /\ Chain(u, n) \in Seq(Node)
         /\ Chain(u, n) = IF n = NULL THEN <<>> ELSE <<n>> \o Chain(u, u.next[n])
<1> DEFINE V == Seq(Node)
           g == [m \in Node |-> [x \in V |-> [y \in V |-> <<m>> \o x]]]
           h == Chained(u)
<1>1. PICK rank : Ranked(u.next, rank)
  BY DEF Lists
<1>2. u.next \in [Node -> Link]
  BY DEF Lists
<1>3. rank \in [Link -> Nat] /\ \A a \in Node : rank[u.next[a]] < rank[a]
  BY <1>1 DEF Ranked
<1>4. <<>> \in V /\ \A m \in Node, x \in V : <<m>> \o x \in V
  <2>1. ASSUME NEW m \in Node, NEW x \in V PROVE <<m>> \o x \in V
    <3>1. <<m>> \in Seq(Node) /\ x \in Seq(Node)
      OBVIOUS
    <3> QED BY <3>1, ConcatProperties
  <2> QED BY <2>1, EmptySeq
<1>5. g \in [Node -> [V -> [V -> V]]] /\ \A m \in Node, x \in V, y \in V : g[m][x][y] = <<m>> \o x
  BY <1>4
<1> HIDE DEF V, g
<1>6. Visiting(V, <<>>, u.next, u.next, g, rank)
  BY <1>2, <1>3, <1>4, <1>5 DEF Visiting
<1>7. PICK f \in [Link -> V] : \A m \in Link :
        f[m] = IF m = NULL THEN <<>> ELSE g[m][f[u.next[m]]][f[u.next[m]]]
  <2>1. \E f \in [Link -> V] : \A m \in Link :
          f[m] = IF m = NULL THEN <<>> ELSE g[m][f[u.next[m]]][f[u.next[m]]]
    BY ONLY <1>6, TreeRecursion
  <2> QED BY <2>1
<1>8. \A m \in Link : f[m] = IF m = NULL THEN <<>> ELSE <<m>> \o f[u.next[m]]
  BY <1>2, <1>5, <1>7, LinkFacts
<1>9. f = ChainBody(u, f)
  <2>1. f = [m \in Link |-> f[m]]
    BY <1>7
  <2> QED BY <1>8, <2>1 DEF ChainBody
<1>10. h = ChainBody(u, h)
  BY <1>9 DEF Chained
<1> HIDE DEF h
<1>11. \A m \in Link : h[m] = IF m = NULL THEN <<>> ELSE <<m>> \o h[u.next[m]]
  BY <1>10 DEF ChainBody
<1> DEFINE G == {m \in Link : h[m] \in V}
<1>12. ASSUME NEW m \in Link, \A k \in Link : rank[k] < rank[m] => k \in G PROVE m \in G
  <2>1. CASE m = NULL
    BY <1>4, <1>11, <2>1
  <2>2. CASE m # NULL
    <3>1. m \in Node /\ u.next[m] \in Link /\ rank[u.next[m]] < rank[m]
      BY <1>2, <1>3, <2>2, LinkFacts
    <3>2. h[u.next[m]] \in V
      BY <1>12, <3>1
    <3> QED BY <1>4, <1>11, <2>2, <3>1, <3>2
  <2> QED BY <2>1, <2>2
<1> HIDE DEF G
<1>13. Link \subseteq G
  <2>1. /\ rank \in [Link -> Nat]
        /\ \A m \in Link : (\A k \in Link : rank[k] < rank[m] => k \in G) => m \in G
    BY <1>3, <1>12
  <2> QED BY ONLY <2>1, MeasureInduction
<1>14. \A m : Chain(u, m) = h[m]
  BY DEF Chain, Chained, ChainBody, h
<1>15. h[n] \in V
  BY <1>13 DEF G
<1> QED BY <1>11, <1>14, <1>15 DEF V

\* The element of a list behind the elements before i, NULL behind its end.
At(c, i) == IF i \in 1..Len(c) THEN c[i] ELSE NULL

\* c lists the nodes that nx leads to from n.
Trail(nx, c, n) ==
  c \in Seq(Node) /\ At(c, 1) = n /\ \A i \in 1..Len(c) : nx[c[i]] = At(c, i + 1)

LEMMA TrailEmpty ==
  ASSUME NEW nx
  PROVE  Trail(nx, <<>>, NULL)
<1>1. <<>> \in Seq(Node) /\ Len(<<>>) = 0
  BY EmptySeq
<1> QED BY <1>1 DEF Trail, At

LEMMA TrailCons ==
  ASSUME NEW nx, NEW c, NEW n \in Node, Trail(nx, c, nx[n])
  PROVE  /\ Trail(nx, <<n>> \o c, n) /\ Len(<<n>> \o c) = Len(c) + 1
         /\ (<<n>> \o c)[1] = n /\ \A i \in 1..Len(c) : (<<n>> \o c)[i + 1] = c[i]
<1> DEFINE w == <<n>> \o c
<1>1. c \in Seq(Node) /\ At(c, 1) = nx[n] /\ \A i \in 1..Len(c) : nx[c[i]] = At(c, i + 1)
  BY DEF Trail
<1>2. Len(c) \in Nat
  BY <1>1, LenProperties
<1>3. <<n>> \in Seq(Node) /\ Len(<<n>>) = 1 /\ <<n>>[1] = n
  OBVIOUS
<1>4. /\ w \in Seq(Node) /\ Len(w) = Len(<<n>>) + Len(c)
      /\ \A i \in 1..Len(<<n>>) + Len(c) :
           w[i] = IF i <= Len(<<n>>) THEN <<n>>[i] ELSE c[i - Len(<<n>>)]
  BY <1>1, <1>3, ConcatProperties
<1> HIDE DEF w
<1>5. Len(w) = Len(c) + 1 /\ w[1] = n
  BY <1>2, <1>3, <1>4
<1>6. \A i \in 1..Len(c) : w[i + 1] = c[i]
  <2> TAKE i \in 1..Len(c)
  <2>1. i + 1 \in 1..1 + Len(c) /\ ~(i + 1 <= 1) /\ (i + 1) - 1 = i
    BY <1>2
  <2> QED BY <1>3, <1>4, <2>1
<1>7. ASSUME NEW i \in 1..Len(w) PROVE nx[w[i]] = At(w, i + 1)
  <2>1. CASE i = 1
    <3>1. CASE Len(c) = 0
      BY <1>1, <1>5, <2>1, <3>1 DEF At
    <3>2. CASE Len(c) # 0
      <4>1. 1 \in 1..Len(c) /\ 2 \in 1..Len(w) /\ 1 + 1 = 2
        BY <1>2, <1>5, <3>2
      <4>2. w[2] = c[1]
        BY <1>6, <4>1
      <4> QED BY <1>1, <1>5, <2>1, <4>1, <4>2 DEF At
    <3> QED BY <3>1, <3>2
  <2>2. CASE i # 1
    <3>1. i - 1 \in 1..Len(c) /\ (i - 1) + 1 = i
      BY <1>2, <1>5, <2>2
    <3>2. w[i] = c[i - 1] /\ nx[c[i - 1]] = At(c, i)
      BY <1>1, <1>6, <3>1
    <3>3. i \in 1..Len(c) => i + 1 \in 1..Len(w) /\ w[i + 1] = c[i]
      BY <1>2, <1>5, <1>6
    <3>4. i \notin 1..Len(c) => i + 1 \notin 1..Len(w)
      BY <1>2, <1>5, <2>2
    <3> QED BY <3>2, <3>3, <3>4 DEF At
  <2> QED BY <2>1, <2>2
<1>8. At(w, 1) = n
  BY <1>2, <1>5 DEF At
<1> QED BY <1>4, <1>5, <1>6, <1>7, <1>8 DEF Trail, w

\* The chain of a node is its trail ...
LEMMA ChainTrail ==
  ASSUME NEW u, NEW P, Lists(u.next, P), NEW n \in Link
  PROVE  Trail(u.next, Chain(u, n), n)
<1>1. PICK rank : Ranked(u.next, rank)
  BY DEF Lists
<1>2. u.next \in [Node -> Link]
  BY DEF Lists
<1>3. rank \in [Link -> Nat] /\ \A a \in Node : rank[u.next[a]] < rank[a]
  BY <1>1 DEF Ranked
<1> DEFINE G == {m \in Link : Trail(u.next, Chain(u, m), m)}
<1>4. ASSUME NEW m \in Link, \A k \in Link : rank[k] < rank[m] => k \in G PROVE m \in G
  <2>0. Chain(u, m) = IF m = NULL THEN <<>> ELSE <<m>> \o Chain(u, u.next[m])
    BY ChainStep
  <2>1. CASE m = NULL
    <3>1. Chain(u, m) = <<>>
      BY <2>0, <2>1
    <3>2. Trail(u.next, <<>>, NULL)
      BY TrailEmpty
    <3> QED BY <2>1, <3>1, <3>2
  <2>2. CASE m # NULL
    <3>1. m \in Node /\ u.next[m] \in Link /\ rank[u.next[m]] < rank[m]
      BY <1>2, <1>3, <2>2, LinkFacts
    <3>2. Trail(u.next, Chain(u, u.next[m]), u.next[m])
      BY <1>4, <3>1
    <3>3. Trail(u.next, <<m>> \o Chain(u, u.next[m]), m)
      BY ONLY <3>1, <3>2, TrailCons
    <3> QED BY <2>0, <2>2, <3>3
  <2> QED BY <2>1, <2>2
<1> HIDE DEF G
<1>5. Link \subseteq G
  <2>1. /\ rank \in [Link -> Nat]
        /\ \A m \in Link : (\A k \in Link : rank[k] < rank[m] => k \in G) => m \in G
    BY <1>3, <1>4
  <2> QED BY ONLY <2>1, MeasureInduction
<1> QED BY <1>5 DEF G

\* ... and its only one.
LEMMA TrailUnique ==
  ASSUME NEW nx, NEW c, NEW e, NEW n \in Link, Trail(nx, c, n), Trail(nx, e, n)
  PROVE  c = e
<1>1. /\ c \in Seq(Node) /\ At(c, 1) = n /\ \A i \in 1..Len(c) : nx[c[i]] = At(c, i + 1)
      /\ e \in Seq(Node) /\ At(e, 1) = n /\ \A i \in 1..Len(e) : nx[e[i]] = At(e, i + 1)
  BY DEF Trail
<1>2. Len(c) \in Nat /\ Len(e) \in Nat
  BY <1>1, LenProperties
<1>3. /\ \A i \in 1..Len(c) : c[i] \in Node
      /\ \A i \in 1..Len(e) : e[i] \in Node
  BY <1>1, ElementOfSeq
<1>4. \A i \in Nat : (i \in 1..Len(c) <=> At(c, i) # NULL) /\ (i \in 1..Len(e) <=> At(e, i) # NULL)
  BY <1>3, LinkFacts DEF At
<1> DEFINE G == {i \in Nat : At(c, i + 1) = At(e, i + 1)}
           mu == [i \in Nat |-> i]
<1>5. ASSUME NEW i \in Nat, \A k \in Nat : mu[k] < mu[i] => k \in G PROVE i \in G
  <2>1. CASE i = 0
    BY <1>1, <2>1
  <2>2. CASE i # 0
    <3>1. i - 1 \in Nat /\ mu[i - 1] < mu[i] /\ (i - 1) + 1 = i
      BY <2>2
    <3>2. At(c, i) = At(e, i)
      BY <1>5, <3>1
    <3>3. i \in 1..Len(c) <=> i \in 1..Len(e)
      BY <1>4, <3>2
    <3>4. CASE i \in 1..Len(c)
      BY <1>1, <3>2, <3>3, <3>4 DEF At
    <3>5. CASE i \notin 1..Len(c)
      <4>1. i + 1 \notin 1..Len(c) /\ i + 1 \notin 1..Len(e)
        BY <1>2, <2>2, <3>3, <3>5
      <4> QED BY <4>1 DEF At
    <3> QED BY <3>4, <3>5
  <2> QED BY <2>1, <2>2
<1>6. mu \in [Nat -> Nat]
  OBVIOUS
<1>7. \A i \in Nat : (\A k \in Nat : mu[k] < mu[i] => k \in G) => i \in G
  BY <1>5
<1> HIDE DEF G, mu
<1>8. Nat \subseteq G
  BY ONLY <1>6, <1>7, MeasureInduction
<1>9. \A i \in Nat \ {0} : At(c, i) = At(e, i)
  <2> TAKE i \in Nat \ {0}
  <2>1. i - 1 \in Nat /\ (i - 1) + 1 = i
    OBVIOUS
  <2> QED BY <1>8, <2>1 DEF G
<1>10. \A i \in Nat \ {0} : i \in 1..Len(c) <=> i \in 1..Len(e)
  BY <1>4, <1>9
<1>11. Len(c) = Len(e)
  <2>1. ~(Len(c) < Len(e))
    <3>1. Len(c) + 1 \in Nat \ {0} /\ Len(c) + 1 \notin 1..Len(c)
      BY <1>2
    <3> QED BY <1>2, <1>10, <3>1
  <2>2. ~(Len(e) < Len(c))
    <3>1. Len(e) + 1 \in Nat \ {0} /\ Len(e) + 1 \notin 1..Len(e)
      BY <1>2
    <3> QED BY <1>2, <1>10, <3>1
  <2> QED BY <1>2, <2>1, <2>2
<1>12. \A i \in 1..Len(c) : c[i] = e[i]
  BY <1>2, <1>9, <1>11 DEF At
<1> QED BY <1>1, <1>11, <1>12, SeqEqual

LEMMA TrailIsChain ==
  ASSUME NEW u, NEW P, Lists(u.next, P), NEW n \in Link, NEW c, Trail(u.next, c, n)
  PROVE  Chain(u, n) = c
<1>1. Trail(u.next, Chain(u, n), n)
  BY ChainTrail
<1> QED BY ONLY <1>1, Trail(u.next, c, n), n \in Link, TrailUnique

\* c is a list with the head n.
Listed(u, P, n, c) ==
  /\ c \in Seq(Node) /\ Len(c) \in Nat \ {0} /\ c # <<>> /\ c[1] = n /\ Distinct(c)
  /\ \A i \in 1..Len(c) : c[i] \in Node /\ KeyOf[c[i]] = KeyOf[n]
  /\ \A i \in 2..Len(c) : c[i] \notin P /\ c[i - 1] \in Node /\ u.next[c[i - 1]] = c[i]

\* The list of a node to which no list leads.
LEMMA ChainIs ==
  ASSUME NEW u, NEW P, Lists(u.next, P), NEW n \in P
  PROVE  Listed(u, P, n, Chain(u, n))
<1> DEFINE c == Chain(u, n)
<1>1. /\ P \in SUBSET Node
      /\ \A a \in Node : u.next[a] # NULL => u.next[a] \in Node \ P /\ KeyOf[u.next[a]] = KeyOf[a]
  BY DEF Lists
<1>2. PICK rank : Ranked(u.next, rank)
  BY DEF Lists
<1>3. rank \in [Link -> Nat] /\ \A a \in Node : rank[u.next[a]] < rank[a]
  BY <1>2 DEF Ranked
<1>4. n \in Node /\ n \in Link /\ n # NULL
  BY <1>1, LinkFacts
<1>5. Trail(u.next, c, n)
  BY <1>4, ChainTrail
<1> HIDE DEF c
<1>6. c \in Seq(Node) /\ At(c, 1) = n /\ \A i \in 1..Len(c) : u.next[c[i]] = At(c, i + 1)
  BY <1>5 DEF Trail
<1>7. Len(c) \in Nat /\ \A i \in 1..Len(c) : c[i] \in Node
  BY <1>6, LenProperties, ElementOfSeq
<1>8. 1 \in 1..Len(c) /\ c[1] = n
  BY <1>4, <1>6 DEF At
<1>9. Len(c) \in Nat \ {0} /\ c # <<>>
  BY <1>7, <1>8, EmptySeq
<1>10. ASSUME NEW i \in 2..Len(c)
       PROVE  c[i] \notin P /\ c[i - 1] \in Node /\ u.next[c[i - 1]] = c[i]
                  /\ KeyOf[c[i]] = KeyOf[c[i - 1]]
  <2>1. i \in 1..Len(c) /\ i - 1 \in 1..Len(c) /\ (i - 1) + 1 = i
    BY <1>7
  <2>2. u.next[c[i - 1]] = c[i]
    <3>1. u.next[c[i - 1]] = At(c, (i - 1) + 1)
      BY <1>6, <2>1
    <3> QED BY <2>1, <3>1 DEF At
  <2>3. c[i - 1] \in Node /\ c[i] \in Node /\ c[i] # NULL
    BY <1>7, <2>1, LinkFacts
  <2> QED BY <1>1, <2>2, <2>3
<1> DEFINE G == {j \in Nat : j \in 1..Len(c) =>
                   KeyOf[c[j]] = KeyOf[n] /\ \A i \in 1..j - 1 : rank[c[j]] < rank[c[i]]}
           mu == [j \in Nat |-> j]
<1>11. ASSUME NEW j \in Nat, \A k \in Nat : mu[k] < mu[j] => k \in G PROVE j \in G
  <2>1. CASE j \notin 2..Len(c)
    <3>1. j \in 1..Len(c) => j = 1
      BY <1>7, <2>1
    <3> QED BY <1>8, <3>1
  <2>2. CASE j \in 2..Len(c)
    <3>1. j - 1 \in Nat /\ j - 1 \in 1..Len(c) /\ mu[j - 1] < mu[j]
      BY <1>7, <2>2
    <3>2. KeyOf[c[j - 1]] = KeyOf[n] /\ \A i \in 1..(j - 1) - 1 : rank[c[j - 1]] < rank[c[i]]
      BY <1>11, <3>1
    <3>3. rank[c[j]] < rank[c[j - 1]] /\ KeyOf[c[j]] = KeyOf[n]
      BY <1>3, <1>10, <2>2, <3>2
    <3>4. \A i \in 1..Len(c) : rank[c[i]] \in Nat
      BY <1>3, <1>7, LinkFacts
    <3>5. ASSUME NEW i \in 1..j - 1 PROVE rank[c[j]] < rank[c[i]]
      <4>1. CASE i = j - 1
        BY <3>3, <4>1
      <4>2. CASE i # j - 1
        <5>1. i \in 1..(j - 1) - 1 /\ i \in 1..Len(c) /\ j \in 1..Len(c)
          BY <1>7, <2>2, <4>2
        <5>2. rank[c[j - 1]] < rank[c[i]]
          BY <3>2, <5>1
        <5> QED BY <3>1, <3>3, <3>4, <5>1, <5>2
      <4> QED BY <4>1, <4>2
    <3> QED BY <3>3, <3>5
  <2> QED BY <2>1, <2>2
<1>12. mu \in [Nat -> Nat] /\ \A i \in Nat : (\A k \in Nat : mu[k] < mu[i] => k \in G) => i \in G
  BY <1>11
<1>15. \A j \in 1..Len(c) : j \in G =>
         KeyOf[c[j]] = KeyOf[n] /\ \A i \in 1..j - 1 : rank[c[j]] < rank[c[i]]
  OBVIOUS
<1> HIDE DEF G, mu
<1>13. Nat \subseteq G
  BY ONLY <1>12, MeasureInduction
<1>14. \A j \in 1..Len(c) : KeyOf[c[j]] = KeyOf[n] /\ \A i \in 1..j - 1 : rank[c[j]] < rank[c[i]]
  BY <1>13, <1>15
<1>16. Distinct(c)
  <2> SUFFICES ASSUME NEW i \in 1..Len(c), NEW j \in 1..Len(c), c[i] = c[j] PROVE i = j
    BY DEF Distinct
  <2>1. rank[c[i]] \in Nat
    BY <1>3, <1>7, LinkFacts
  <2>2. ~(i < j)
    <3>1. i < j => i \in 1..j - 1
      BY <1>7
    <3> QED BY <1>14, <2>1, <3>1
  <2>3. ~(j < i)
    <3>1. j < i => j \in 1..i - 1
      BY <1>7
    <3> QED BY <1>14, <2>1, <3>1
  <2> QED BY <1>7, <2>2, <2>3
<1>17. Listed(u, P, n, c)
  BY <1>6, <1>7, <1>8, <1>9, <1>10, <1>14, <1>16 DEF Listed
<1> QED BY <1>17 DEF c

\* A list stays if its links do.
LEMMA ChainKept ==
  ASSUME NEW u, NEW P, Lists(u.next, P), NEW v, NEW Q, Lists(v.next, Q), NEW n \in Link,
         \A a \in Node : In(Chain(u, n), a) => v.next[a] = u.next[a]
  PROVE  Chain(v, n) = Chain(u, n)
<1> DEFINE c == Chain(u, n)
<1>1. Trail(u.next, c, n)
  BY ChainTrail
<1>2. \A a \in Node : In(c, a) => v.next[a] = u.next[a]
  OBVIOUS
<1> HIDE DEF c
<1>3. c \in Seq(Node) /\ At(c, 1) = n /\ \A i \in 1..Len(c) : u.next[c[i]] = At(c, i + 1)
  BY <1>1 DEF Trail
<1>4. \A i \in 1..Len(c) : v.next[c[i]] = u.next[c[i]]
  BY <1>2, <1>3, ElementOfSeq DEF In
<1>5. Trail(v.next, c, n)
  BY <1>3, <1>4 DEF Trail
<1>6. Chain(v, n) = c
  BY ONLY <1>5, Lists(v.next, Q), n \in Link, TrailIsChain
<1> QED BY <1>6 DEF c

\* InsertAt behind the first element.
LEMMA InsertSecond ==
  ASSUME NEW e \in Node, NEW c \in Seq(Node), NEW n \in Node
  PROVE  InsertAt(<<e>> \o c, 2, n) = <<e>> \o (<<n>> \o c)
<1> DEFINE w == <<e>> \o c
<1>1. <<e>> \in Seq(Node) /\ Len(<<e>>) = 1 /\ <<n>> \in Seq(Node) /\ Len(c) \in Nat /\ <<e>>[1] = e
  BY LenProperties
<1>2. /\ w \in Seq(Node) /\ Len(w) = 1 + Len(c)
      /\ \A i \in 1..1 + Len(c) : w[i] = IF i <= 1 THEN <<e>>[i] ELSE c[i - 1]
  <2>1. /\ <<e>> \o c \in Seq(Node) /\ Len(<<e>> \o c) = Len(<<e>>) + Len(c)
        /\ \A i \in 1..Len(<<e>>) + Len(c) :
             (<<e>> \o c)[i] = IF i <= Len(<<e>>) THEN <<e>>[i] ELSE c[i - Len(<<e>>)]
    BY <1>1, ConcatProperties
  <2> QED BY <1>1, <2>1
<1> HIDE DEF w
<1>3. \A i \in 1..Len(w) : w[i] \in Node
  BY <1>2, ElementOfSeq
<1>4. SubSeq(w, 1, 1) = <<e>>
  <2>1. \A i \in 1..1 : w[i] \in Node
    BY <1>1, <1>2, <1>3
  <2>2. /\ SubSeq(w, 1, 1) \in Seq(Node) /\ Len(SubSeq(w, 1, 1)) = IF 1 <= 1 THEN 1 - 1 + 1 ELSE 0
        /\ \A i \in 1..1 - 1 + 1 : SubSeq(w, 1, 1)[i] = w[1 + i - 1]
    BY ONLY <2>1, SubSeqProperties
  <2>3. Len(SubSeq(w, 1, 1)) = 1 /\ SubSeq(w, 1, 1)[1] = w[1] /\ w[1] = e
    BY <1>1, <1>2, <2>2
  <2>4. \A i \in 1..1 : i = 1
    OBVIOUS
  <2>5. \A i \in 1..Len(SubSeq(w, 1, 1)) : SubSeq(w, 1, 1)[i] = <<e>>[i]
    BY <1>1, <2>3, <2>4
  <2> QED BY ONLY <1>1, <2>2, <2>3, <2>5, SeqEqual
<1>5. SubSeq(w, 2, Len(w)) = c
  <2> DEFINE s == SubSeq(w, 2, Len(w))
  <2>1. 2 \in Int /\ Len(w) \in Int /\ \A i \in 2..Len(w) : w[i] \in Node
    BY <1>1, <1>2, <1>3
  <2>2. /\ s \in Seq(Node) /\ Len(s) = IF 2 <= Len(w) THEN Len(w) - 2 + 1 ELSE 0
        /\ \A i \in 1..Len(w) - 2 + 1 : s[i] = w[2 + i - 1]
    BY ONLY <2>1, SubSeqProperties
  <2> HIDE DEF s
  <2>3. Len(s) = Len(c)
    BY <1>1, <1>2, <2>2
  <2>4. \A i \in 1..Len(c) : s[i] = c[i]
    <3> TAKE i \in 1..Len(c)
    <3>1. i \in 1..Len(w) - 2 + 1 /\ 2 + i - 1 = i + 1 /\ i + 1 \in 1..1 + Len(c) /\ ~(i + 1 <= 1)
          /\ (i + 1) - 1 = i
      BY <1>1, <1>2
    <3> QED BY <1>2, <2>2, <3>1
  <2>5. s = c
    BY <2>2, <2>3, <2>4, SeqEqual
  <2> QED BY <2>5 DEF s
<1>6. InsertAt(w, 2, n) = SubSeq(w, 1, 2 - 1) \o <<n>> \o SubSeq(w, 2, Len(w))
  BY DEF InsertAt
<1>7. InsertAt(w, 2, n) = (<<e>> \o <<n>>) \o c
  <2>1. 2 - 1 = 1
    OBVIOUS
  <2>2. InsertAt(w, 2, n) = SubSeq(w, 1, 1) \o <<n>> \o SubSeq(w, 2, Len(w))
    BY ONLY <2>1, <1>6
  <2> QED BY ONLY <1>4, <1>5, <2>2
<1>8. (<<e>> \o <<n>>) \o c = <<e>> \o (<<n>> \o c)
  BY ONLY <1>1, c \in Seq(Node), ConcatAssociative
<1>9. w = <<e>> \o c
  BY DEF w
<1> QED BY ONLY <1>7, <1>8, <1>9

\* RemoveAt, element by element.
LEMMA RemoveOne ==
  ASSUME NEW c \in Seq(Node), NEW i \in 1..Len(c), NEW r, r = RemoveAt(c, i)
  PROVE  /\ r \in Seq(Node) /\ Len(r) = Len(c) - 1
         /\ \A j \in 1..Len(c) - 1 : r[j] = IF j < i THEN c[j] ELSE c[j + 1]
<1> DEFINE a == SubSeq(c, 1, i - 1)
           b == SubSeq(c, i + 1, Len(c))
<1>1. Len(c) \in Nat /\ \A j \in 1..Len(c) : c[j] \in Node
  BY LenProperties, ElementOfSeq
<1>2. a \in Seq(Node) /\ Len(a) = i - 1 /\ \A j \in 1..i - 1 : a[j] = c[j]
  <2>1. 1 \in Int /\ i - 1 \in Int /\ \A j \in 1..i - 1 : c[j] \in Node
    BY <1>1
  <2>2. /\ a \in Seq(Node) /\ Len(a) = IF 1 <= i - 1 THEN (i - 1) - 1 + 1 ELSE 0
        /\ \A j \in 1..(i - 1) - 1 + 1 : a[j] = c[1 + j - 1]
    BY ONLY <2>1, SubSeqProperties
  <2> HIDE DEF a
  <2>3. \A j \in 1..i - 1 : j \in 1..(i - 1) - 1 + 1 /\ 1 + j - 1 = j
    BY <1>1
  <2> QED BY <1>1, <2>2, <2>3
<1>3. b \in Seq(Node) /\ Len(b) = Len(c) - i /\ \A j \in 1..Len(c) - i : b[j] = c[j + i]
  <2>1. i + 1 \in Int /\ Len(c) \in Int /\ \A j \in i + 1..Len(c) : c[j] \in Node
    BY <1>1
  <2>2. /\ b \in Seq(Node) /\ Len(b) = IF i + 1 <= Len(c) THEN Len(c) - (i + 1) + 1 ELSE 0
        /\ \A j \in 1..Len(c) - (i + 1) + 1 : b[j] = c[(i + 1) + j - 1]
    BY ONLY <2>1, SubSeqProperties
  <2> HIDE DEF b
  <2>3. \A j \in 1..Len(c) - i : j \in 1..Len(c) - (i + 1) + 1 /\ (i + 1) + j - 1 = j + i
    BY <1>1
  <2> QED BY <1>1, <2>2, <2>3
<1>4. r = a \o b
  BY DEF RemoveAt
<1> HIDE DEF a, b
<1>5. /\ r \in Seq(Node) /\ Len(r) = Len(a) + Len(b)
      /\ \A j \in 1..Len(a) + Len(b) : r[j] = IF j <= Len(a) THEN a[j] ELSE b[j - Len(a)]
  <2>1. a \in Seq(Node) /\ b \in Seq(Node)
    BY <1>2, <1>3
  <2>2. /\ a \o b \in Seq(Node) /\ Len(a \o b) = Len(a) + Len(b)
        /\ \A j \in 1..Len(a) + Len(b) : (a \o b)[j] = IF j <= Len(a) THEN a[j] ELSE b[j - Len(a)]
    BY ONLY <2>1, ConcatProperties
  <2> QED BY ONLY <1>4, <2>2
<1>6. Len(r) = Len(c) - 1
  BY <1>1, <1>2, <1>3, <1>5
<1>7. ASSUME NEW j \in 1..Len(c) - 1 PROVE r[j] = IF j < i THEN c[j] ELSE c[j + 1]
  <2>1. j \in 1..Len(a) + Len(b)
    BY <1>1, <1>2, <1>3
  <2>2. CASE j < i
    <3>1. j <= Len(a) /\ j \in 1..i - 1
      BY <1>1, <1>2, <2>2
    <3> QED BY <1>2, <1>5, <2>1, <2>2, <3>1
  <2>3. CASE ~(j < i)
    <3>1. ~(j <= Len(a)) /\ j - Len(a) \in 1..Len(c) - i /\ (j - Len(a)) + i = j + 1
      BY <1>1, <1>2, <2>3
    <3>2. r[j] = b[j - Len(a)] /\ b[j - Len(a)] = c[(j - Len(a)) + i]
      BY <1>3, <1>5, <2>1, <3>1
    <3> QED BY <2>3, <3>1, <3>2
  <2> QED BY <2>2, <2>3
<1> QED BY <1>5, <1>6, <1>7

\* The links with n behind e ...
Behind(nx, e, n) == [nx EXCEPT ![n] = nx[e], ![e] = n]

\* ... and without m, which is behind a.
Without(nx, a, m) == [nx EXCEPT ![a] = nx[m], ![m] = NULL]

\* The list of e with n behind e.
LEMMA ChainAdded ==
  ASSUME NEW u, NEW P, Lists(u.next, P), NEW n \in P, NEW e \in P, n # e,
         NEW v, v.next = Behind(u.next, e, n), NEW Q, Lists(v.next, Q)
  PROVE  Chain(v, e) = InsertAt(Chain(u, e), 2, n)
<1> DEFINE c == Chain(u, u.next[e])
<1>1. /\ P \in SUBSET Node /\ u.next \in [Node -> Link]
      /\ \A a \in Node : u.next[a] # NULL => u.next[a] \in Node \ P
  BY DEF Lists
<1>2. n \in Node /\ e \in Node /\ e \in Link /\ e # NULL /\ u.next[e] \in Link
  BY <1>1, LinkFacts
<1>3. Chain(u, e) = <<e>> \o c /\ c \in Seq(Node)
  BY <1>2, ChainStep
<1>4. Trail(u.next, c, u.next[e])
  BY <1>2, ChainTrail
<1>5. Len(c) \in Nat /\ \A i \in 1..Len(c) : c[i] \in Node
  BY <1>3, LenProperties, ElementOfSeq
<1> HIDE DEF c
<1>6. At(c, 1) = u.next[e] /\ \A i \in 1..Len(c) : u.next[c[i]] = At(c, i + 1)
  BY <1>4 DEF Trail
<1>7. ASSUME NEW i \in 1..Len(c) PROVE c[i] \notin P
  <2>1. CASE i = 1
    BY <1>1, <1>2, <1>5, <1>6, <2>1, LinkFacts DEF At
  <2>2. CASE i # 1
    <3>1. i - 1 \in 1..Len(c) /\ (i - 1) + 1 = i
      BY <1>5, <2>2
    <3>2. u.next[c[i - 1]] = At(c, (i - 1) + 1) /\ c[i - 1] \in Node /\ c[i] \in Node
      BY <1>5, <1>6, <3>1
    <3>3. u.next[c[i - 1]] = c[i]
      BY <3>1, <3>2 DEF At
    <3> QED BY <1>1, <3>2, <3>3, LinkFacts
  <2> QED BY <2>1, <2>2
<1>8. /\ v.next[n] = u.next[e] /\ v.next[e] = n
      /\ \A a \in Node : a # n /\ a # e => v.next[a] = u.next[a]
  BY <1>1, <1>2 DEF Behind
<1>9. \A i \in 1..Len(c) : v.next[c[i]] = At(c, i + 1)
  BY <1>5, <1>6, <1>7, <1>8
<1>10. Trail(v.next, c, v.next[n])
  BY <1>3, <1>6, <1>8, <1>9 DEF Trail
<1>11. Trail(v.next, <<n>> \o c, n)
  BY ONLY <1>2, <1>10, TrailCons
<1>12. Trail(v.next, <<n>> \o c, v.next[e])
  BY <1>8, <1>11
<1>13. Trail(v.next, <<e>> \o (<<n>> \o c), e)
  BY ONLY <1>2, <1>12, TrailCons
<1>14. Chain(v, e) = <<e>> \o (<<n>> \o c)
  BY ONLY <1>2, <1>13, Lists(v.next, Q), TrailIsChain
<1>15. InsertAt(<<e>> \o c, 2, n) = <<e>> \o (<<n>> \o c)
  BY ONLY <1>2, <1>3, InsertSecond
<1> QED BY <1>3, <1>14, <1>15

\* The list of h without its element m behind a.
LEMMA ChainCut ==
  ASSUME NEW u, NEW P, Lists(u.next, P), NEW h \in P, NEW i \in 2..Len(Chain(u, h)),
         NEW v, v.next = Without(u.next, Chain(u, h)[i - 1], Chain(u, h)[i]),
         NEW Q, Lists(v.next, Q)
  PROVE  Chain(v, h) = RemoveAt(Chain(u, h), i)
<1> DEFINE c == Chain(u, h)
           a == c[i - 1]
           m == c[i]
<1>0. i \in 2..Len(c) /\ v.next = Without(u.next, a, m) /\ a = c[i - 1] /\ m = c[i]
          /\ c = Chain(u, h)
  OBVIOUS
<1> HIDE DEF c, a, m
<1> DEFINE r == RemoveAt(c, i)
<1>1. u.next \in [Node -> Link] /\ P \in SUBSET Node /\ h \in Node /\ h \in Link
  BY LinkFacts DEF Lists
<1>2. /\ c \in Seq(Node) /\ Len(c) \in Nat \ {0} /\ c[1] = h /\ Distinct(c)
      /\ \A j \in 1..Len(c) : c[j] \in Node
  <2>1. Listed(u, P, h, Chain(u, h))
    BY ONLY Lists(u.next, P), h \in P, ChainIs
  <2> QED BY <1>0, <2>1 DEF Listed
<1>3. Trail(u.next, c, h)
  BY ONLY <1>0, <1>1, Lists(u.next, P), ChainTrail
<1>4. \A j \in 1..Len(c) : u.next[c[j]] = At(c, j + 1)
  BY <1>3 DEF Trail
<1>5. i \in 1..Len(c) /\ i - 1 \in 1..Len(c) /\ a \in Node /\ m \in Node
  BY <1>0, <1>2
<1>6. /\ r \in Seq(Node) /\ Len(r) = Len(c) - 1
      /\ \A j \in 1..Len(c) - 1 : r[j] = IF j < i THEN c[j] ELSE c[j + 1]
  <2>1. c \in Seq(Node) /\ i \in 1..Len(c) /\ r = RemoveAt(c, i)
    BY <1>2, <1>5
  <2> HIDE DEF r
  <2> QED BY ONLY <2>1, RemoveOne
<1> HIDE DEF r
<1>7. a # m /\ \A j \in 1..Len(c) : (c[j] = a => j = i - 1) /\ (c[j] = m => j = i)
  BY <1>0, <1>2, <1>5 DEF Distinct
<1>8. \A b \in Node : v.next[b] = IF b = m THEN NULL ELSE IF b = a THEN u.next[m] ELSE u.next[b]
  BY <1>0, <1>1, <1>5, <1>7 DEF Without
<1>9. ASSUME NEW j \in 1..Len(r) PROVE v.next[r[j]] = At(r, j + 1)
  <2>0. j \in 1..Len(c) - 1 /\ j \in 1..Len(c) /\ j + 1 \in 1..Len(c)
    BY <1>2, <1>6
  <2>1. CASE j < i - 1
    <3>1. r[j] = c[j] /\ c[j] # a /\ c[j] # m /\ j < i
      BY <1>5, <1>6, <1>7, <2>0, <2>1
    <3>2. v.next[r[j]] = At(c, j + 1)
      <4>1. c[j] \in Node /\ u.next[c[j]] = At(c, j + 1)
        BY ONLY <1>2, <1>4, <2>0
      <4>2. v.next[c[j]] = u.next[c[j]]
        BY ONLY <1>8, <3>1, <4>1
      <4> QED BY ONLY <3>1, <4>1, <4>2
    <3>3. j + 1 \in 1..Len(c) - 1 /\ j + 1 < i
      BY <1>2, <1>5, <2>0, <2>1
    <3> QED BY <1>6, <2>0, <3>2, <3>3 DEF At
  <2>2. CASE j = i - 1
    <3>1. r[j] = a /\ v.next[a] = u.next[m] /\ u.next[m] = At(c, i + 1)
      <4>1. j < i /\ r[j] = c[j] /\ c[j] = a
        BY <1>0, <1>5, <1>6, <2>0, <2>2
      <4>2. u.next[c[i]] = At(c, i + 1) /\ c[i] = m
        BY ONLY <1>0, <1>4, <1>5
      <4>3. v.next[a] = u.next[m]
        BY ONLY <1>5, <1>7, <1>8
      <4> QED BY ONLY <4>1, <4>2, <4>3
    <3>2. j + 1 = i /\ ~(i < i)
      BY <1>5, <2>2
    <3>3. i + 1 \in 1..Len(c) <=> i \in 1..Len(c) - 1
      BY <1>2, <1>5
    <3>4. At(r, i) = At(c, i + 1)
      BY <1>6, <3>2, <3>3 DEF At
    <3> QED BY <3>1, <3>2, <3>4
  <2>3. CASE j >= i
    <3>1. r[j] = c[j + 1] /\ c[j + 1] # a /\ c[j + 1] # m /\ c[j + 1] \in Node
      <4>1. ~(j < i) /\ j + 1 # i /\ j + 1 # i - 1
        BY <1>5, <2>0, <2>3
      <4> QED BY <1>2, <1>6, <1>7, <2>0, <4>1
    <3>2. v.next[r[j]] = At(c, (j + 1) + 1)
      BY <1>4, <1>8, <2>0, <3>1
    <3>3. ((j + 1) + 1 \in 1..Len(c) <=> j + 1 \in 1..Len(c) - 1) /\ ~(j + 1 < i)
      BY <1>2, <1>5, <2>0, <2>3
    <3>4. At(r, j + 1) = At(c, (j + 1) + 1)
      BY <1>6, <3>3 DEF At
    <3> QED BY <3>2, <3>4
  <2> QED BY <1>5, <2>0, <2>1, <2>2, <2>3
<1>10. At(r, 1) = h
  <2>1. 1 \in 1..Len(r) /\ 1 \in 1..Len(c) - 1 /\ 1 < i
    BY <1>0, <1>2, <1>5, <1>6
  <2> QED BY <1>2, <1>6, <2>1 DEF At
<1>11. Trail(v.next, r, h)
  BY <1>6, <1>9, <1>10 DEF Trail
<1>12. Chain(v, h) = r
  BY ONLY <1>1, <1>11, Lists(v.next, Q), TrailIsChain
<1> QED BY <1>0, <1>12 DEF r

(***************************************************************************)
(* The inductive invariant, and how the calls keep it.                     *)
(***************************************************************************)
\* u is a red-black tree on the nodes T, with lists of equal keys; users hold h, the nodes f are
\* free.  In a unique tree, m = FALSE, there are no other nodes and no lists.
Whole(u, T, D, B, h, f, m) ==
  /\ Balanced(u, T, D, KeyOf, T, B)
  /\ h \in SUBSET Node /\ f \in SUBSET Node /\ m \in BOOLEAN
  /\ T \cap h = {} /\ T \cap f = {} /\ h \cap f = {}
  /\ Lists(u.next, T \cup h \cup f)
  /\ ~m => Node = T \cup h \cup f /\ \A n \in Node : u.next[n] = NULL

Sound(u, T, h, f, m) == \E D, B : Whole(u, T, D, B, h, f, m)

Parts(u, T, D, B, h, f, m) ==
  /\ Balanced(u, T, D, KeyOf, T, B) /\ Shaped(u, T, D, KeyOf) /\ u \in Tree
  /\ T \in SUBSET Node /\ h \in SUBSET Node /\ f \in SUBSET Node /\ m \in BOOLEAN
  /\ T \cap h = {} /\ T \cap f = {} /\ h \cap f = {}
  /\ Lists(u.next, T \cup h \cup f) /\ u.next \in [Node -> Link]
  /\ ~m => Node = T \cup h \cup f /\ \A x \in Node : u.next[x] = NULL

LEMMA WholeFacts ==
  ASSUME NEW u, NEW T, NEW D, NEW B, NEW h, NEW f, NEW m, Whole(u, T, D, B, h, f, m)
  PROVE  Parts(u, T, D, B, h, f, m)
<1>1. Balanced(u, T, D, KeyOf, T, B)
  BY DEF Whole
<1>2. Shaped(u, T, D, KeyOf)
  BY <1>1 DEF Balanced
<1>3. u \in Tree /\ T \in SUBSET Node
  BY <1>2 DEF Shaped
<1>4. u.next \in [Node -> Link]
  BY <1>3 DEF Tree
<1> QED BY <1>1, <1>2, <1>3, <1>4 DEF Whole, Parts

\* Only the lists change.
LEMMA SameBalanced ==
  ASSUME NEW u, NEW T, NEW D, NEW K, NEW B, Balanced(u, T, D, K, T, B),
         NEW v \in Tree, v.root = u.root,
         \A x \in Node : v.parent[x] = u.parent[x] /\ \A d \in Dir : v[d][x] = u[d][x],
         \A x \in T : v.color[x] = u.color[x]
  PROVE  Balanced(v, T, D, K, T, B)
<1>0. Shaped(u, T, D, K) /\ Colored(u, T, B, {}, 0) /\ (u.root \in T => u.color[u.root] = "BLACK")
  BY DEF Balanced
<1>1. u \in Tree /\ T \in SUBSET Node
  BY <1>0 DEF Shaped
<1>2. "left" \in Dir /\ "right" \in Dir
  BY DEF Dir
<1>3. \A d \in Dir : v[d] = u[d]
  <2> TAKE d \in Dir
  <2>1. u[d] \in [Node -> Link] /\ v[d] \in [Node -> Link]
    BY <1>1, TreeFields
  <2> QED BY <2>1
<1>4. v.parent = u.parent
  <2>1. u.parent \in [Node -> Link] /\ v.parent \in [Node -> Link]
    BY <1>1 DEF Tree
  <2> QED BY <2>1
<1>5. Shaped(v, T, D, K)
  <2>1. u["left"] = v["left"] /\ u["right"] = v["right"]
    BY <1>2, <1>3
  <2>2. \A d \in Dir, n \in Node : v[d][n] = u[d][n]
    OBVIOUS
  <2> QED BY ONLY <1>0, <1>1, <1>2, <1>4, <2>1, <2>2, v \in Tree, v.root = u.root DEF Shaped
<1>6. ASSUME NEW n \in T, NEW d \in Dir PROVE FineSide(v, B, {}, 0, n, d)
  <2>1. FineSide(u, B, {}, 0, n, d)
    BY <1>0 DEF Colored, Fine
  <2>2. v[d][n] = u[d][n] /\ v.color[n] = u.color[n]
    BY <1>1
  <2>3. Color(v, u[d][n]) = Color(u, u[d][n])
    <3>1. u[d][n] # NULL => u[d][n] \in T
      BY <1>0 DEF Shaped
    <3> QED BY <3>1 DEF Color
  <2> QED BY <2>1, <2>2, <2>3 DEF FineSide
<1>7. Colored(v, T, B, {}, 0)
  BY <1>0, <1>6 DEF Colored, Fine
<1> QED BY <1>0, <1>5, <1>7 DEF Balanced

LEMMA ClearedFields ==
  ASSUME NEW u \in Tree, NEW n \in Node, NEW v, v = Cleared(u, n)
  PROVE  /\ v \in Tree /\ v.root = u.root /\ v.next = [u.next EXCEPT ![n] = NULL]
         /\ \A x \in Node : /\ v.parent[x] = IF x = n THEN NULL ELSE u.parent[x]
                            /\ v.color[x] = IF x = n THEN "RED" ELSE u.color[x]
                            /\ \A d \in Dir : v[d][x] = IF x = n THEN NULL ELSE u[d][x]
<1>1. /\ u.left \in [Node -> Link] /\ u.right \in [Node -> Link] /\ u.parent \in [Node -> Link]
      /\ u.next \in [Node -> Link] /\ u.color \in [Node -> {"RED", "BLACK"}] /\ u.root \in Link
  BY DEF Tree, Coloring
<1>2. v = [u EXCEPT !.left = [u.left EXCEPT ![n] = NULL], !.right = [u.right EXCEPT ![n] = NULL],
                    !.parent = [u.parent EXCEPT ![n] = NULL], !.next = [u.next EXCEPT ![n] = NULL],
                    !.color = [u.color EXCEPT ![n] = "RED"]]
  BY DEF Cleared, Tree
<1>3. /\ v.root = u.root /\ v.left = [u.left EXCEPT ![n] = NULL]
      /\ v.right = [u.right EXCEPT ![n] = NULL] /\ v.parent = [u.parent EXCEPT ![n] = NULL]
      /\ v.next = [u.next EXCEPT ![n] = NULL] /\ v.color = [u.color EXCEPT ![n] = "RED"]
  BY <1>2 DEF Tree
<1>4. v \in Tree
  <2>1. /\ [u.left EXCEPT ![n] = NULL] \in [Node -> Link]
        /\ [u.right EXCEPT ![n] = NULL] \in [Node -> Link]
        /\ [u.parent EXCEPT ![n] = NULL] \in [Node -> Link]
        /\ [u.next EXCEPT ![n] = NULL] \in [Node -> Link]
        /\ [u.color EXCEPT ![n] = "RED"] \in Coloring
    BY <1>1, LinkFacts DEF Coloring
  <2> QED BY <1>1, <1>2, <2>1 DEF Tree
<1>5. v.left = v["left"] /\ v.right = v["right"] /\ u.left = u["left"] /\ u.right = u["right"]
  BY <1>4, TreeFields DEF Dir
<1>6. ASSUME NEW x \in Node, NEW d \in Dir PROVE v[d][x] = IF x = n THEN NULL ELSE u[d][x]
  <2>1. d = "left" \/ d = "right"
    BY DEF Dir
  <2>2. CASE d = "left"
    BY <1>1, <1>3, <1>5, <2>2
  <2>3. CASE d = "right"
    BY <1>1, <1>3, <1>5, <2>3
  <2> QED BY <2>1, <2>2, <2>3
<1>7. \A x \in Node : /\ v.parent[x] = IF x = n THEN NULL ELSE u.parent[x]
                      /\ v.color[x] = IF x = n THEN "RED" ELSE u.color[x]
  BY <1>1, <1>3
<1> QED BY <1>3, <1>4, <1>6, <1>7

\* zrbtree_recycle_node.
LEMMA RecycleSound ==
  ASSUME NEW u, NEW T, NEW h, NEW f, NEW m, Sound(u, T, h, f, m), NEW n \in h,
         NEW v, v = Cleared(u, n)
  PROVE  Sound(v, T, h \ {n}, f \cup {n}, m) /\ v.next = [u.next EXCEPT ![n] = NULL]
<1>1. PICK D, B : Whole(u, T, D, B, h, f, m)
  BY DEF Sound
<1>2. /\ Balanced(u, T, D, KeyOf, T, B) /\ Shaped(u, T, D, KeyOf) /\ u \in Tree
      /\ T \in SUBSET Node /\ h \in SUBSET Node /\ f \in SUBSET Node /\ m \in BOOLEAN
      /\ T \cap h = {} /\ T \cap f = {} /\ h \cap f = {}
      /\ Lists(u.next, T \cup h \cup f) /\ u.next \in [Node -> Link]
      /\ ~m => Node = T \cup h \cup f /\ \A x \in Node : u.next[x] = NULL
  <2>1. Parts(u, T, D, B, h, f, m)
    BY ONLY <1>1, WholeFacts
  <2> QED BY ONLY <2>1 DEF Parts
<1>3. n \in Node /\ n \notin T
  BY <1>2
<1>4. /\ v \in Tree /\ v.root = u.root /\ v.next = [u.next EXCEPT ![n] = NULL]
      /\ \A x \in Node : /\ v.parent[x] = IF x = n THEN NULL ELSE u.parent[x]
                         /\ v.color[x] = IF x = n THEN "RED" ELSE u.color[x]
                         /\ \A d \in Dir : v[d][x] = IF x = n THEN NULL ELSE u[d][x]
  BY <1>2, <1>3, ClearedFields
<1>5. u.parent[n] = NULL /\ \A d \in Dir : u[d][n] = NULL
  BY <1>2, <1>3 DEF Shaped
<1>6. /\ \A x \in Node : v.parent[x] = u.parent[x] /\ \A d \in Dir : v[d][x] = u[d][x]
      /\ \A x \in T : v.color[x] = u.color[x]
  BY <1>2, <1>3, <1>4, <1>5
<1>7. Balanced(v, T, D, KeyOf, T, B)
  BY ONLY <1>2, <1>4, <1>6, SameBalanced
<1>8. Lists(v.next, T \cup h \cup f)
  BY ONLY <1>2, <1>3, <1>4, ListsCleared
<1>9. T \cup (h \ {n}) \cup (f \cup {n}) = T \cup h \cup f
  OBVIOUS
<1>10. ~m => \A x \in Node : v.next[x] = NULL
  BY <1>2, <1>3, <1>4
<1>11. Whole(v, T, D, B, h \ {n}, f \cup {n}, m)
  BY <1>2, <1>3, <1>7, <1>8, <1>9, <1>10 DEF Whole
<1> QED BY <1>4, <1>11 DEF Sound

\* zrbtree_insert of an equal node.
Enlisted(u, e, n) == [u EXCEPT !.next[n] = u.next[e], !.next[e] = n]

LEMMA InsertEqualSound ==
  ASSUME NEW u, NEW T, NEW h, NEW f, NEW m, Sound(u, T, h, f, m), NEW n \in h, NEW e \in T,
         KeyOf[n] = KeyOf[e], m = TRUE
  PROVE  Sound(Enlisted(u, e, n), T, h \ {n}, f, m) /\ Enlisted(u, e, n).next = Behind(u.next, e, n)
<1> DEFINE v == Enlisted(u, e, n)
<1>1. PICK D, B : Whole(u, T, D, B, h, f, m)
  BY DEF Sound
<1>2. /\ Balanced(u, T, D, KeyOf, T, B) /\ Shaped(u, T, D, KeyOf) /\ u \in Tree
      /\ T \in SUBSET Node /\ h \in SUBSET Node /\ f \in SUBSET Node /\ m \in BOOLEAN
      /\ T \cap h = {} /\ T \cap f = {} /\ h \cap f = {}
      /\ Lists(u.next, T \cup h \cup f) /\ u.next \in [Node -> Link]
      /\ ~m => Node = T \cup h \cup f /\ \A x \in Node : u.next[x] = NULL
  <2>1. Parts(u, T, D, B, h, f, m)
    BY ONLY <1>1, WholeFacts
  <2> QED BY ONLY <2>1 DEF Parts
<1>3. n \in Node /\ e \in Node /\ n # e /\ n \in Link /\ u.next[e] \in Link
  BY <1>2, LinkFacts
<1> DEFINE nx == [u.next EXCEPT ![n] = u.next[e], ![e] = n]
<1>4. v = [u EXCEPT !.next = nx]
  BY <1>2 DEF Tree, Enlisted
<1>5. nx \in [Node -> Link]
  BY <1>2, <1>3
<1>6. nx = [u.next EXCEPT ![n] = u.next[e], ![e] = n]
  OBVIOUS
<1> HIDE DEF nx, v
<1>7. /\ v \in Tree /\ v.next = nx /\ v.root = u.root /\ v.parent = u.parent
      /\ v.left = u.left /\ v.right = u.right /\ v.color = u.color
  BY ONLY <1>2, <1>4, <1>5 DEF Tree
<1>8. \A d \in Dir : v[d] = u[d]
  BY <1>2, <1>7, TreeFields DEF Dir
<1>9. Balanced(v, T, D, KeyOf, T, B)
  <2>1. /\ \A x \in Node : v.parent[x] = u.parent[x] /\ \A d \in Dir : v[d][x] = u[d][x]
        /\ \A x \in T : v.color[x] = u.color[x]
    BY ONLY <1>7, <1>8
  <2> QED BY ONLY <1>2, <1>7, <2>1, SameBalanced
<1>10. Lists(v.next, (T \cup h \cup f) \ {n})
  <2>1. n \in T \cup h \cup f /\ e \in T \cup h \cup f /\ KeyOf[n] = KeyOf[e]
    OBVIOUS
  <2> QED BY ONLY <1>2, <1>3, <1>6, <1>7, <2>1, ListsAdded
<1>11. T \cup (h \ {n}) \cup f = (T \cup h \cup f) \ {n}
  BY <1>2
<1>12. Whole(v, T, D, B, h \ {n}, f, m)
  BY <1>2, <1>9, <1>10, <1>11 DEF Whole
<1>13. Sound(v, T, h \ {n}, f, m) /\ v.next = Behind(u.next, e, n)
  BY <1>6, <1>7, <1>12 DEF Sound, Behind
<1> QED BY <1>13 DEF v

\* zrbtree_insert of a new key.
LEMMA InsertNewSound ==
  ASSUME NEW u, NEW T, NEW h, NEW f, NEW m, Sound(u, T, h, f, m), NEW n \in h,
         \A x \in T : KeyOf[x] # KeyOf[n],
         NEW v, v = InsertCase1(AttachedTo(u, n, InsertPlace(u, n)), n)
  PROVE  Sound(v, T \cup {n}, h \ {n}, f, m) /\ v.next = u.next
<1>1. PICK D, B : Whole(u, T, D, B, h, f, m)
  BY DEF Sound
<1>2. /\ Balanced(u, T, D, KeyOf, T, B) /\ Shaped(u, T, D, KeyOf) /\ u \in Tree
      /\ T \in SUBSET Node /\ h \in SUBSET Node /\ f \in SUBSET Node /\ m \in BOOLEAN
      /\ T \cap h = {} /\ T \cap f = {} /\ h \cap f = {}
      /\ Lists(u.next, T \cup h \cup f) /\ u.next \in [Node -> Link]
      /\ ~m => Node = T \cup h \cup f /\ \A x \in Node : u.next[x] = NULL
  <2>1. Parts(u, T, D, B, h, f, m)
    BY ONLY <1>1, WholeFacts
  <2> QED BY ONLY <2>1 DEF Parts
<1>3. n \in Node \ T
  BY <1>2
<1>4. v.next = u.next /\ \E E, C : Balanced(v, T \cup {n}, E, KeyOf, T \cup {n}, C)
  BY ONLY <1>2, <1>3, \A x \in T : KeyOf[x] # KeyOf[n],
          v = InsertCase1(AttachedTo(u, n, InsertPlace(u, n)), n), InsertedSound
<1>5. PICK E, C : Balanced(v, T \cup {n}, E, KeyOf, T \cup {n}, C)
  BY <1>4
<1>6. (T \cup {n}) \cup (h \ {n}) \cup f = T \cup h \cup f
  OBVIOUS
<1>7. Whole(v, T \cup {n}, E, C, h \ {n}, f, m)
  <2>1. (T \cup {n}) \cap (h \ {n}) = {} /\ (T \cup {n}) \cap f = {} /\ (h \ {n}) \cap f = {}
    BY <1>2
  <2>2. h \ {n} \in SUBSET Node
    BY <1>2
  <2> QED BY ONLY <1>2, <1>4, <1>5, <1>6, <2>1, <2>2 DEF Whole
<1> QED BY <1>4, <1>7 DEF Sound

\* A node leaves the tree and is cleared, or is in the hands of the user.
LEMMA LeftSound ==
  ASSUME NEW u, NEW T, NEW D, NEW B, NEW h, NEW f, NEW m, Whole(u, T, D, B, h, f, m), NEW n \in T,
         NEW x, x = Unlink(u, n), NEW v, Unlinked(x, n, v),
         v.next = x.next \/ v.next = [x.next EXCEPT ![n] = NULL],
         NEW g \in SUBSET Node, NEW k \in SUBSET Node, g \cap k = {}, g \cup k = h \cup f \cup {n},
         (T \ {n}) \cap (g \cup k) = {}
  PROVE  Sound(v, T \ {n}, g, k, m)
<1>2. /\ Balanced(u, T, D, KeyOf, T, B) /\ Shaped(u, T, D, KeyOf) /\ u \in Tree
      /\ T \in SUBSET Node /\ h \in SUBSET Node /\ f \in SUBSET Node /\ m \in BOOLEAN
      /\ T \cap h = {} /\ T \cap f = {} /\ h \cap f = {}
      /\ Lists(u.next, T \cup h \cup f) /\ u.next \in [Node -> Link]
      /\ ~m => Node = T \cup h \cup f /\ \A b \in Node : u.next[b] = NULL
  <2>1. Parts(u, T, D, B, h, f, m)
    BY ONLY Whole(u, T, D, B, h, f, m), WholeFacts
  <2> QED BY ONLY <2>1 DEF Parts
<1>3. /\ x \in Tree /\ x.next = u.next
      /\ \A y : Unlinked(x, n, y) => \E E, C : Balanced(y, T \ {n}, E, KeyOf, T \ {n}, C)
  BY ONLY <1>2, n \in T, x = Unlink(u, n), UnlinkSound
<1>4. PICK E, C : Balanced(v, T \ {n}, E, KeyOf, T \ {n}, C)
  BY ONLY <1>3, Unlinked(x, n, v)
<1>5. (T \ {n}) \cup g \cup k = T \cup h \cup f
  OBVIOUS
<1>6. Lists(v.next, T \cup h \cup f)
  <2>1. CASE v.next = u.next
    BY <1>2, <2>1
  <2>2. CASE v.next = [u.next EXCEPT ![n] = NULL]
    <3>1. n \in Node
      BY <1>2
    <3> QED BY ONLY <1>2, <2>2, <3>1, ListsCleared
  <2> QED BY <1>3, <2>1, <2>2
<1>7. ~m => \A y \in Node : v.next[y] = NULL
  BY <1>2, <1>3
<1>8. Whole(v, T \ {n}, E, C, g, k, m)
  <2>1. (T \ {n}) \cap g = {} /\ (T \ {n}) \cap k = {}
    OBVIOUS
  <2> QED BY <1>2, <1>4, <1>5, <1>6, <1>7, <2>1 DEF Whole
<1> QED BY <1>8 DEF Sound

\* zrbtree_erase.
LEMMA EraseSound ==
  ASSUME NEW u, NEW T, NEW h, NEW f, NEW m, Sound(u, T, h, f, m), NEW n \in T,
         NEW v, v = Cleared(Unlink(u, n), n)
  PROVE  Sound(v, T \ {n}, h, f \cup {n}, m) /\ v.next = [u.next EXCEPT ![n] = NULL]
<1>1. PICK D, B : Whole(u, T, D, B, h, f, m)
  BY DEF Sound
<1>2. /\ Balanced(u, T, D, KeyOf, T, B) /\ Shaped(u, T, D, KeyOf) /\ u \in Tree
      /\ T \in SUBSET Node /\ h \in SUBSET Node /\ f \in SUBSET Node /\ m \in BOOLEAN
      /\ T \cap h = {} /\ T \cap f = {} /\ h \cap f = {}
      /\ Lists(u.next, T \cup h \cup f) /\ u.next \in [Node -> Link]
      /\ ~m => Node = T \cup h \cup f /\ \A x \in Node : u.next[x] = NULL
  <2>1. Parts(u, T, D, B, h, f, m)
    BY ONLY <1>1, WholeFacts
  <2> QED BY ONLY <2>1 DEF Parts
<1> DEFINE x == Unlink(u, n)
<1>3. x = Unlink(u, n) /\ v = Cleared(x, n)
  OBVIOUS
<1> HIDE DEF x
<1>4. x \in Tree /\ x.next = u.next
  BY ONLY <1>2, <1>3, n \in T, UnlinkSound
<1>5. n \in Node
  BY <1>2
<1>6. /\ v \in Tree /\ v.root = x.root /\ v.next = [x.next EXCEPT ![n] = NULL]
      /\ \A y \in Node : /\ v.parent[y] = IF y = n THEN NULL ELSE x.parent[y]
                         /\ v.color[y] = IF y = n THEN "RED" ELSE x.color[y]
                         /\ \A d \in Dir : v[d][y] = IF y = n THEN NULL ELSE x[d][y]
  BY ONLY <1>3, <1>4, <1>5, ClearedFields
<1>7. Unlinked(x, n, v)
  BY ONLY <1>6 DEF Unlinked
<1>8. /\ h \in SUBSET Node /\ f \cup {n} \in SUBSET Node /\ h \cap (f \cup {n}) = {}
      /\ h \cup (f \cup {n}) = h \cup f \cup {n} /\ (T \ {n}) \cap (h \cup (f \cup {n})) = {}
      /\ (v.next = x.next \/ v.next = [x.next EXCEPT ![n] = NULL])
  BY <1>2, <1>5, <1>6
<1>9. Sound(v, T \ {n}, h, f \cup {n}, m)
  BY ONLY <1>1, <1>3, <1>7, <1>8, n \in T, LeftSound
<1> QED BY <1>4, <1>6, <1>9

\* zrbtree_pop_front.
LEMMA PopSound ==
  ASSUME NEW u, NEW T, NEW h, NEW f, NEW m, Sound(u, T, h, f, m), NEW n \in T,
         NEW v, v = [Unlink(u, n) EXCEPT !.left[n] = NULL, !.right[n] = NULL, !.parent[n] = NULL]
  PROVE  Sound(v, T \ {n}, h \cup {n}, f, m) /\ v.next = u.next
<1>1. PICK D, B : Whole(u, T, D, B, h, f, m)
  BY DEF Sound
<1>2. /\ Balanced(u, T, D, KeyOf, T, B) /\ Shaped(u, T, D, KeyOf) /\ u \in Tree
      /\ T \in SUBSET Node /\ h \in SUBSET Node /\ f \in SUBSET Node /\ m \in BOOLEAN
      /\ T \cap h = {} /\ T \cap f = {} /\ h \cap f = {}
      /\ Lists(u.next, T \cup h \cup f) /\ u.next \in [Node -> Link]
      /\ ~m => Node = T \cup h \cup f /\ \A x \in Node : u.next[x] = NULL
  <2>1. Parts(u, T, D, B, h, f, m)
    BY ONLY <1>1, WholeFacts
  <2> QED BY ONLY <2>1 DEF Parts
<1> DEFINE x == Unlink(u, n)
<1>3. x = Unlink(u, n) /\ v = [x EXCEPT !.left[n] = NULL, !.right[n] = NULL, !.parent[n] = NULL]
  OBVIOUS
<1>17. x = Unlink(u, n)
  OBVIOUS
<1> HIDE DEF x
<1>4. x \in Tree /\ x.next = u.next
  BY ONLY <1>2, <1>3, n \in T, UnlinkSound
<1>5. n \in Node
  BY <1>2
<1>10. /\ x.left \in [Node -> Link] /\ x.right \in [Node -> Link] /\ x.parent \in [Node -> Link]
  BY <1>4 DEF Tree
<1>11. v = [x EXCEPT !.left = [x.left EXCEPT ![n] = NULL], !.right = [x.right EXCEPT ![n] = NULL],
                     !.parent = [x.parent EXCEPT ![n] = NULL]]
  BY ONLY <1>3, <1>4 DEF Tree
<1>12. /\ [x.left EXCEPT ![n] = NULL] \in [Node -> Link]
       /\ [x.right EXCEPT ![n] = NULL] \in [Node -> Link]
       /\ [x.parent EXCEPT ![n] = NULL] \in [Node -> Link]
  BY <1>10, LinkFacts
<1>13. /\ v \in Tree /\ v.root = x.root /\ v.next = x.next /\ v.color = x.color
       /\ v.left = [x.left EXCEPT ![n] = NULL] /\ v.right = [x.right EXCEPT ![n] = NULL]
       /\ v.parent = [x.parent EXCEPT ![n] = NULL]
  BY ONLY <1>4, <1>11, <1>12 DEF Tree
<1>14. v.left = v["left"] /\ v.right = v["right"] /\ x.left = x["left"] /\ x.right = x["right"]
  BY <1>4, <1>13, TreeFields DEF Dir
<1>15. ASSUME NEW y \in Node, NEW d \in Dir PROVE v[d][y] = IF y = n THEN NULL ELSE x[d][y]
  <2>1. d = "left" \/ d = "right"
    BY DEF Dir
  <2>2. CASE d = "left"
    BY <1>10, <1>13, <1>14, <2>2
  <2>3. CASE d = "right"
    BY <1>10, <1>13, <1>14, <2>3
  <2> QED BY <2>1, <2>2, <2>3
<1>6. \A y \in Node : v.parent[y] = IF y = n THEN NULL ELSE x.parent[y]
  BY ONLY <1>10, <1>13
<1>7. Unlinked(x, n, v)
  BY ONLY <1>6, <1>13, <1>15 DEF Unlinked
<1> DEFINE g == h \cup {n}
<1>16. g = h \cup {n}
  OBVIOUS
<1> HIDE DEF g
<1>8. /\ g \in SUBSET Node /\ f \in SUBSET Node /\ g \cap f = {}
      /\ g \cup f = h \cup f \cup {n} /\ (T \ {n}) \cap (g \cup f) = {}
      /\ (v.next = x.next \/ v.next = [x.next EXCEPT ![n] = NULL])
  <2>1. g \in SUBSET Node /\ g \cap f = {}
    BY <1>2, <1>5, <1>16
  <2>2. g \cup f = h \cup f \cup {n} /\ (T \ {n}) \cap (g \cup f) = {}
    BY ONLY <1>2, <1>16
  <2> QED BY ONLY <1>2, <1>13, <2>1, <2>2
<1>9. Sound(v, T \ {n}, g, f, m)
  BY ONLY <1>1, <1>17, <1>7, <1>8, n \in T, LeftSound
<1> QED BY <1>4, <1>9, <1>13, <1>16

\* zrbtree_erasex of a node behind the head.
Delisted(u, a, n) == Cleared([u EXCEPT !.next[a] = u.next[n]], n)

LEMMA CutSound ==
  ASSUME NEW u, NEW T, NEW h, NEW f, NEW m, Sound(u, T, h, f, m), NEW a \in Node, NEW n \in Node,
         u.next[a] = n
  PROVE  /\ Sound(Delisted(u, a, n), T, h, f \cup {n}, m)
         /\ Delisted(u, a, n).next = Without(u.next, a, n)
<1> DEFINE v == Delisted(u, a, n)
<1>1. PICK D, B : Whole(u, T, D, B, h, f, m)
  BY DEF Sound
<1>2. /\ Balanced(u, T, D, KeyOf, T, B) /\ Shaped(u, T, D, KeyOf) /\ u \in Tree
      /\ T \in SUBSET Node /\ h \in SUBSET Node /\ f \in SUBSET Node /\ m \in BOOLEAN
      /\ T \cap h = {} /\ T \cap f = {} /\ h \cap f = {}
      /\ Lists(u.next, T \cup h \cup f) /\ u.next \in [Node -> Link]
      /\ ~m => Node = T \cup h \cup f /\ \A x \in Node : u.next[x] = NULL
  <2>1. Parts(u, T, D, B, h, f, m)
    BY ONLY <1>1, WholeFacts
  <2> QED BY ONLY <2>1 DEF Parts
<1>3. n \notin T \cup h \cup f /\ m /\ n # NULL
  BY <1>2, LinkFacts DEF Lists
<1> DEFINE x == [u EXCEPT !.next[a] = u.next[n]]
           nx == [u.next EXCEPT ![a] = u.next[n]]
<1>4. x = [u EXCEPT !.next = nx] /\ nx \in [Node -> Link] /\ nx = [u.next EXCEPT ![a] = u.next[n]]
  BY <1>2 DEF Tree
<1>5. v = Cleared(x, n)
  BY DEF Delisted
<1> HIDE DEF x, nx, v
<1>6. /\ x \in Tree /\ x.next = nx /\ x.root = u.root /\ x.parent = u.parent
      /\ x.left = u.left /\ x.right = u.right /\ x.color = u.color
  BY ONLY <1>2, <1>4 DEF Tree
<1>7. \A d \in Dir : x[d] = u[d]
  BY <1>2, <1>6, TreeFields DEF Dir
<1>8. /\ v \in Tree /\ v.root = x.root /\ v.next = [x.next EXCEPT ![n] = NULL]
      /\ \A y \in Node : /\ v.parent[y] = IF y = n THEN NULL ELSE x.parent[y]
                         /\ v.color[y] = IF y = n THEN "RED" ELSE x.color[y]
                         /\ \A d \in Dir : v[d][y] = IF y = n THEN NULL ELSE x[d][y]
  <2>1. x \in Tree /\ v = Cleared(x, n)
    BY ONLY <1>5, <1>6
  <2> QED BY ONLY <2>1, n \in Node, ClearedFields
<1>9. u.parent[n] = NULL /\ \A d \in Dir : u[d][n] = NULL
  BY <1>2, <1>3 DEF Shaped
<1>10. /\ v.root = u.root
       /\ \A y \in Node : v.parent[y] = u.parent[y] /\ \A d \in Dir : v[d][y] = u[d][y]
       /\ \A y \in T : v.color[y] = u.color[y]
  BY <1>2, <1>3, <1>6, <1>7, <1>8, <1>9
<1>11. Balanced(v, T, D, KeyOf, T, B)
  BY ONLY <1>2, <1>8, <1>10, SameBalanced
<1>12. v.next = [u.next EXCEPT ![a] = u.next[n], ![n] = NULL]
  BY ONLY <1>2, <1>4, <1>6, <1>8
<1>13. Lists(v.next, (T \cup h \cup f) \cup {n})
  BY ONLY <1>2, <1>12, a \in Node, n \in Node, u.next[a] = n, ListsCut
<1>14. T \cup h \cup (f \cup {n}) = (T \cup h \cup f) \cup {n}
  OBVIOUS
<1>15. Whole(v, T, D, B, h, f \cup {n}, m)
  BY <1>2, <1>3, <1>11, <1>13, <1>14 DEF Whole
<1>16. Sound(v, T, h, f \cup {n}, m) /\ v.next = Without(u.next, a, n)
  BY <1>12, <1>15 DEF Sound, Without
<1> QED BY <1>16 DEF v

\* zrbtree_get_node.
LEMMA GetSound ==
  ASSUME NEW u, NEW T, NEW h, NEW f, NEW m, Sound(u, T, h, f, m), NEW n \in f
  PROVE  Sound(u, T, h \cup {n}, f \ {n}, m)
<1>1. PICK D, B : Whole(u, T, D, B, h, f, m)
  BY DEF Sound
<1>2. T \cup (h \cup {n}) \cup (f \ {n}) = T \cup h \cup f
  OBVIOUS
<1>3. Whole(u, T, D, B, h \cup {n}, f \ {n}, m)
  BY <1>1, <1>2 DEF Whole
<1> QED BY <1>3 DEF Sound

\* zrbtree_create.
LEMMA InitSound ==
  Init => Sound(t, {}, held, free, multiple)
<1> SUFFICES ASSUME Init PROVE Sound(t, {}, held, free, multiple)
  OBVIOUS
<1> DEFINE none == [n \in Node |-> NULL]
           D == [n \in Link |-> {}]
           B == [n \in Link |-> 1]
<1>1. /\ t = [root |-> NULL, left |-> none, right |-> none, parent |-> none, next |-> none,
              color |-> [n \in Node |-> "RED"]]
      /\ multiple \in BOOLEAN /\ held = {} /\ free = Node
  BY DEF Init
<1>2. none \in [Node -> Link] /\ \A n \in Node : none[n] = NULL
  BY LinkFacts
<1>3. none = [n \in Node |-> NULL]
  OBVIOUS
<1>4. [n \in Node |-> "RED"] \in Coloring
  BY DEF Coloring
<1> HIDE DEF none
<1>5. t \in Tree /\ t.root = NULL /\ t.left = none /\ t.right = none /\ t.parent = none
          /\ t.next = none
  BY <1>1, <1>2, <1>4, LinkFacts DEF Tree
<1>6. \A d \in Dir : t[d] = none
  BY <1>5, TreeFields DEF Dir
<1>7. Shaped(t, {}, D, KeyOf)
  BY <1>2, <1>5, <1>6, LinkFacts, RBTreeAssumption DEF Shaped
<1>8. Colored(t, {}, B, {}, 0)
  BY LinkFacts DEF Colored, Heights
<1>9. Balanced(t, {}, D, KeyOf, {}, B)
  BY <1>7, <1>8 DEF Balanced
<1>10. Lists(t.next, {} \cup held \cup free)
  <2>1. {} \cup held \cup free \in SUBSET Node
    BY <1>1
  <2> QED BY ONLY <1>3, <1>5, <2>1, ListsEmpty
<1>11. Whole(t, {}, D, B, held, free, multiple)
  BY <1>1, <1>2, <1>5, <1>9, <1>10 DEF Whole
<1> QED BY <1>11 DEF Sound

(***************************************************************************)
(* The list of a key.                                                      *)
(***************************************************************************)
Item(u, k) == Chain(u, Walk(u, u.root, k))

SoundParts(u, T, h, f, m) ==
  /\ u \in Tree /\ T \in SUBSET Node /\ h \in SUBSET Node /\ f \in SUBSET Node /\ m \in BOOLEAN
  /\ T \cap h = {} /\ T \cap f = {} /\ h \cap f = {}
  /\ Lists(u.next, T \cup h \cup f) /\ u.next \in [Node -> Link]
  /\ ~m => Node = T \cup h \cup f /\ \A x \in Node : u.next[x] = NULL
  /\ \E D : Shaped(u, T, D, KeyOf)

LEMMA SoundFacts ==
  ASSUME NEW u, NEW T, NEW h, NEW f, NEW m, Sound(u, T, h, f, m)
  PROVE  SoundParts(u, T, h, f, m)
<1>1. PICK D, B : Whole(u, T, D, B, h, f, m)
  BY DEF Sound
<1>2. Parts(u, T, D, B, h, f, m)
  BY ONLY <1>1, WholeFacts
<1> QED BY ONLY <1>2 DEF Parts, SoundParts

LEMMA KeysFacts ==
  ASSUME NEW n \in Node
  PROVE  KeyOf[n] \in Int /\ KeyOf[n] \in Keys
  BY RBTreeAssumption DEF Keys

\* w is the node of T with the key k, or NULL.
Holds(T, k, w) ==
  \/ w \in T /\ KeyOf[w] = k
  \/ w = NULL /\ \A x \in T : KeyOf[x] # k

LEMMA WalkIs ==
  ASSUME NEW u, NEW T, NEW h, NEW f, NEW m, Sound(u, T, h, f, m), NEW k \in Int
  PROVE  Holds(T, k, Walk(u, u.root, k))
<1>1. SoundParts(u, T, h, f, m)
  BY SoundFacts
<1>2. PICK D : Shaped(u, T, D, KeyOf)
  BY <1>1 DEF SoundParts
<1>3. /\ \A n \in T : Finds(D, n, k, Walk(u, n, k))
      /\ Finds(D, u.root, k, Walk(u, u.root, k))
  BY ONLY <1>2, k \in Int, WalkFinds
<1>4. D[u.root] = T
  BY <1>2 DEF Shaped
<1> QED BY <1>3, <1>4 DEF Finds, Holds

\* No key is twice in the tree.
LEMMA KeyOnce ==
  ASSUME NEW u, NEW T, NEW h, NEW f, NEW m, Sound(u, T, h, f, m), NEW a \in T, NEW b \in T,
         KeyOf[a] = KeyOf[b]
  PROVE  a = b
<1>1. SoundParts(u, T, h, f, m)
  BY SoundFacts
<1>2. PICK D : Shaped(u, T, D, KeyOf)
  BY <1>1 DEF SoundParts
<1> QED BY ONLY <1>2, a \in T, b \in T, KeyOf[a] = KeyOf[b], OneKey

\* A key that is not in the tree has no list ...
LEMMA ItemEmpty ==
  ASSUME NEW u, NEW T, NEW h, NEW f, NEW m, Sound(u, T, h, f, m), NEW k \in Int,
         \A x \in T : KeyOf[x] # k
  PROVE  Walk(u, u.root, k) = NULL /\ Item(u, k) = <<>>
<1>1. SoundParts(u, T, h, f, m)
  BY SoundFacts
<1>2. Holds(T, k, Walk(u, u.root, k))
  BY ONLY Sound(u, T, h, f, m), k \in Int, WalkIs
<1>3. Walk(u, u.root, k) = NULL
  BY <1>2 DEF Holds
<1>4. Chain(u, NULL) = <<>>
  <2>1. Lists(u.next, T \cup h \cup f) /\ NULL \in Link
    BY <1>1, LinkFacts DEF SoundParts
  <2> QED BY ONLY <2>1, ChainStep
<1> QED BY <1>3, <1>4 DEF Item

\* ... and that of a key in the tree is the chain of its node.
LEMMA ItemHead ==
  ASSUME NEW u, NEW T, NEW h, NEW f, NEW m, Sound(u, T, h, f, m), NEW n \in T
  PROVE  /\ Walk(u, u.root, KeyOf[n]) = n /\ Item(u, KeyOf[n]) = Chain(u, n)
         /\ Listed(u, T \cup h \cup f, n, Item(u, KeyOf[n]))
<1>1. SoundParts(u, T, h, f, m)
  BY SoundFacts
<1>2. n \in Node /\ KeyOf[n] \in Int
  BY <1>1, KeysFacts DEF SoundParts
<1>3. Holds(T, KeyOf[n], Walk(u, u.root, KeyOf[n]))
  BY ONLY Sound(u, T, h, f, m), <1>2, WalkIs
<1>4. Walk(u, u.root, KeyOf[n]) \in T /\ KeyOf[Walk(u, u.root, KeyOf[n])] = KeyOf[n]
  BY <1>3 DEF Holds
<1>5. Walk(u, u.root, KeyOf[n]) = n
  BY ONLY Sound(u, T, h, f, m), <1>4, n \in T, KeyOnce
<1>6. Item(u, KeyOf[n]) = Chain(u, n)
  BY <1>5 DEF Item
<1>7. Listed(u, T \cup h \cup f, n, Chain(u, n))
  <2>1. Lists(u.next, T \cup h \cup f) /\ n \in T \cup h \cup f
    BY <1>1 DEF SoundParts
  <2> QED BY ONLY <2>1, ChainIs
<1> QED BY <1>5, <1>6, <1>7

\* The nodes with key k are the same in two trees.
SameAt(T, S, k) == \A x \in Node : KeyOf[x] = k => (x \in T <=> x \in S)

\* The list of a key stays if its nodes and their links do.
LEMMA ItemKept ==
  ASSUME NEW u, NEW T, NEW h, NEW f, NEW m, Sound(u, T, h, f, m),
         NEW v, NEW S, NEW g, NEW e, NEW l, Sound(v, S, g, e, l), NEW k \in Int, SameAt(T, S, k),
         \A a \in Node : KeyOf[a] = k /\ a \notin h /\ a \notin f => v.next[a] = u.next[a]
  PROVE  Item(v, k) = Item(u, k)
<1>1. SoundParts(u, T, h, f, m) /\ SoundParts(v, S, g, e, l)
  BY SoundFacts
<1>2. CASE \A x \in T : KeyOf[x] # k
  <2>1. \A x \in S : KeyOf[x] # k
    BY <1>1, <1>2 DEF SoundParts, SameAt
  <2>2. Item(u, k) = <<>>
    BY ONLY <1>2, Sound(u, T, h, f, m), k \in Int, ItemEmpty
  <2>3. Item(v, k) = <<>>
    BY ONLY <2>1, Sound(v, S, g, e, l), k \in Int, ItemEmpty
  <2> QED BY <2>2, <2>3
<1>3. CASE ~ \A x \in T : KeyOf[x] # k
  <2>1. PICK n \in T : KeyOf[n] = k
    BY <1>3
  <2>2. n \in S /\ n \in Node /\ n \in Link
    BY <1>1, <2>1, LinkFacts DEF SoundParts, SameAt
  <2>3. Item(u, KeyOf[n]) = Chain(u, n) /\ Listed(u, T \cup h \cup f, n, Item(u, KeyOf[n]))
    BY ONLY Sound(u, T, h, f, m), <2>1, ItemHead
  <2>4. Item(v, KeyOf[n]) = Chain(v, n)
    BY ONLY Sound(v, S, g, e, l), <2>2, ItemHead
  <2>5. ASSUME NEW a \in Node, In(Chain(u, n), a) PROVE v.next[a] = u.next[a]
    <3> DEFINE c == Chain(u, n)
    <3>1. Listed(u, T \cup h \cup f, n, c) /\ In(c, a)
      BY <2>3, <2>5
    <3> HIDE DEF c
    <3>2. PICK i \in 1..Len(c) : c[i] = a
      BY <3>1 DEF In
    <3>3. KeyOf[a] = k
      BY <2>1, <3>1, <3>2 DEF Listed
    <3>4. i = 1 \/ i \in 2..Len(c)
      BY <3>1 DEF Listed
    <3>5. a = n \/ a \notin T \cup h \cup f
      BY <3>1, <3>2, <3>4 DEF Listed
    <3>6. a \notin h /\ a \notin f
      BY <1>1, <3>5 DEF SoundParts
    <3> QED BY <3>3, <3>6
  <2>6. Lists(u.next, T \cup h \cup f) /\ Lists(v.next, S \cup g \cup e)
    BY <1>1 DEF SoundParts
  <2>7. Chain(v, n) = Chain(u, n)
    BY ONLY <2>2, <2>5, <2>6, ChainKept
  <2> QED BY <2>1, <2>3, <2>4, <2>7
<1> QED BY <1>2, <1>3

\* The lists of other keys stay.
OthersKept(u, v, k) == \A j \in Keys : j # k => Item(v, j) = Item(u, j)

\* What a call may do to the lists, as Multimap says.
Effect(u, v, m) ==
  \/ \A j \in Keys : Item(v, j) = Item(u, j)
  \/ \E n \in Node : /\ OthersKept(u, v, KeyOf[n]) /\ Item(u, KeyOf[n]) = <<>>
                     /\ Item(v, KeyOf[n]) # <<>> /\ Item(v, KeyOf[n])[1] = n
  \/ \E n \in Node : /\ OthersKept(u, v, KeyOf[n]) /\ m /\ Item(u, KeyOf[n]) # <<>>
                     /\ Item(v, KeyOf[n]) = InsertAt(Item(u, KeyOf[n]), 2, n)
  \/ \E k \in Keys : OthersKept(u, v, k) /\ Item(v, k) = <<>>
  \/ \E k \in Keys : \E i \in DOMAIN Item(u, k) :
       OthersKept(u, v, k) /\ Item(v, k) = RemoveAt(Item(u, k), i)

LEMMA OthersStay ==
  ASSUME NEW u, NEW T, NEW h, NEW f, NEW m, Sound(u, T, h, f, m),
         NEW v, NEW S, NEW g, NEW e, NEW l, Sound(v, S, g, e, l), NEW k,
         \A x \in Node : KeyOf[x] # k => (x \in T <=> x \in S),
         \A a \in Node : KeyOf[a] # k => v.next[a] = u.next[a]
  PROVE  OthersKept(u, v, k)
<1> SUFFICES ASSUME NEW j \in Keys, j # k PROVE Item(v, j) = Item(u, j)
  BY DEF OthersKept
<1>1. j \in Int
  BY KeysFacts DEF Keys
<1>2. /\ SameAt(T, S, j)
      /\ \A a \in Node : KeyOf[a] = j /\ a \notin h /\ a \notin f => v.next[a] = u.next[a]
  BY DEF SameAt
<1> QED BY ONLY Sound(u, T, h, f, m), Sound(v, S, g, e, l), <1>1, <1>2, ItemKept

(***************************************************************************)
(* Every call keeps the invariant and does to the lists what Multimap says. *)
(***************************************************************************)
\* v is the tree u after a call, with the nodes h and f in the hands of users and free.
Moved(u, v, h, f, m) == \E S : Sound(v, S, h, f, m) /\ Effect(u, v, m)

LEMMA RecycleMoves ==
  ASSUME NEW u, NEW T, NEW h, NEW f, NEW m, Sound(u, T, h, f, m), NEW n \in h,
         NEW v, v = Cleared(u, n)
  PROVE  Moved(u, v, h \ {n}, f \cup {n}, m)
<1>1. Sound(v, T, h \ {n}, f \cup {n}, m) /\ v.next = [u.next EXCEPT ![n] = NULL]
  BY ONLY Sound(u, T, h, f, m), n \in h, v = Cleared(u, n), RecycleSound
<1>2. SoundParts(u, T, h, f, m)
  BY SoundFacts
<1>3. \A a \in Node : a \notin h => v.next[a] = u.next[a]
  BY <1>1, <1>2 DEF SoundParts
<1>4. ASSUME NEW k \in Keys PROVE Item(v, k) = Item(u, k)
  <2>1. k \in Int
    BY KeysFacts DEF Keys
  <2>2. /\ SameAt(T, T, k)
        /\ \A a \in Node : KeyOf[a] = k /\ a \notin h /\ a \notin f => v.next[a] = u.next[a]
    BY <1>3 DEF SameAt
  <2>3. Sound(v, T, h \ {n}, f \cup {n}, m)
    BY <1>1
  <2> QED BY ONLY Sound(u, T, h, f, m), <2>1, <2>2, <2>3, ItemKept
<1> QED BY <1>1, <1>4 DEF Moved, Effect

LEMMA InsertEqualMoves ==
  ASSUME NEW u, NEW T, NEW h, NEW f, NEW m, Sound(u, T, h, f, m), NEW n \in h, NEW e \in T,
         KeyOf[n] = KeyOf[e], m = TRUE, NEW v, v = Enlisted(u, e, n)
  PROVE  Moved(u, v, h \ {n}, f, m)
<1>1. Sound(v, T, h \ {n}, f, m) /\ v.next = Behind(u.next, e, n)
  <2>1. Sound(Enlisted(u, e, n), T, h \ {n}, f, m) /\ Enlisted(u, e, n).next = Behind(u.next, e, n)
    BY ONLY Sound(u, T, h, f, m), n \in h, e \in T, KeyOf[n] = KeyOf[e], m = TRUE, InsertEqualSound
  <2> QED BY <2>1
<1>2. SoundParts(u, T, h, f, m) /\ SoundParts(v, T, h \ {n}, f, m)
  BY <1>1, SoundFacts
<1>3. n \in Node /\ e \in Node /\ n # e /\ n \in T \cup h \cup f /\ e \in T \cup h \cup f
  BY <1>2 DEF SoundParts
<1>4. \A a \in Node : KeyOf[a] # KeyOf[e] => v.next[a] = u.next[a]
  BY <1>1, <1>2, <1>3 DEF SoundParts, Behind
<1>5. OthersKept(u, v, KeyOf[n])
  <2>1. \A x \in Node : KeyOf[x] # KeyOf[e] => (x \in T <=> x \in T)
    OBVIOUS
  <2>2. OthersKept(u, v, KeyOf[e])
    BY ONLY Sound(u, T, h, f, m), <1>1, <1>4, <2>1, OthersStay
  <2> QED BY <2>2
<1>6. /\ Item(u, KeyOf[e]) = Chain(u, e) /\ Listed(u, T \cup h \cup f, e, Item(u, KeyOf[e]))
  BY ONLY Sound(u, T, h, f, m), e \in T, ItemHead
<1>7. Item(v, KeyOf[e]) = Chain(v, e)
  BY ONLY <1>1, e \in T, ItemHead
<1>8. Chain(v, e) = InsertAt(Chain(u, e), 2, n)
  <2>1. Lists(u.next, T \cup h \cup f) /\ Lists(v.next, T \cup (h \ {n}) \cup f)
    BY <1>2 DEF SoundParts
  <2> QED BY ONLY <1>1, <1>3, <2>1, ChainAdded
<1>9. Item(u, KeyOf[n]) # <<>> /\ Item(v, KeyOf[n]) = InsertAt(Item(u, KeyOf[n]), 2, n)
  <2>1. Item(u, KeyOf[e]) # <<>>
    BY <1>6 DEF Listed
  <2> QED BY <1>6, <1>7, <1>8, <2>1
<1> QED BY ONLY <1>1, <1>3, <1>5, <1>9, m = TRUE DEF Moved, Effect

LEMMA InsertNewMoves ==
  ASSUME NEW u, NEW T, NEW h, NEW f, NEW m, Sound(u, T, h, f, m), NEW n \in h,
         \A x \in T : KeyOf[x] # KeyOf[n],
         NEW v, v = InsertCase1(AttachedTo(u, n, InsertPlace(u, n)), n)
  PROVE  Moved(u, v, h \ {n}, f, m)
<1>1. Sound(v, T \cup {n}, h \ {n}, f, m) /\ v.next = u.next
  BY ONLY Sound(u, T, h, f, m), n \in h, \A x \in T : KeyOf[x] # KeyOf[n],
          v = InsertCase1(AttachedTo(u, n, InsertPlace(u, n)), n), InsertNewSound
<1>2. SoundParts(u, T, h, f, m)
  BY SoundFacts
<1>3. n \in Node /\ KeyOf[n] \in Int
  BY <1>2, KeysFacts DEF SoundParts
<1>4. OthersKept(u, v, KeyOf[n])
  <2>1. \A x \in Node : KeyOf[x] # KeyOf[n] => (x \in T <=> x \in T \cup {n})
    OBVIOUS
  <2>2. \A a \in Node : KeyOf[a] # KeyOf[n] => v.next[a] = u.next[a]
    BY <1>1
  <2> QED BY ONLY Sound(u, T, h, f, m), <1>1, <2>1, <2>2, OthersStay
<1>5. Item(u, KeyOf[n]) = <<>>
  BY ONLY Sound(u, T, h, f, m), <1>3, \A x \in T : KeyOf[x] # KeyOf[n], ItemEmpty
<1>6. Listed(v, (T \cup {n}) \cup (h \ {n}) \cup f, n, Item(v, KeyOf[n]))
  <2>1. n \in T \cup {n}
    OBVIOUS
  <2> QED BY ONLY <1>1, <2>1, ItemHead
<1>7. Item(v, KeyOf[n]) # <<>> /\ Item(v, KeyOf[n])[1] = n
  BY <1>6 DEF Listed
<1> QED BY ONLY <1>1, <1>3, <1>4, <1>5, <1>7 DEF Moved, Effect

\* A node leaves the tree with its list.
LEMMA LeftMoves ==
  ASSUME NEW u, NEW T, NEW h, NEW f, NEW m, Sound(u, T, h, f, m), NEW n \in T,
         NEW v, NEW g, NEW k, Sound(v, T \ {n}, g, k, m),
         \A a \in Node \ {n} : v.next[a] = u.next[a]
  PROVE  Moved(u, v, g, k, m)
<1>1. SoundParts(u, T, h, f, m)
  BY SoundFacts
<1>2. n \in Node /\ KeyOf[n] \in Int /\ KeyOf[n] \in Keys
  BY <1>1, KeysFacts DEF SoundParts
<1>3. OthersKept(u, v, KeyOf[n])
  <2>1. \A x \in Node : KeyOf[x] # KeyOf[n] => (x \in T <=> x \in T \ {n})
    OBVIOUS
  <2>2. \A a \in Node : KeyOf[a] # KeyOf[n] => v.next[a] = u.next[a]
    OBVIOUS
  <2> QED BY ONLY Sound(u, T, h, f, m), Sound(v, T \ {n}, g, k, m), <2>1, <2>2, OthersStay
<1>4. \A x \in T \ {n} : KeyOf[x] # KeyOf[n]
  <2> SUFFICES ASSUME NEW x \in T \ {n}, KeyOf[x] = KeyOf[n] PROVE FALSE
    OBVIOUS
  <2>1. x \in T /\ x # n
    OBVIOUS
  <2>2. x = n
    BY ONLY Sound(u, T, h, f, m), <2>1, n \in T, KeyOf[x] = KeyOf[n], KeyOnce
  <2> QED BY <2>1, <2>2
<1>5. Item(v, KeyOf[n]) = <<>>
  BY ONLY Sound(v, T \ {n}, g, k, m), <1>2, <1>4, ItemEmpty
<1> QED BY ONLY Sound(v, T \ {n}, g, k, m), <1>2, <1>3, <1>5 DEF Moved, Effect

LEMMA EraseMoves ==
  ASSUME NEW u, NEW T, NEW h, NEW f, NEW m, Sound(u, T, h, f, m), NEW n \in T,
         NEW v, v = Cleared(Unlink(u, n), n)
  PROVE  Moved(u, v, h, f \cup {n}, m)
<1>1. Sound(v, T \ {n}, h, f \cup {n}, m) /\ v.next = [u.next EXCEPT ![n] = NULL]
  BY ONLY Sound(u, T, h, f, m), n \in T, v = Cleared(Unlink(u, n), n), EraseSound
<1>2. SoundParts(u, T, h, f, m)
  BY SoundFacts
<1>3. \A a \in Node \ {n} : v.next[a] = u.next[a]
  BY <1>1, <1>2 DEF SoundParts
<1> QED BY ONLY Sound(u, T, h, f, m), n \in T, <1>1, <1>3, LeftMoves

LEMMA PopMoves ==
  ASSUME NEW u, NEW T, NEW h, NEW f, NEW m, Sound(u, T, h, f, m), NEW n \in T,
         NEW v, v = [Unlink(u, n) EXCEPT !.left[n] = NULL, !.right[n] = NULL, !.parent[n] = NULL]
  PROVE  Moved(u, v, h \cup {n}, f, m)
<1>1. Sound(v, T \ {n}, h \cup {n}, f, m) /\ v.next = u.next
  BY ONLY Sound(u, T, h, f, m), n \in T,
          v = [Unlink(u, n) EXCEPT !.left[n] = NULL, !.right[n] = NULL, !.parent[n] = NULL],
              PopSound
<1>2. \A a \in Node \ {n} : v.next[a] = u.next[a]
  BY <1>1
<1> QED BY ONLY Sound(u, T, h, f, m), n \in T, <1>1, <1>2, LeftMoves

LEMMA CutMoves ==
  ASSUME NEW u, NEW T, NEW h, NEW f, NEW m, Sound(u, T, h, f, m), NEW e \in T,
         NEW c, c = Chain(u, e), NEW i \in 2..Len(c), NEW n, n = c[i],
         NEW v, v = Delisted(u, c[i - 1], n)
  PROVE  Moved(u, v, h, f \cup {n}, m)
<1>1. SoundParts(u, T, h, f, m)
  BY SoundFacts
<1>2. /\ Walk(u, u.root, KeyOf[e]) = e /\ Item(u, KeyOf[e]) = c
      /\ Listed(u, T \cup h \cup f, e, c)
  <2>1. /\ Walk(u, u.root, KeyOf[e]) = e /\ Item(u, KeyOf[e]) = Chain(u, e)
        /\ Listed(u, T \cup h \cup f, e, Item(u, KeyOf[e]))
    BY ONLY Sound(u, T, h, f, m), e \in T, ItemHead
  <2> QED BY ONLY <2>1, c = Chain(u, e)
<1> DEFINE a == c[i - 1]
<1>3. a = c[i - 1]
  OBVIOUS
<1>4. i \in 1..Len(c) /\ a \in Node /\ n \in Node /\ u.next[a] = n /\ KeyOf[n] = KeyOf[e]
          /\ c \in Seq(Node)
  BY <1>2 DEF Listed
<1>5. i - 1 \in 1..Len(c)
  BY <1>2 DEF Listed
<1>6. KeyOf[a] = KeyOf[e]
  BY <1>2, <1>5 DEF Listed
<1>7. v = Delisted(u, a, n)
  OBVIOUS
<1> HIDE DEF a
<1>8. Sound(v, T, h, f \cup {n}, m) /\ v.next = Without(u.next, a, n)
  <2>1. a \in Node /\ n \in Node /\ u.next[a] = n
    BY <1>4
  <2>2. Sound(Delisted(u, a, n), T, h, f \cup {n}, m)
            /\ Delisted(u, a, n).next = Without(u.next, a, n)
    BY ONLY Sound(u, T, h, f, m), <2>1, CutSound
  <2> QED BY <1>7, <2>2
<1>9. e \in Node /\ KeyOf[e] \in Keys /\ u.next \in [Node -> Link]
  BY <1>1, KeysFacts DEF SoundParts
<1>10. OthersKept(u, v, KeyOf[e])
  <2>1. \A x \in Node : KeyOf[x] # KeyOf[e] => (x \in T <=> x \in T)
    OBVIOUS
  <2>2. \A x \in Node : KeyOf[x] # KeyOf[e] => v.next[x] = u.next[x]
    BY ONLY <1>4, <1>6, <1>8, <1>9 DEF Without
  <2> QED BY ONLY Sound(u, T, h, f, m), <1>8, <2>1, <2>2, OthersStay
<1>11. Item(v, KeyOf[e]) = Chain(v, e)
  BY ONLY <1>8, e \in T, ItemHead
<1>12. Chain(v, e) = RemoveAt(c, i)
  <2>1. SoundParts(v, T, h, f \cup {n}, m)
    BY ONLY <1>8, SoundFacts
  <2>2. Lists(u.next, T \cup h \cup f) /\ Lists(v.next, T \cup h \cup (f \cup {n}))
    BY <1>1, <2>1 DEF SoundParts
  <2>3. e \in T \cup h \cup f
    OBVIOUS
  <2>4. v.next = Without(u.next, a, n)
    BY <1>8
  <2>5. i \in 2..Len(Chain(u, e)) /\ v.next = Without(u.next, Chain(u, e)[i - 1], Chain(u, e)[i])
    BY <1>3, <2>4
  <2>6. Chain(v, e) = RemoveAt(Chain(u, e), i)
    <3> DEFINE P == T \cup h \cup f
               Q == T \cup h \cup (f \cup {n})
    <3>1. Lists(u.next, P) /\ Lists(v.next, Q) /\ e \in P
      BY ONLY <2>2, <2>3
    <3> HIDE DEF P, Q
    <3> QED BY ONLY <2>5, <3>1, ChainCut
  <2> QED BY <2>6
<1>13. i \in DOMAIN Item(u, KeyOf[e])
  BY <1>2, <1>4, LenProperties
<1>14. Item(v, KeyOf[e]) = RemoveAt(Item(u, KeyOf[e]), i)
  BY <1>2, <1>11, <1>12
<1> QED BY ONLY <1>8, <1>9, <1>10, <1>13, <1>14 DEF Moved, Effect

(***************************************************************************)
(* The inductive invariant of the program.                                 *)
(***************************************************************************)
TreeInv == \E T : Sound(t, T, held, free, multiple)

LEMMA UnmovedMoves ==
  ASSUME NEW u, NEW S, NEW h, NEW f, NEW m, Sound(u, S, h, f, m)
  PROVE  Moved(u, u, h, f, m)
  BY DEF Moved, Effect

LEMMA RecycleStep ==
  ASSUME NEW T, Sound(t, T, held, free, multiple), NEW n \in Node, RecycleNode(n)
  PROVE  Moved(t, t', held', free', multiple) /\ multiple' = multiple
<1>1. /\ n \in held /\ t' = Cleared(t, n) /\ held' = held \ {n} /\ free' = free \cup {n}
      /\ multiple' = multiple
  BY DEF RecycleNode
<1>2. Moved(t, Cleared(t, n), held \ {n}, free \cup {n}, multiple)
  BY ONLY Sound(t, T, held, free, multiple), <1>1, RecycleMoves
<1> QED BY <1>1, <1>2

LEMMA GetStep ==
  ASSUME NEW T, Sound(t, T, held, free, multiple), NEW n \in Node, GetNode(n)
  PROVE  Moved(t, t', held', free', multiple) /\ multiple' = multiple
<1>1. n \in free /\ t' = t /\ held' = held \cup {n} /\ free' = free \ {n} /\ multiple' = multiple
  BY DEF GetNode
<1>2. Sound(t, T, held \cup {n}, free \ {n}, multiple)
  BY ONLY Sound(t, T, held, free, multiple), <1>1, GetSound
<1>3. Moved(t, t, held \cup {n}, free \ {n}, multiple)
  BY ONLY <1>2, UnmovedMoves
<1> QED BY <1>1, <1>3

\* zrbtree_insert, as a function of the tree.
LEMMA InsertIs ==
  ASSUME NEW n, Insert(n)
  PROVE  LET e == Walk(t, t.root, KeyOf[n])
         IN  /\ n \in held /\ (e = NULL \/ multiple)
             /\ e # NULL => t' = Enlisted(t, e, n)
             /\ e = NULL => t' = InsertCase1(AttachedTo(t, n, InsertPlace(t, n)), n)
             /\ held' = held \ {n} /\ multiple' = multiple /\ free' = free
<1>1. \A p : Attached(n, p) = AttachedTo(t, n, p)
  BY DEF Attached, AttachedTo
<1>2. InsertPlace(t, n) = IF t.root = NULL THEN NULL ELSE LastOnPath(t, t.root, KeyOf[n])
  BY DEF InsertPlace
<1>3. Enlisted(t, Walk(t, t.root, KeyOf[n]), n)
        = [t EXCEPT !.next[n] = t.next[Walk(t, t.root, KeyOf[n])],
                    !.next[Walk(t, t.root, KeyOf[n])] = n]
  BY DEF Enlisted
<1> QED BY <1>1, <1>2, <1>3 DEF Insert

LEMMA InsertCallStep ==
  ASSUME NEW T, Sound(t, T, held, free, multiple), NEW n \in Node, Insert(n)
  PROVE  Moved(t, t', held', free', multiple) /\ multiple' = multiple
<1> DEFINE e == Walk(t, t.root, KeyOf[n])
<1>1. /\ n \in held /\ (e = NULL \/ multiple)
      /\ e # NULL => t' = Enlisted(t, e, n)
      /\ e = NULL => t' = InsertCase1(AttachedTo(t, n, InsertPlace(t, n)), n)
      /\ held' = held \ {n} /\ multiple' = multiple /\ free' = free
  BY InsertIs
<1>2. KeyOf[n] \in Int
  BY KeysFacts
<1>3. Holds(T, KeyOf[n], e)
  BY ONLY Sound(t, T, held, free, multiple), <1>2, WalkIs
<1> HIDE DEF e
<1>4. multiple \in BOOLEAN /\ T \in SUBSET Node
  <2>1. SoundParts(t, T, held, free, multiple)
    BY SoundFacts
  <2> QED BY <2>1 DEF SoundParts
<1>5. CASE e # NULL
  <2>1. e \in T /\ KeyOf[n] = KeyOf[e] /\ multiple = TRUE
    BY <1>1, <1>3, <1>4, <1>5 DEF Holds
  <2>2. \A v : v = Enlisted(t, e, n) => Moved(t, v, held \ {n}, free, multiple)
    BY ONLY Sound(t, T, held, free, multiple), <1>1, <2>1, InsertEqualMoves
  <2> QED BY <1>1, <1>5, <2>2
<1>6. CASE e = NULL
  <2>1. \A x \in T : KeyOf[x] # KeyOf[n]
    BY <1>3, <1>4, <1>6, LinkFacts DEF Holds
  <2>2. Moved(t, InsertCase1(AttachedTo(t, n, InsertPlace(t, n)), n), held \ {n}, free, multiple)
    BY ONLY Sound(t, T, held, free, multiple), <1>1, <2>1, InsertNewMoves
  <2> QED BY <1>1, <1>6, <2>2
<1> QED BY <1>5, <1>6

LEMMA EraseStep ==
  ASSUME NEW T, Sound(t, T, held, free, multiple), NEW k \in Keys, Erase(k)
  PROVE  Moved(t, t', held', free', multiple) /\ multiple' = multiple
<1> DEFINE n == Walk(t, t.root, k)
<1>1. /\ n # NULL /\ t' = Cleared(Unlink(t, n), n) /\ free' = free \cup {n}
      /\ multiple' = multiple /\ held' = held
  BY DEF Erase
<1>2. k \in Int
  BY KeysFacts DEF Keys
<1>3. Holds(T, k, n)
  BY ONLY Sound(t, T, held, free, multiple), <1>2, WalkIs
<1> HIDE DEF n
<1>4. n \in T
  BY <1>1, <1>3 DEF Holds
<1>5. Moved(t, Cleared(Unlink(t, n), n), held, free \cup {n}, multiple)
  BY ONLY Sound(t, T, held, free, multiple), <1>4, EraseMoves
<1> QED BY <1>1, <1>5

LEMMA PopStep ==
  ASSUME NEW T, Sound(t, T, held, free, multiple), PopFront
  PROVE  Moved(t, t', held', free', multiple) /\ multiple' = multiple
<1> DEFINE n == MinimumNode(t, t.root)
<1>1. /\ t.root # NULL
      /\ t' = [Unlink(t, n) EXCEPT !.left[n] = NULL, !.right[n] = NULL, !.parent[n] = NULL]
      /\ held' = held \cup {n} /\ multiple' = multiple /\ free' = free
  BY DEF PopFront
<1>2. SoundParts(t, T, held, free, multiple)
  BY SoundFacts
<1>3. PICK D : Shaped(t, T, D, KeyOf)
  BY <1>2 DEF SoundParts
<1>4. t.root \in T
  BY <1>1, <1>3 DEF Shaped
<1>5. n \in T
  BY ONLY <1>3, <1>4, MinimumIs
<1> HIDE DEF n
<1>6. \A v : v = [Unlink(t, n) EXCEPT !.left[n] = NULL, !.right[n] = NULL, !.parent[n] = NULL]
         => Moved(t, v, held \cup {n}, free, multiple)
  BY ONLY Sound(t, T, held, free, multiple), <1>5, PopMoves
<1> QED BY <1>1, <1>6

\* A user erases the head of a list of two or more equal keys with zrbtree_erasex: the next node
\* takes its place, but not its color (rbtree.c:439).
HeadErased ==
  \E n \in Node : Erasex(n) /\ Walk(t, t.root, KeyOf[n]) = n /\ Len(Chain(t, n)) > 1

\* Nobody ever does so.
HeadsStay == [][~HeadErased]_vars

LEMMA ErasexStep ==
  ASSUME NEW T, Sound(t, T, held, free, multiple), ~HeadErased, NEW n \in Node, Erasex(n)
  PROVE  Moved(t, t', held', free', multiple) /\ multiple' = multiple
<1> DEFINE e == Walk(t, t.root, KeyOf[n])
           c == Chain(t, e)
<1>1. PICK i \in DOMAIN c :
        /\ c[i] = n
        /\ t' = Cleared(IF i > 1 THEN [t EXCEPT !.next[c[i - 1]] = t.next[n]]
                        ELSE IF Len(c) > 1 THEN ReplaceHead(t, e)
                        ELSE Unlink(t, e), n)
        /\ free' = free \cup {n} /\ multiple' = multiple /\ held' = held
  BY DEF Erasex
<1>2. KeyOf[n] \in Int
  BY KeysFacts
<1>3. Holds(T, KeyOf[n], e)
  BY ONLY Sound(t, T, held, free, multiple), <1>2, WalkIs
<1>4. SoundParts(t, T, held, free, multiple)
  BY SoundFacts
<1>5. e # NULL
  <2> SUFFICES ASSUME e = NULL PROVE FALSE
    OBVIOUS
  <2>1. Lists(t.next, T \cup held \cup free) /\ NULL \in Link
    BY <1>4, LinkFacts DEF SoundParts
  <2>2. Chain(t, NULL) = <<>>
    BY ONLY <2>1, ChainStep
  <2>3. c = <<>>
    BY <2>2
  <2> HIDE DEF c
  <2>4. c \in Seq(Node) /\ Len(c) = 0
    BY <2>3, EmptySeq
  <2>5. DOMAIN c = 1..Len(c)
    BY <2>4, LenProperties
  <2> QED BY <1>1, <2>4, <2>5
<1>6. e \in T
  BY <1>3, <1>5 DEF Holds
<1>7. Listed(t, T \cup held \cup free, e, c)
  <2>1. Lists(t.next, T \cup held \cup free) /\ e \in T \cup held \cup free
    BY <1>4, <1>6 DEF SoundParts
  <2> QED BY ONLY <2>1, ChainIs
<1>13. c = Chain(t, e)
  OBVIOUS
<1> HIDE DEF c, e
<1>8. DOMAIN c = 1..Len(c) /\ Len(c) \in Nat \ {0} /\ c[1] = e /\ i \in 1..Len(c)
  <2>1. c \in Seq(Node) /\ Len(c) \in Nat \ {0} /\ c[1] = e
    BY <1>7 DEF Listed
  <2> QED BY <1>1, <2>1, LenProperties
<1>9. CASE i > 1
  <2>1. i \in 2..Len(c)
    BY <1>8, <1>9
  <2>2. t' = Delisted(t, c[i - 1], n)
    BY <1>1, <1>9 DEF Delisted
  <2>3. n = c[i]
    BY <1>1
  <2>4. Moved(t, Delisted(t, c[i - 1], n), held, free \cup {n}, multiple)
    BY ONLY Sound(t, T, held, free, multiple), <1>6, <1>13, <2>1, <2>3, CutMoves
  <2> QED BY <1>1, <2>2, <2>4
<1>10. CASE ~(i > 1)
  <2>1. i = 1 /\ n = e
    BY <1>1, <1>8, <1>10
  <2>4. Len(c) = 1
    <3>1. e = Walk(t, t.root, KeyOf[n])
      BY DEF e
    <3>2. ~(Len(c) > 1)
      BY <1>13, <2>1, <3>1 DEF HeadErased
    <3> QED BY <1>8, <3>2
  <2>2. t' = Cleared(Unlink(t, n), n) /\ n \in T
    BY <1>1, <1>6, <2>1, <2>4
  <2>3. Moved(t, Cleared(Unlink(t, n), n), held, free \cup {n}, multiple)
    BY ONLY Sound(t, T, held, free, multiple), <2>2, EraseMoves
  <2> QED BY <1>1, <2>2, <2>3
<1> QED BY <1>9, <1>10

\* Every step of the program but that.
LEMMA NextStep ==
  ASSUME NEW T, Sound(t, T, held, free, multiple), [Next]_vars, [~HeadErased]_vars
  PROVE  Moved(t, t', held', free', multiple) /\ multiple' = multiple
<1>1. ASSUME NEW n \in Node, GetNode(n) \/ RecycleNode(n) \/ Insert(n) \/ Erasex(n),
             ~HeadErased
      PROVE  Moved(t, t', held', free', multiple) /\ multiple' = multiple
  BY <1>1, GetStep, RecycleStep, InsertCallStep, ErasexStep
<1>2. ASSUME NEW k \in Keys, Erase(k)
      PROVE  Moved(t, t', held', free', multiple) /\ multiple' = multiple
  BY <1>2, EraseStep
<1>3. ASSUME PopFront
      PROVE  Moved(t, t', held', free', multiple) /\ multiple' = multiple
  BY <1>3, PopStep
<1>4. ASSUME t' = t, held' = held, free' = free, multiple' = multiple
      PROVE  Moved(t, t', held', free', multiple) /\ multiple' = multiple
  <2>1. Moved(t, t, held, free, multiple)
    BY ONLY Sound(t, T, held, free, multiple), UnmovedMoves
  <2> QED BY <1>4, <2>1
<1>5. ASSUME NEW r \in Readers, ReadRoot(r) \/ Find(r)
      PROVE  t' = t /\ held' = held /\ free' = free /\ multiple' = multiple
  BY <1>5 DEF ReadRoot, Find
<1>6. ASSUME UNCHANGED vars
      PROVE  t' = t /\ held' = held /\ free' = free /\ multiple' = multiple
  BY <1>6 DEF vars
<1>7. CASE Next /\ ~HeadErased
  <2>1. CASE \E n \in Node : GetNode(n) \/ RecycleNode(n) \/ Insert(n) \/ Erasex(n)
    BY <1>1, <1>7, <2>1
  <2>2. CASE \E k \in Keys : Erase(k)
    BY <1>2, <2>2
  <2>3. CASE PopFront
    BY <1>3, <2>3
  <2>4. CASE \E r \in Readers : ReadRoot(r) \/ Find(r)
    BY <1>4, <1>5, <2>4
  <2> QED BY <1>7, <2>1, <2>2, <2>3, <2>4 DEF Next
<1>8. CASE UNCHANGED vars
  BY <1>4, <1>6, <1>8
<1> QED BY <1>7, <1>8

\* As long as nobody erases the head of a list of two or more equal keys with zrbtree_erasex, the
\* tree stays a red-black search tree, and its nodes stay apart from those of users and from the
\* free ones.  (zmem_pool_pop does erase such heads, and breaks it.)
THEOREM TreeInductive == Spec /\ HeadsStay => []TreeInv
<1>1. Init => TreeInv
  BY InitSound DEF TreeInv
<1>2. TreeInv /\ [Next]_vars /\ [~HeadErased]_vars => TreeInv'
  <2> SUFFICES ASSUME TreeInv, [Next]_vars, [~HeadErased]_vars PROVE TreeInv'
    OBVIOUS
  <2>1. PICK T : Sound(t, T, held, free, multiple)
    BY DEF TreeInv
  <2>2. Moved(t, t', held', free', multiple) /\ multiple' = multiple
    BY ONLY <2>1, [Next]_vars, [~HeadErased]_vars, NextStep
  <2>3. \E S : Sound(t', S, held', free', multiple')
    BY ONLY <2>2 DEF Moved
  <2> QED BY <2>3 DEF TreeInv
<1> QED BY <1>1, <1>2, PTL DEF Spec, HeadsStay

(***************************************************************************)
(* The tree is a map from keys to lists.                                   *)
(***************************************************************************)
Items(u) == [k \in Keys |-> Item(u, k)]

\* The list of one key changes.
LEMMA OneItem ==
  ASSUME NEW u, NEW v, NEW k \in Keys, OthersKept(u, v, k)
  PROVE  Items(v) = [Items(u) EXCEPT ![k] = Item(v, k)] /\ Items(u)[k] = Item(u, k)
  BY DEF Items, OthersKept

\* What Multimap allows, for maps i and j before and after.
Mapped(i, j, m) ==
  \/ j = i
  \/ \E n \in Node : /\ i[KeyOf[n]] = <<>> /\ j[KeyOf[n]] # <<>> /\ j[KeyOf[n]][1] = n
                     /\ j = [i EXCEPT ![KeyOf[n]] = j[KeyOf[n]]]
  \/ \E n \in Node : /\ m /\ i[KeyOf[n]] # <<>>
                     /\ j = [i EXCEPT ![KeyOf[n]] = InsertAt(i[KeyOf[n]], 2, n)]
  \/ \E k \in Keys : j = [i EXCEPT ![k] = <<>>]
  \/ \E k \in Keys : \E x \in DOMAIN i[k] : j = [i EXCEPT ![k] = RemoveAt(i[k], x)]

LEMMA EffectMaps ==
  ASSUME NEW u, NEW v, NEW m, Effect(u, v, m)
  PROVE  Mapped(Items(u), Items(v), m)
<1>1. CASE \A j \in Keys : Item(v, j) = Item(u, j)
  <2>1. Items(v) = Items(u)
    BY <1>1 DEF Items
  <2> QED BY <2>1 DEF Mapped
<1>2. ASSUME NEW n \in Node, OthersKept(u, v, KeyOf[n]), Item(u, KeyOf[n]) = <<>>,
             Item(v, KeyOf[n]) # <<>> /\ Item(v, KeyOf[n])[1] = n
      PROVE  Mapped(Items(u), Items(v), m)
  <2>1. KeyOf[n] \in Keys
    BY KeysFacts
  <2>2. Items(v) = [Items(u) EXCEPT ![KeyOf[n]] = Item(v, KeyOf[n])]
            /\ Items(u)[KeyOf[n]] = Item(u, KeyOf[n])
    BY ONLY <1>2, <2>1, OneItem
  <2>3. Items(v)[KeyOf[n]] = Item(v, KeyOf[n])
    BY <2>1 DEF Items
  <2> HIDE DEF Items
  <2>4. Items(v) = [Items(u) EXCEPT ![KeyOf[n]] = Items(v)[KeyOf[n]]]
    BY ONLY <2>2, <2>3
  <2> QED BY ONLY <1>2, <2>2, <2>3, <2>4 DEF Mapped
<1>3. ASSUME NEW n \in Node, OthersKept(u, v, KeyOf[n]), m, Item(u, KeyOf[n]) # <<>>,
             Item(v, KeyOf[n]) = InsertAt(Item(u, KeyOf[n]), 2, n)
      PROVE  Mapped(Items(u), Items(v), m)
  <2>1. KeyOf[n] \in Keys
    BY KeysFacts
  <2>2. Items(v) = [Items(u) EXCEPT ![KeyOf[n]] = Item(v, KeyOf[n])]
            /\ Items(u)[KeyOf[n]] = Item(u, KeyOf[n])
    BY ONLY <1>3, <2>1, OneItem
  <2>3. Items(v) = [Items(u) EXCEPT ![KeyOf[n]] = InsertAt(Items(u)[KeyOf[n]], 2, n)]
    BY ONLY <1>3, <2>2
  <2> QED BY ONLY <1>3, <2>2, <2>3 DEF Mapped
<1>4. ASSUME NEW k \in Keys, OthersKept(u, v, k), Item(v, k) = <<>>
      PROVE  Mapped(Items(u), Items(v), m)
  <2>2. Items(v) = [Items(u) EXCEPT ![k] = Item(v, k)]
    BY ONLY <1>4, OneItem
  <2> QED BY ONLY <1>4, <2>2 DEF Mapped
<1>5. ASSUME NEW k \in Keys, NEW i \in DOMAIN Item(u, k), OthersKept(u, v, k),
             Item(v, k) = RemoveAt(Item(u, k), i)
      PROVE  Mapped(Items(u), Items(v), m)
  <2>2. Items(v) = [Items(u) EXCEPT ![k] = Item(v, k)] /\ Items(u)[k] = Item(u, k)
    BY ONLY <1>5, OneItem
  <2>3. Items(v) = [Items(u) EXCEPT ![k] = RemoveAt(Items(u)[k], i)] /\ i \in DOMAIN Items(u)[k]
    BY ONLY <1>5, <2>2
  <2> QED BY ONLY <1>5, <2>3 DEF Mapped
<1> QED BY <1>1, <1>2, <1>3, <1>4, <1>5 DEF Effect

LEMMA AbstractNext ==
  ASSUME Mapped(Items(t), Items(t'), multiple), multiple' = multiple
  PROVE  Abstract!Next \/ Items(t') = Items(t)
<1> DEFINE i == Items(t)
           j == Items(t')
<1>1. Mapped(i, j, multiple)
  OBVIOUS
<1>2. i = [k \in Keys |-> Chain(t, Walk(t, t.root, k))]
          /\ j = [k \in Keys |-> Chain(t, Walk(t, t.root, k))]'
  BY DEF Items, Item
<1>3. Abstract!Keys = Keys
  BY DEF Abstract!Keys, Keys
<1> HIDE DEF i, j
<1>4. ASSUME NEW n \in Node, i[KeyOf[n]] = <<>>, j[KeyOf[n]] # <<>>, j[KeyOf[n]][1] = n,
             j = [i EXCEPT ![KeyOf[n]] = j[KeyOf[n]]]
      PROVE  Abstract!InsertNew(n)
  BY ONLY <1>2, <1>4 DEF Abstract!InsertNew
<1>5. ASSUME NEW n \in Node, multiple, i[KeyOf[n]] # <<>>,
             j = [i EXCEPT ![KeyOf[n]] = InsertAt(i[KeyOf[n]], 2, n)]
      PROVE  Abstract!InsertEqual(n)
  BY ONLY <1>2, <1>5 DEF Abstract!InsertEqual, InsertAt, Abstract!InsertAt
<1>6. ASSUME NEW k \in Keys, j = [i EXCEPT ![k] = <<>>]
      PROVE  Abstract!Erase(k)
  BY ONLY <1>2, <1>6 DEF Abstract!Erase
<1>7. ASSUME NEW k \in Keys, NEW x \in DOMAIN i[k], j = [i EXCEPT ![k] = RemoveAt(i[k], x)]
      PROVE  Abstract!EraseOne(k)
  BY ONLY <1>2, <1>7 DEF Abstract!EraseOne, RemoveAt, Abstract!RemoveAt
<1>8. Abstract!Next \/ j = i
  BY <1>1, <1>3, <1>4, <1>5, <1>6, <1>7 DEF Mapped, Abstract!Next
<1> QED BY <1>8 DEF i, j

\* As long as nobody erases the head of a longer list with zrbtree_erasex, the tree is a map from
\* keys to lists, of which zrbtree_erase takes the whole list (ImplementsMultimap).
THEOREM TreeIsMultimap == Spec /\ HeadsStay => ImplementsMultimap
<1>1. Init => Abstract!Init
  <2> SUFFICES ASSUME Init PROVE Abstract!Init
    OBVIOUS
  <2>1. Sound(t, {}, held, free, multiple)
    BY InitSound
  <2>2. ASSUME NEW k \in Keys PROVE Item(t, k) = <<>>
    <3>1. k \in Int /\ \A x \in {} : KeyOf[x] # k
      BY KeysFacts DEF Keys
    <3> QED BY ONLY <2>1, <3>1, ItemEmpty
  <2>3. [k \in Keys |-> Chain(t, Walk(t, t.root, k))] = [k \in Keys |-> <<>>]
    BY <2>2 DEF Item
  <2>4. Abstract!Keys = Keys
    BY DEF Abstract!Keys, Keys
  <2>5. multiple \in BOOLEAN
    BY DEF Init
  <2> QED BY ONLY <2>3, <2>4, <2>5 DEF Abstract!Init
<1>2. TreeInv /\ [Next]_vars /\ [~HeadErased]_vars => [Abstract!Next]_<<Items(t), multiple>>
  <2> SUFFICES ASSUME TreeInv, [Next]_vars, [~HeadErased]_vars PROVE [Abstract!Next]_<<Items(t), multiple>>
    OBVIOUS
  <2>1. PICK T : Sound(t, T, held, free, multiple)
    BY DEF TreeInv
  <2>2. Moved(t, t', held', free', multiple) /\ multiple' = multiple
    BY ONLY <2>1, [Next]_vars, [~HeadErased]_vars, NextStep
  <2>3. Effect(t, t', multiple)
    BY ONLY <2>2 DEF Moved
  <2>4. Mapped(Items(t), Items(t'), multiple)
    BY ONLY <2>3, EffectMaps
  <2>5. Abstract!Next \/ Items(t') = Items(t)
    BY ONLY <2>2, <2>4, AbstractNext
  <2> QED BY ONLY <2>2, <2>5
<1>3. Items(t) = [k \in Keys |-> Chain(t, Walk(t, t.root, k))]
  BY DEF Items, Item
<1>4. TreeInv /\ [Next]_vars /\ [~HeadErased]_vars
        => [Abstract!Next]_<<[k \in Keys |-> Chain(t, Walk(t, t.root, k))], multiple>>
  BY <1>2, <1>3 DEF Items, Item
<1> QED BY <1>1, <1>4, TreeInductive, PTL DEF Spec, HeadsStay, ImplementsMultimap, Abstract!Spec

(***************************************************************************)
(* zrbtree_verify.                                                         *)
(***************************************************************************)
\* A red node has black neighbours.
RedApart(u, m) ==
  u.color[m] = "RED" => \A k \in {u.left[m], u.right[m], u.parent[m]} : Color(u, k) = "BLACK"

RedsBody(u, f) ==
  [m \in Link |-> \/ m = NULL
                  \/ /\ u.color[m] = "RED" =>
                          \A k \in {u.left[m], u.right[m], u.parent[m]} : Color(u, k) = "BLACK"
                     /\ f[u.left[m]] /\ f[u.right[m]]]

Reds(u) == CHOOSE f : f = RedsBody(u, f)

LEMMA RedsStep ==
  ASSUME NEW u \in Tree, NEW mu, Descending(u, mu), NEW n \in Link
  PROVE  RedsApart(u, n) <=>
           n = NULL \/ (RedApart(u, n) /\ RedsApart(u, u.left[n]) /\ RedsApart(u, u.right[n]))
<1> DEFINE V == BOOLEAN
           z == TRUE
           g == [m \in Node |-> [x \in V |-> [y \in V |-> RedApart(u, m) /\ x /\ y]]]
           h == Reds(u)
<1>0. "left" \in Dir /\ "right" \in Dir
  BY DEF Dir
<1>1. /\ u.left \in [Node -> Link] /\ u.right \in [Node -> Link]
      /\ u.left = u["left"] /\ u.right = u["right"]
  BY <1>0, TreeFields
<1>2. mu \in [Link -> Nat] /\ \A m \in Node : mu[u.left[m]] < mu[m] /\ mu[u.right[m]] < mu[m]
  BY <1>0, <1>1 DEF Descending
<1>3. z \in V /\ g \in [Node -> [V -> [V -> V]]]
  BY DEF RedApart
<1>4. \A m \in Node, x \in V, y \in V : g[m][x][y] <=> RedApart(u, m) /\ x /\ y
  OBVIOUS
<1>13. z = TRUE
  OBVIOUS
<1>14. \A x \in V : x \in BOOLEAN
  OBVIOUS
<1> HIDE DEF V, g, z
<1>5. Visiting(V, z, u.left, u.right, g, mu)
  BY ONLY <1>1, <1>2, <1>3 DEF Visiting
<1>6. \E f \in [Link -> V] : \A m \in Link :
        f[m] = IF m = NULL THEN z ELSE g[m][f[u.left[m]]][f[u.right[m]]]
  BY ONLY <1>5, TreeRecursion
<1>7. PICK f \in [Link -> V] : \A m \in Link :
        f[m] = IF m = NULL THEN z ELSE g[m][f[u.left[m]]][f[u.right[m]]]
  BY <1>6
<1>8. ASSUME NEW m \in Link
      PROVE  f[m] = (m = NULL \/ (RedApart(u, m) /\ f[u.left[m]] /\ f[u.right[m]]))
  <2>1. f[m] \in BOOLEAN
    BY <1>7, <1>14
  <2>2. CASE m = NULL
    BY <1>7, <1>13, <2>2
  <2>3. CASE m # NULL
    <3>1. m \in Node /\ f[u.left[m]] \in V /\ f[u.right[m]] \in V
      BY <1>1, <1>7, <2>3, LinkFacts
    <3>2. f[m] <=> RedApart(u, m) /\ f[u.left[m]] /\ f[u.right[m]]
      <4>1. f[m] = g[m][f[u.left[m]]][f[u.right[m]]]
        BY <1>7, <2>3
      <4>2. g[m][f[u.left[m]]][f[u.right[m]]] <=> RedApart(u, m) /\ f[u.left[m]] /\ f[u.right[m]]
        BY <1>4, <3>1
      <4> QED BY <4>1, <4>2
    <3> QED BY <2>1, <2>3, <3>2
  <2> QED BY <2>2, <2>3
<1>9. f = RedsBody(u, f)
  <2>1. f = [m \in Link |-> f[m]]
    BY <1>7
  <2>2. f = [m \in Link |-> m = NULL \/ (RedApart(u, m) /\ f[u.left[m]] /\ f[u.right[m]])]
    BY <1>8, <2>1
  <2> QED BY <2>2 DEF RedsBody, RedApart
<1>10. h = RedsBody(u, h)
  BY <1>9 DEF Reds
<1> HIDE DEF h
<1>11. h[n] = (n = NULL \/ (RedApart(u, n) /\ h[u.left[n]] /\ h[u.right[n]]))
  BY <1>10 DEF RedsBody, RedApart
<1>12. \A m : RedsApart(u, m) = h[m]
  BY DEF RedsApart, Reds, RedsBody, h
<1> QED BY <1>11, <1>12

Blackness(u, m) == IF u.color[m] = "BLACK" THEN 1 ELSE 0

CountsBody(u, f) ==
  [m \in Link |-> IF m = NULL THEN {1}
                  ELSE {c + (IF u.color[m] = "BLACK" THEN 1 ELSE 0) :
                          c \in f[u.left[m]] \cup f[u.right[m]]}]

Counts(u) == CHOOSE f : f = CountsBody(u, f)

LEMMA CountsStep ==
  ASSUME NEW u \in Tree, NEW mu, Descending(u, mu), NEW n \in Link
  PROVE  BlackCounts(u, n) =
           IF n = NULL THEN {1}
           ELSE {c + Blackness(u, n) :
                   c \in BlackCounts(u, u.left[n]) \cup BlackCounts(u, u.right[n])}
<1> DEFINE V == SUBSET Nat
           g == [m \in Node |-> [x \in V |-> [y \in V |-> {c + Blackness(u, m) : c \in x \cup y}]]]
           h == Counts(u)
<1>0. "left" \in Dir /\ "right" \in Dir
  BY DEF Dir
<1>1. /\ u.left \in [Node -> Link] /\ u.right \in [Node -> Link]
      /\ u.left = u["left"] /\ u.right = u["right"]
  BY <1>0, TreeFields
<1>2. mu \in [Link -> Nat] /\ \A m \in Node : mu[u.left[m]] < mu[m] /\ mu[u.right[m]] < mu[m]
  BY <1>0, <1>1 DEF Descending
<1>3. {1} \in V /\ \A m \in Node, x \in V, y \in V : {c + Blackness(u, m) : c \in x \cup y} \in V
  <2>1. {1} \in V
    OBVIOUS
  <2>2. ASSUME NEW m \in Node, NEW x \in V, NEW y \in V
        PROVE  {c + Blackness(u, m) : c \in x \cup y} \in V
    <3>1. Blackness(u, m) \in Nat
      BY DEF Blackness
    <3>2. \A c \in x \cup y : c \in Nat
      OBVIOUS
    <3>3. \A c \in x \cup y : c + Blackness(u, m) \in Nat
      BY <3>1, <3>2
    <3>4. {c + Blackness(u, m) : c \in x \cup y} \subseteq Nat
      BY ONLY <3>3
    <3> QED BY ONLY <3>4
  <2> QED BY <2>1, <2>2
<1>4. /\ g \in [Node -> [V -> [V -> V]]]
      /\ \A m \in Node, x \in V, y \in V : g[m][x][y] = {c + Blackness(u, m) : c \in x \cup y}
  BY <1>3
<1> HIDE DEF V, g
<1>5. Visiting(V, {1}, u.left, u.right, g, mu)
  BY ONLY <1>1, <1>2, <1>3, <1>4 DEF Visiting
<1>6. \E f \in [Link -> V] : \A m \in Link :
        f[m] = IF m = NULL THEN {1} ELSE g[m][f[u.left[m]]][f[u.right[m]]]
  BY ONLY <1>5, TreeRecursion
<1>7. PICK f \in [Link -> V] : \A m \in Link :
        f[m] = IF m = NULL THEN {1} ELSE g[m][f[u.left[m]]][f[u.right[m]]]
  BY <1>6
<1>8. \A m \in Link :
        f[m] = IF m = NULL THEN {1}
               ELSE {c + Blackness(u, m) : c \in f[u.left[m]] \cup f[u.right[m]]}
  BY <1>1, <1>4, <1>7, LinkFacts
<1>9. f = CountsBody(u, f)
  <2>1. f = [m \in Link |-> f[m]]
    BY <1>7
  <2> QED BY <1>8, <2>1 DEF CountsBody, Blackness
<1>10. h = CountsBody(u, h)
  BY <1>9 DEF Counts
<1> HIDE DEF h
<1>11. h[n] = IF n = NULL THEN {1}
              ELSE {c + Blackness(u, n) : c \in h[u.left[n]] \cup h[u.right[n]]}
  BY <1>10 DEF CountsBody, Blackness
<1>12. \A m : BlackCounts(u, m) = h[m]
  BY DEF BlackCounts, Counts, CountsBody, h
<1> QED BY <1>11, <1>12

\* A red-black tree passes.
LEMMA BalancedVerifies ==
  ASSUME NEW u, NEW T, NEW D, NEW K, NEW B, Balanced(u, T, D, K, T, B)
  PROVE  /\ Color(u, u.root) = "BLACK" /\ RedsApart(u, u.root)
         /\ Cardinality(BlackCounts(u, u.root)) = 1
<1>1. Shaped(u, T, D, K) /\ Colored(u, T, B, {}, 0) /\ (u.root \in T => u.color[u.root] = "BLACK")
  BY DEF Balanced
<1>2. /\ u \in Tree /\ T \in SUBSET Node /\ u.root \in Link
      /\ (u.root # NULL => u.root \in T)
      /\ \A n \in T, d \in Dir : u[d][n] # NULL => u[d][n] \in T /\ u.parent[u[d][n]] = n
      /\ \A n \in T : u.parent[n] # NULL =>
           u.parent[n] \in T /\ \E d \in Dir : u[d][u.parent[n]] = n
  BY <1>1 DEF Shaped, Tree
<1>3. "left" \in Dir /\ "right" \in Dir /\ Dir = {"left", "right"} /\ u.left = u["left"]
          /\ u.right = u["right"]
  BY <1>2, TreeFields DEF Dir
<1>4. PICK mu : Descending(u, mu)
  BY <1>1, Acyclic
<1>5. B \in [Link -> Nat \ {0}] /\ B[NULL] = 1
  BY <1>1 DEF Colored, Heights
<1>6. ASSUME NEW n \in T, NEW d \in Dir
      PROVE  /\ B[n] = B[u[d][n]] + Blackness(u, n)
             /\ u.color[n] = "RED" => Color(u, u[d][n]) = "BLACK"
             /\ u[d][n] \in Link
  <2>1. FineSide(u, B, {}, 0, n, d)
    BY <1>1 DEF Colored, Fine
  <2>2. u[d][n] \in Link
    BY <1>1, Below
  <2>3. B[u[d][n]] \in Nat
    BY <1>5, <2>2
  <2> QED BY <2>1, <2>2, <2>3 DEF FineSide, Blackness
<1>7. ASSUME NEW n \in T PROVE RedApart(u, n)
  <2> SUFFICES ASSUME u.color[n] = "RED", NEW k \in {u.left[n], u.right[n], u.parent[n]}
               PROVE  Color(u, k) = "BLACK"
    BY DEF RedApart
  <2>1. CASE k = u.left[n] \/ k = u.right[n]
    BY <1>3, <1>6, <2>1
  <2>2. CASE k = u.parent[n]
    <3>1. CASE u.parent[n] = NULL
      BY <2>2, <3>1 DEF Color
    <3>2. CASE u.parent[n] # NULL
      <4>1. PICK d \in Dir : u[d][u.parent[n]] = n
        BY <1>2, <3>2
      <4>2. u.parent[n] \in T /\ n # NULL
        BY <1>2, <3>2, LinkFacts
      <4>3. u.color[u.parent[n]] # "RED"
        BY <1>6, <4>1, <4>2 DEF Color
      <4>4. Color(u, u.parent[n]) \in {"RED", "BLACK"}
                /\ Color(u, u.parent[n]) = u.color[u.parent[n]]
        BY <1>2, <3>2, <4>2, ColorFacts, LinkFacts
      <4> QED BY <2>2, <4>3, <4>4
    <3> QED BY <3>1, <3>2
  <2> QED BY <2>1, <2>2
<1>8. RedsApart(u, NULL) /\ BlackCounts(u, NULL) = {1}
  <2>1. NULL \in Link
    BY LinkFacts
  <2> QED BY <1>2, <1>4, <2>1, RedsStep, CountsStep
<1> DEFINE S == {n \in T : RedsApart(u, n)}
           R == {n \in T : BlackCounts(u, n) = {B[n]}}
<1>9. ASSUME NEW n \in T, \A d \in Dir : u[d][n] # NULL => u[d][n] \in S PROVE n \in S
  <2>1. \A d \in Dir : RedsApart(u, u[d][n])
    BY <1>8, <1>9
  <2>2. RedsApart(u, u.left[n]) /\ RedsApart(u, u.right[n])
    BY <1>3, <2>1
  <2>3. n \in Link
    BY <1>2, LinkFacts
  <2>4. RedsApart(u, n) <=>
           n = NULL \/ (RedApart(u, n) /\ RedsApart(u, u.left[n]) /\ RedsApart(u, u.right[n]))
    BY ONLY <1>2, <1>4, <2>3, RedsStep
  <2> QED BY <1>7, <2>2, <2>4
<1>10. ASSUME NEW n \in T, \A d \in Dir : u[d][n] # NULL => u[d][n] \in R PROVE n \in R
  <2>1. \A d \in Dir : BlackCounts(u, u[d][n]) = {B[u[d][n]]}
    BY <1>5, <1>8, <1>10
  <2>2. BlackCounts(u, u.left[n]) = {B[u.left[n]]} /\ BlackCounts(u, u.right[n]) = {B[u.right[n]]}
    BY <1>3, <2>1
  <2>3. n \in Link /\ n # NULL
    BY <1>2, LinkFacts
  <2>4. BlackCounts(u, n) =
           IF n = NULL THEN {1}
           ELSE {c + Blackness(u, n) :
                   c \in BlackCounts(u, u.left[n]) \cup BlackCounts(u, u.right[n])}
    BY ONLY <1>2, <1>4, <2>3, CountsStep
  <2>5. B[n] = B[u.left[n]] + Blackness(u, n) /\ B[n] = B[u.right[n]] + Blackness(u, n)
    BY <1>3, <1>6
  <2>6. B[u.left[n]] = B[u.right[n]]
    <3>1. B[u.left[n]] \in Nat /\ B[u.right[n]] \in Nat
      BY <1>3, <1>5, <1>6
    <3>2. Blackness(u, n) \in Nat
      BY DEF Blackness
    <3> QED BY <2>5, <3>1, <3>2
  <2>7. BlackCounts(u, n) = {c + Blackness(u, n) : c \in {B[u.left[n]]}}
    BY ONLY <2>2, <2>3, <2>4, <2>6
  <2>8. BlackCounts(u, n) = {B[n]}
    BY <2>5, <2>7
  <2> QED BY <2>8
<1>11. (\A n \in S : RedsApart(u, n)) /\ (\A n \in R : BlackCounts(u, n) = {B[n]})
  OBVIOUS
<1> HIDE DEF S, R
<1>12. T \subseteq S
  BY ONLY <1>1, <1>9, TreeInduction
<1>13. T \subseteq R
  BY ONLY <1>1, <1>10, TreeInduction
<1>14. RedsApart(u, u.root) /\ Color(u, u.root) = "BLACK"
  BY <1>1, <1>2, <1>8, <1>11, <1>12 DEF Color
<1>15. \E c : BlackCounts(u, u.root) = {c}
  BY <1>2, <1>8, <1>11, <1>13
<1>16. Cardinality(BlackCounts(u, u.root)) = 1
  BY <1>15, FS_Singleton
<1> QED BY <1>14, <1>16

\* As long as nobody erases the head of a longer list with zrbtree_erasex, the tree passes
\* zrbtree_verify (Verify).
THEOREM TreeVerifies == Spec /\ HeadsStay => []Verify
<1>1. TreeInv => Verify
  <2> SUFFICES ASSUME NEW T, Sound(t, T, held, free, multiple) PROVE Verify
    BY DEF TreeInv
  <2>1. PICK D, B : Whole(t, T, D, B, held, free, multiple)
    BY DEF Sound
  <2>2. Balanced(t, T, D, KeyOf, T, B)
    BY <2>1 DEF Whole
  <2>3. /\ Color(t, t.root) = "BLACK" /\ RedsApart(t, t.root)
        /\ Cardinality(BlackCounts(t, t.root)) = 1
    BY ONLY <2>2, BalancedVerifies
  <2> QED BY <2>3 DEF Verify
<1> QED BY <1>1, TreeInductive, PTL

(***************************************************************************)
(* zrbtree_foreach.                                                        *)
(***************************************************************************)
\* The list c of a node between, before or behind the nodes x and y of its subtrees.
Joined(order, c, x, y) ==
  IF order = 1 THEN c \o x \o y ELSE IF order = 0 THEN x \o c \o y ELSE x \o y \o c

EachBody(u, order, f) ==
  [m \in Link |->
     IF m = NULL THEN <<>>
     ELSE IF order = 1 THEN Chain(u, m) \o f[u.left[m]] \o f[u.right[m]]
     ELSE IF order = 0 THEN f[u.left[m]] \o Chain(u, m) \o f[u.right[m]]
     ELSE f[u.left[m]] \o f[u.right[m]] \o Chain(u, m)]

Eachs(u, order) == CHOOSE f : f = EachBody(u, order, f)

LEMMA JoinedSeq ==
  ASSUME NEW order, NEW c \in Seq(Node), NEW x \in Seq(Node), NEW y \in Seq(Node)
  PROVE  Joined(order, c, x, y) \in Seq(Node)
<1>1. ASSUME NEW a \in Seq(Node), NEW b \in Seq(Node) PROVE a \o b \in Seq(Node)
  BY ConcatProperties
<1>2. c \o x \in Seq(Node) /\ x \o c \in Seq(Node) /\ x \o y \in Seq(Node)
  BY <1>1
<1>3. (c \o x) \o y \in Seq(Node) /\ (x \o c) \o y \in Seq(Node) /\ (x \o y) \o c \in Seq(Node)
  BY <1>1, <1>2
<1> QED BY <1>3 DEF Joined

LEMMA EachStep ==
  ASSUME NEW u \in Tree, NEW mu, Descending(u, mu), NEW P, Lists(u.next, P), NEW n \in Link,
         NEW order
  PROVE  /\ Foreach(u, n, order) \in Seq(Node)
         /\ Foreach(u, n, order) =
              IF n = NULL THEN <<>>
              ELSE Joined(order, Chain(u, n), Foreach(u, u.left[n], order),
                          Foreach(u, u.right[n], order))
<1> DEFINE V == Seq(Node)
           J(m, x, y) == Joined(order, Chain(u, m), x, y)
           g == [m \in Node |-> [x \in V |-> [y \in V |-> J(m, x, y)]]]
           h == Eachs(u, order)
<1>0. "left" \in Dir /\ "right" \in Dir
  BY DEF Dir
<1>1. /\ u.left \in [Node -> Link] /\ u.right \in [Node -> Link]
      /\ u.left = u["left"] /\ u.right = u["right"]
  BY <1>0, TreeFields
<1>2. mu \in [Link -> Nat] /\ \A m \in Node : mu[u.left[m]] < mu[m] /\ mu[u.right[m]] < mu[m]
  BY <1>0, <1>1 DEF Descending
<1>3. <<>> \in V
  BY EmptySeq
<1>4. ASSUME NEW m \in Node, NEW x \in V, NEW y \in V PROVE J(m, x, y) \in V
  <2>1. m \in Link
    BY LinkFacts
  <2>2. Chain(u, m) \in Seq(Node)
    BY <2>1, ChainStep
  <2> QED BY <2>2, JoinedSeq
<1>5. \A m, x, y : J(m, x, y) =
        IF order = 1 THEN Chain(u, m) \o x \o y
        ELSE IF order = 0 THEN x \o Chain(u, m) \o y ELSE x \o y \o Chain(u, m)
  BY DEF Joined
<1> HIDE DEF V, J
<1>6. /\ g \in [Node -> [V -> [V -> V]]]
      /\ \A m \in Node, x \in V, y \in V : g[m][x][y] = J(m, x, y)
  BY <1>4
<1> HIDE DEF g
<1>7. Visiting(V, <<>>, u.left, u.right, g, mu)
  BY ONLY <1>1, <1>2, <1>3, <1>6 DEF Visiting
<1>8. \E f \in [Link -> V] : \A m \in Link :
        f[m] = IF m = NULL THEN <<>> ELSE g[m][f[u.left[m]]][f[u.right[m]]]
  BY ONLY <1>7, TreeRecursion
<1>9. PICK f \in [Link -> V] : \A m \in Link :
        f[m] = IF m = NULL THEN <<>> ELSE g[m][f[u.left[m]]][f[u.right[m]]]
  BY <1>8
<1>10. \A m \in Link : f[m] = IF m = NULL THEN <<>> ELSE J(m, f[u.left[m]], f[u.right[m]])
  <2> SUFFICES ASSUME NEW m \in Link, m # NULL
               PROVE  f[m] = J(m, f[u.left[m]], f[u.right[m]])
    BY <1>9
  <2>1. m \in Node /\ u.left[m] \in Link /\ u.right[m] \in Link
    BY <1>1, LinkFacts
  <2>2. f[u.left[m]] \in V /\ f[u.right[m]] \in V
    BY <1>9, <2>1
  <2>3. g[m][f[u.left[m]]][f[u.right[m]]] = J(m, f[u.left[m]], f[u.right[m]])
    BY <1>6, <2>1, <2>2
  <2> QED BY <1>9, <2>3
<1>11. f = EachBody(u, order, f)
  <2>1. f = [m \in Link |-> f[m]]
    BY <1>9
  <2>2. f = [m \in Link |-> IF m = NULL THEN <<>> ELSE J(m, f[u.left[m]], f[u.right[m]])]
    BY <1>10, <2>1
  <2> QED BY <1>5, <2>2 DEF EachBody
<1>12. h = EachBody(u, order, h)
  BY <1>11 DEF Eachs
<1> HIDE DEF h
<1>13. \A m \in Link : h[m] = IF m = NULL THEN <<>> ELSE J(m, h[u.left[m]], h[u.right[m]])
  <2>1. h = [m \in Link |-> IF m = NULL THEN <<>> ELSE J(m, h[u.left[m]], h[u.right[m]])]
    BY <1>5, <1>12 DEF EachBody
  <2> QED BY <2>1
<1> DEFINE G == {m \in Link : h[m] \in V}
<1>14. ASSUME NEW m \in Link, \A k \in Link : mu[k] < mu[m] => k \in G PROVE m \in G
  <2>1. CASE m = NULL
    BY <1>3, <1>13, <2>1
  <2>2. CASE m # NULL
    <3>1. m \in Node /\ u.left[m] \in G /\ u.right[m] \in G
      BY <1>1, <1>2, <1>14, <2>2, LinkFacts
    <3>2. J(m, h[u.left[m]], h[u.right[m]]) \in V
      BY <1>4, <3>1
    <3> QED BY <1>13, <2>2, <3>2
  <2> QED BY <2>1, <2>2
<1>15. G \subseteq Link /\ \A m \in G : h[m] \in V
  OBVIOUS
<1> HIDE DEF G
<1>16. Link \subseteq G
  BY ONLY <1>2, <1>14, MeasureInduction
<1>17. h[n] \in V
  BY <1>15, <1>16
<1>18. \A m : Foreach(u, m, order) = h[m]
  BY DEF Foreach, Eachs, EachBody, h
<1> QED BY <1>13, <1>17, <1>18 DEF V, J

(***************************************************************************)
(* The traversal in order.                                                 *)
(***************************************************************************)
\* q lists the nodes X by their keys, each once.
Ordered(q, X) ==
  /\ q \in Seq(Node) /\ Len(q) \in Nat /\ Distinct(q)
  /\ \A x : In(q, x) <=> x \in X
  /\ \A i, j \in 1..Len(q) : i <= j => KeyOf[q[i]] <= KeyOf[q[j]]

LEMMA OrderedEmpty == Ordered(<<>>, {})
<1>1. <<>> \in Seq(Node) /\ Len(<<>>) = 0 /\ Distinct(<<>>) /\ \A b : ~In(<<>>, b)
  BY EmptyDistinct
<1> QED BY <1>1 DEF Ordered

\* r is p with q behind it.
Joint(p, q, r) ==
  /\ r \in Seq(Node) /\ Len(p) \in Nat /\ Len(q) \in Nat /\ Len(r) = Len(p) + Len(q)
  /\ \A i \in 1..Len(p) : i \in 1..Len(r) /\ r[i] = p[i]
  /\ \A i \in 1..Len(q) : Len(p) + i \in 1..Len(r) /\ r[Len(p) + i] = q[i]
  /\ \A i \in 1..Len(r) : i \in 1..Len(p) \/ (i - Len(p) \in 1..Len(q) /\ i > Len(p))
  /\ \A x : In(r, x) <=> In(p, x) \/ In(q, x)

LEMMA JoinFacts ==
  ASSUME NEW p \in Seq(Node), NEW q \in Seq(Node)
  PROVE  Joint(p, q, p \o q)
<1> DEFINE r == p \o q
<1>1. Len(p) \in Nat /\ Len(q) \in Nat
  BY LenProperties
<1>2. /\ r \in Seq(Node) /\ Len(r) = Len(p) + Len(q)
      /\ \A i \in 1..Len(p) + Len(q) : r[i] = IF i <= Len(p) THEN p[i] ELSE q[i - Len(p)]
  BY ConcatProperties
<1> HIDE DEF r
<1>3. \A i \in 1..Len(p) : i \in 1..Len(r) /\ r[i] = p[i]
  BY <1>1, <1>2
<1>4. ASSUME NEW i \in 1..Len(q) PROVE Len(p) + i \in 1..Len(r) /\ r[Len(p) + i] = q[i]
  <2>1. Len(p) + i \in 1..Len(p) + Len(q) /\ ~(Len(p) + i <= Len(p)) /\ (Len(p) + i) - Len(p) = i
    BY <1>1
  <2> QED BY <1>2, <2>1
<1>5. \A i \in 1..Len(r) : i \in 1..Len(p) \/ (i - Len(p) \in 1..Len(q) /\ i > Len(p))
  BY <1>1, <1>2
<1>6. ASSUME NEW x, In(r, x) PROVE In(p, x) \/ In(q, x)
  <2>1. PICK i \in 1..Len(r) : r[i] = x
    BY <1>6 DEF In
  <2>2. CASE i \in 1..Len(p)
    BY <1>3, <2>1, <2>2 DEF In
  <2>3. CASE i - Len(p) \in 1..Len(q)
    <3>1. Len(p) + (i - Len(p)) = i
      BY <1>1, <1>2
    <3> QED BY <1>4, <2>1, <2>3, <3>1 DEF In
  <2> QED BY <1>5, <2>2, <2>3
<1>7. \A x : In(p, x) \/ In(q, x) => In(r, x)
  BY <1>3, <1>4 DEF In
<1>8. Joint(p, q, r)
  BY <1>1, <1>2, <1>3, <1>4, <1>5, <1>6, <1>7 DEF Joint
<1> QED BY <1>8 DEF r

\* Two orders one behind the other.
LEMMA OrderedConcat ==
  ASSUME NEW p, NEW q, NEW X, NEW Y, Ordered(p, X), Ordered(q, Y),
         \A x \in X, y \in Y : KeyOf[x] < KeyOf[y]
  PROVE  Ordered(p \o q, X \cup Y)
<1> DEFINE r == p \o q
<1>1. /\ p \in Seq(Node) /\ Distinct(p) /\ \A x : In(p, x) <=> x \in X
      /\ \A i, j \in 1..Len(p) : i <= j => KeyOf[p[i]] <= KeyOf[p[j]]
  BY DEF Ordered
<1>2. /\ q \in Seq(Node) /\ Distinct(q) /\ \A x : In(q, x) <=> x \in Y
      /\ \A i, j \in 1..Len(q) : i <= j => KeyOf[q[i]] <= KeyOf[q[j]]
  BY DEF Ordered
<1>3. r = p \o q
  OBVIOUS
<1> HIDE DEF r
<1>4. /\ r \in Seq(Node) /\ Len(p) \in Nat /\ Len(q) \in Nat /\ Len(r) = Len(p) + Len(q)
      /\ \A i \in 1..Len(p) : i \in 1..Len(r) /\ r[i] = p[i]
      /\ \A i \in 1..Len(q) : Len(p) + i \in 1..Len(r) /\ r[Len(p) + i] = q[i]
      /\ \A i \in 1..Len(r) : i \in 1..Len(p) \/ (i - Len(p) \in 1..Len(q) /\ i > Len(p))
      /\ \A x : In(r, x) <=> In(p, x) \/ In(q, x)
  <2>1. Joint(p, q, p \o q)
    BY ONLY <1>1, <1>2, JoinFacts
  <2> QED BY <1>3, <2>1 DEF Joint
<1>5. Len(r) \in Nat /\ \A x : In(r, x) <=> x \in X \cup Y
  BY <1>1, <1>2, <1>4
<1>6. \A i \in 1..Len(r) : i > Len(p) => Len(p) + (i - Len(p)) = i
  BY <1>4
<1>7. \A i \in 1..Len(r) : \/ i \in 1..Len(p) /\ r[i] = p[i] /\ r[i] \in X
                           \/ /\ i - Len(p) \in 1..Len(q) /\ i > Len(p)
                              /\ r[i] = q[i - Len(p)] /\ r[i] \in Y
  <2> SUFFICES ASSUME NEW i \in 1..Len(r)
               PROVE  \/ i \in 1..Len(p) /\ r[i] = p[i] /\ r[i] \in X
                      \/ /\ i - Len(p) \in 1..Len(q) /\ i > Len(p)
                         /\ r[i] = q[i - Len(p)] /\ r[i] \in Y
    OBVIOUS
  <2>1. CASE i \in 1..Len(p)
    <3>1. r[i] = p[i] /\ In(p, p[i])
      BY <1>4, <2>1 DEF In
    <3> QED BY <1>1, <2>1, <3>1
  <2>2. CASE i - Len(p) \in 1..Len(q) /\ i > Len(p)
    <3>1. r[Len(p) + (i - Len(p))] = q[i - Len(p)] /\ In(q, q[i - Len(p)])
      BY <1>4, <2>2 DEF In
    <3>2. r[i] = q[i - Len(p)]
      BY <1>6, <2>2, <3>1
    <3> QED BY <1>2, <2>2, <3>1, <3>2
  <2> QED BY <1>4, <2>1, <2>2
<1>8. \A x \in X \cup Y : KeyOf[x] \in Int
  <2>1. \A x \in X \cup Y : x \in Node
    BY <1>4, <1>5 DEF In
  <2> QED BY <2>1, KeysFacts
<1>9. \A x \in X, y \in Y : x # y
  BY <1>8
<1>10. Distinct(r)
  <2> SUFFICES ASSUME NEW i \in 1..Len(r), NEW j \in 1..Len(r), r[i] = r[j] PROVE i = j
    BY DEF Distinct
  <2>1. CASE i \in 1..Len(p) /\ j \in 1..Len(p)
    BY <1>1, <1>4, <2>1 DEF Distinct
  <2>2. CASE i > Len(p) /\ j > Len(p)
    <3>1. i - Len(p) \in 1..Len(q) /\ j - Len(p) \in 1..Len(q) /\ q[i - Len(p)] = q[j - Len(p)]
      BY <1>4, <1>7, <2>2
    <3>2. i - Len(p) = j - Len(p)
      BY <1>2, <3>1 DEF Distinct
    <3> QED BY <1>4, <3>2
  <2>3. ~(i \in 1..Len(p) /\ j > Len(p)) /\ ~(j \in 1..Len(p) /\ i > Len(p))
    BY <1>4, <1>7, <1>9
  <2> QED BY <1>7, <2>1, <2>2, <2>3
<1>11. ASSUME NEW i \in 1..Len(r), NEW j \in 1..Len(r), i <= j PROVE KeyOf[r[i]] <= KeyOf[r[j]]
  <2>1. CASE i \in 1..Len(p) /\ j \in 1..Len(p)
    BY <1>1, <1>4, <1>11, <2>1
  <2>2. CASE i > Len(p) /\ j > Len(p)
    <3>1. /\ i - Len(p) \in 1..Len(q) /\ j - Len(p) \in 1..Len(q)
          /\ r[i] = q[i - Len(p)] /\ r[j] = q[j - Len(p)]
      BY <1>4, <1>7, <2>2
    <3>2. i - Len(p) <= j - Len(p)
      BY <1>4, <1>11
    <3> QED BY <1>2, <3>1, <3>2
  <2>3. CASE i \in 1..Len(p) /\ j > Len(p)
    <3>1. r[i] \in X /\ r[j] \in Y
      BY <1>4, <1>7, <2>3
    <3> QED BY <1>8, <3>1
  <2>4. ~(j \in 1..Len(p) /\ i > Len(p))
    BY <1>4, <1>11
  <2> QED BY <1>7, <2>1, <2>2, <2>3, <2>4
<1> QED BY <1>3, <1>4, <1>5, <1>10, <1>11 DEF Ordered

\* The nodes in the lists of the nodes S.
InLists(u, S) == {a \in Node : \E m \in S : In(Chain(u, m), a)}

\* The list of a node is in order.
LEMMA ChainOrdered ==
  ASSUME NEW u, NEW P, Lists(u.next, P), NEW n \in P
  PROVE  Ordered(Chain(u, n), InLists(u, {n}))
<1>1. Listed(u, P, n, Chain(u, n))
  BY ONLY ChainIs, Lists(u.next, P), n \in P
<1> DEFINE c == Chain(u, n)
<1>2. /\ c \in Seq(Node) /\ Len(c) \in Nat /\ Distinct(c)
      /\ \A i \in 1..Len(c) : c[i] \in Node /\ KeyOf[c[i]] = KeyOf[n]
  BY <1>1 DEF Listed
<1>3. n \in Node
  BY DEF Lists
<1>4. KeyOf[n] \in Int
  BY <1>3, KeysFacts
<1>5. \A x : In(c, x) <=> x \in InLists(u, {n})
  BY <1>2 DEF InLists, In
<1> HIDE DEF c
<1>6. \A i, j \in 1..Len(c) : i <= j => KeyOf[c[i]] <= KeyOf[c[j]]
  BY <1>2, <1>4
<1>7. Ordered(c, InLists(u, {n}))
  BY <1>2, <1>5, <1>6 DEF Ordered
<1> QED BY <1>7 DEF c

LEMMA InListsParts ==
  ASSUME NEW u, NEW A, NEW B
  PROVE  InLists(u, A \cup B) = InLists(u, A) \cup InLists(u, B) /\ InLists(u, {}) = {}
BY DEF InLists

\* A node in the list of a node of S has its key, and is in S itself or not in P.
LEMMA InListsFacts ==
  ASSUME NEW u, NEW P, Lists(u.next, P), NEW S \in SUBSET P, NEW a \in InLists(u, S)
  PROVE  a \in Node /\ (a \in S \/ a \notin P) /\ \E m \in S : KeyOf[a] = KeyOf[m]
<1>1. PICK m \in S : In(Chain(u, m), a)
  BY DEF InLists
<1>2. m \in P
  OBVIOUS
<1> DEFINE c == Chain(u, m)
<1>3. Listed(u, P, m, c)
  BY ONLY <1>2, ChainIs, Lists(u.next, P)
<1> HIDE DEF c
<1>4. PICK i \in 1..Len(c) : c[i] = a
  BY <1>1 DEF In, c
<1>5. c[i] \in Node /\ KeyOf[c[i]] = KeyOf[m] /\ c[1] = m /\ Len(c) \in Nat
  BY <1>3 DEF Listed
<1>6. i = 1 \/ i \in 2..Len(c)
  BY <1>5
<1>7. i = 1 \/ c[i] \notin P
  BY <1>3, <1>6 DEF Listed
<1> QED BY <1>4, <1>5, <1>7

\* The nodes below n in order.
LEMMA EachOrdered ==
  ASSUME NEW u, NEW T, NEW D, Shaped(u, T, D, KeyOf), NEW P, Lists(u.next, P), T \subseteq P
  PROVE  Ordered(Foreach(u, u.root, 0), InLists(u, T))
<1>1. PICK mu : Descending(u, mu)
  BY Acyclic
<1>2. /\ u \in Tree /\ T \in SUBSET Node /\ D \in [Link -> SUBSET T] /\ D[u.root] = T
      /\ (u.root # NULL => u.root \in T) /\ D[NULL] = {} /\ u.root \in Link
      /\ \A n \in T, d \in Dir : \A m \in D[u[d][n]] : Before(d, KeyOf[m], KeyOf[n])
  BY DEF Shaped, Tree
<1>3. "left" \in Dir /\ "right" \in Dir /\ u.left = u["left"] /\ u.right = u["right"]
      /\ Opposite("left") = "right"
  BY <1>2, TreeFields DEF Dir, Opposite
<1>4. ASSUME NEW n \in Link
      PROVE  Foreach(u, n, 0) = IF n = NULL THEN <<>>
                                ELSE Joined(0, Chain(u, n), Foreach(u, u.left[n], 0),
                                            Foreach(u, u.right[n], 0))
  BY ONLY <1>1, <1>2, <1>4, EachStep, Lists(u.next, P)
<1>5. Ordered(Foreach(u, NULL, 0), InLists(u, D[NULL]))
  BY <1>2, <1>4, LinkFacts, OrderedEmpty, InListsParts
<1> DEFINE S == {n \in T : Ordered(Foreach(u, n, 0), InLists(u, D[n]))}
<1>6. ASSUME NEW n \in T, \A d \in Dir : u[d][n] # NULL => u[d][n] \in S PROVE n \in S
  <2> DEFINE l == u.left[n]
             r == u.right[n]
             x == Foreach(u, l, 0)
             y == Foreach(u, r, 0)
             c == Chain(u, n)
             X == InLists(u, D[l])
             C == InLists(u, {n})
             Y == InLists(u, D[r])
  <2>1. Ordered(x, X) /\ Ordered(y, Y)
    BY <1>3, <1>5, <1>6
  <2>2. n \in P
    OBVIOUS
  <2>3. Ordered(c, C)
    BY ONLY <2>2, ChainOrdered, Lists(u.next, P)
  <2>4. /\ l = u["left"][n] /\ r = u["right"][n] /\ D[n] = {n} \cup D[l] \cup D[r]
        /\ D[l] \subseteq P /\ D[r] \subseteq P /\ n \in Node /\ {n} \subseteq P
    <3>1. /\ n \in Node /\ u["left"][n] \in Link /\ u["right"][n] \in Link
          /\ D[n] = {n} \cup D[u["left"][n]] \cup D[u["right"][n]]
      BY <1>3, Below
    <3>2. D[u["left"][n]] \subseteq T /\ D[u["right"][n]] \subseteq T
      BY <1>2, <3>1
    <3> QED BY <1>3, <2>2, <3>1, <3>2
  <2>5. (\A m \in D[l] : KeyOf[m] < KeyOf[n]) /\ (\A m \in D[r] : KeyOf[n] < KeyOf[m])
    BY <1>2, <1>3, <2>4 DEF Before
  <2>6. InLists(u, D[n]) = (X \cup C) \cup Y
    <3>1. D[n] = (D[l] \cup {n}) \cup D[r]
      BY <2>4
    <3>2. /\ InLists(u, (D[l] \cup {n}) \cup D[r]) = InLists(u, D[l] \cup {n}) \cup Y
          /\ InLists(u, D[l] \cup {n}) = X \cup C
      BY InListsParts
    <3> QED BY <3>1, <3>2
  <2>7. n \in Link /\ n # NULL
    BY <2>4, LinkFacts
  <2>8. Foreach(u, n, 0) = (x \o c) \o y
    BY <1>4, <2>7 DEF Joined
  <2> HIDE DEF l, r, x, y, c
  <2>9. /\ \A a \in X : \E m \in D[l] : KeyOf[a] = KeyOf[m]
        /\ \A a \in C : \E m \in {n} : KeyOf[a] = KeyOf[m]
        /\ \A a \in Y : \E m \in D[r] : KeyOf[a] = KeyOf[m]
    <3>1. ASSUME NEW Z \in SUBSET P, NEW a \in InLists(u, Z) PROVE \E m \in Z : KeyOf[a] = KeyOf[m]
      BY ONLY Z \in SUBSET P, a \in InLists(u, Z), InListsFacts, Lists(u.next, P)
    <3> QED BY <2>4, <3>1
  <2>10. \A m \in D[l] \cup D[r] \cup {n} : KeyOf[m] \in Int
    <3>1. \A m \in D[l] \cup D[r] \cup {n} : m \in Node
      BY <2>4 DEF Lists
    <3> QED BY <3>1, KeysFacts
  <2> HIDE DEF X, C, Y
  <2>11. \A a \in X, b \in C : KeyOf[a] < KeyOf[b]
    BY <2>5, <2>9
  <2>12. \A a \in X \cup C, b \in Y : KeyOf[a] < KeyOf[b]
    BY <2>5, <2>9, <2>10
  <2>13. Ordered(x \o c, X \cup C)
    BY ONLY <2>1, <2>3, <2>11, OrderedConcat
  <2>14. Ordered((x \o c) \o y, (X \cup C) \cup Y)
    BY ONLY <2>1, <2>12, <2>13, OrderedConcat
  <2> QED BY <2>6, <2>8, <2>14
<1>7. \A n \in S : Ordered(Foreach(u, n, 0), InLists(u, D[n]))
  OBVIOUS
<1> HIDE DEF S
<1>8. T \subseteq S
  BY ONLY <1>6, TreeInduction, Shaped(u, T, D, KeyOf)
<1> QED BY <1>2, <1>5, <1>7, <1>8

\* An order has its nodes once each.
LEMMA OrderedCounts ==
  ASSUME NEW q, NEW X, Ordered(q, X)
  PROVE  /\ ToSet(q) = X /\ Len(q) = Cardinality(ToSet(q))
         /\ \A i \in 2..Len(q) : KeyOf[q[i - 1]] <= KeyOf[q[i]]
<1>1. /\ q \in Seq(Node) /\ Len(q) \in Nat /\ Distinct(q)
      /\ \A x : In(q, x) <=> x \in X
      /\ \A i, j \in 1..Len(q) : i <= j => KeyOf[q[i]] <= KeyOf[q[j]]
  BY DEF Ordered
<1>2. DOMAIN q = 1..Len(q) /\ q \in [1..Len(q) -> Node]
  BY <1>1, LenProperties
<1>3. ToSet(q) = {q[i] : i \in 1..Len(q)}
  BY <1>2 DEF ToSet
<1>4. ToSet(q) = X
  BY <1>1, <1>3 DEF In
<1>5. q \in Bijection(1..Len(q), ToSet(q))
  BY <1>1, <1>2, <1>3 DEF Distinct, Bijection, Injection, Surjection, IsInjective
<1>6. ExistsBijection(1..Len(q), ToSet(q))
  BY <1>5 DEF ExistsBijection
<1>7. 1 \in Int /\ Len(q) \in Int /\ Len(q) >= 0
  BY <1>1
<1>8. IsFiniteSet(1..Len(q)) /\ Cardinality(1..Len(q)) = IF 1 > Len(q) THEN 0 ELSE Len(q) - 1 + 1
  BY <1>7, FS_Interval
<1>9. Cardinality(1..Len(q)) = Len(q)
  BY <1>7, <1>8
<1>10. Cardinality(ToSet(q)) = Cardinality(1..Len(q))
  BY ONLY <1>6, <1>8, FS_Bijection
<1>11. ASSUME NEW i \in 2..Len(q) PROVE KeyOf[q[i - 1]] <= KeyOf[q[i]]
  <2>1. i \in 1..Len(q) /\ i - 1 \in 1..Len(q) /\ i - 1 <= i
    BY <1>1
  <2> QED BY <1>1, <2>1
<1> QED BY <1>4, <1>9, <1>10, <1>11

\* What foreach visits in order.
Visited(u, T, h, f) ==
  LET q == Foreach(u, u.root, 0)
  IN  /\ Len(q) = Cardinality(ToSet(q)) /\ \A i \in 2..Len(q) : KeyOf[q[i - 1]] <= KeyOf[q[i]]
      /\ T \subseteq ToSet(q) /\ ToSet(q) \cap (h \cup f) = {}
      /\ \A a \in ToSet(q) : \E m \in T : KeyOf[a] = KeyOf[m]

LEMMA EachVisits ==
  ASSUME NEW u, NEW T, NEW h, NEW f, NEW m, Sound(u, T, h, f, m)
  PROVE  Visited(u, T, h, f)
<1> DEFINE P == T \cup h \cup f
           q == Foreach(u, u.root, 0)
           X == InLists(u, T)
<1>1. SoundParts(u, T, h, f, m)
  BY SoundFacts
<1>2. PICK D : Shaped(u, T, D, KeyOf)
  BY <1>1 DEF SoundParts
<1>3. Lists(u.next, P) /\ T \subseteq P /\ T \in SUBSET Node /\ T \cap h = {} /\ T \cap f = {}
  BY <1>1 DEF SoundParts
<1>4. h \subseteq P /\ f \subseteq P
  OBVIOUS
<1> HIDE DEF P
<1>5. Ordered(q, X)
  BY ONLY <1>2, <1>3, EachOrdered
<1>6. ASSUME NEW n \in T PROVE n \in X
  <2>1. n \in P /\ n \in Node
    BY <1>3
  <2>2. Listed(u, P, n, Chain(u, n))
    BY ONLY <1>3, <2>1, ChainIs
  <2>3. In(Chain(u, n), n)
    BY <2>2 DEF Listed, In
  <2> QED BY <2>1, <2>3 DEF InLists
<1>7. ASSUME NEW a \in X PROVE (a \in T \/ a \notin P) /\ \E x \in T : KeyOf[a] = KeyOf[x]
  <2>1. T \in SUBSET P
    BY <1>3
  <2> QED BY ONLY <1>3, <1>7, <2>1, InListsFacts
<1> HIDE DEF q, X
<1>8. /\ ToSet(q) = X /\ Len(q) = Cardinality(ToSet(q))
      /\ \A i \in 2..Len(q) : KeyOf[q[i - 1]] <= KeyOf[q[i]]
  BY ONLY <1>5, OrderedCounts
<1>9. T \subseteq ToSet(q) /\ \A a \in ToSet(q) : \E x \in T : KeyOf[a] = KeyOf[x]
  BY <1>6, <1>7, <1>8
<1>10. ToSet(q) \cap (h \cup f) = {}
  BY <1>3, <1>4, <1>7, <1>8
<1> QED BY <1>8, <1>9, <1>10 DEF Visited, q

\* As long as nobody erases the head of a longer list with zrbtree_erasex, the links and the
\* traversal are as TreeSound says.
THEOREM TreeIsSound == Spec /\ HeadsStay => []TreeSound
<1>1. TreeInv => TreeSound
  <2> SUFFICES ASSUME NEW T, Sound(t, T, held, free, multiple) PROVE TreeSound
    BY DEF TreeInv
  <2>1. SoundParts(t, T, held, free, multiple)
    BY SoundFacts
  <2>2. Visited(t, T, held, free)
    BY EachVisits
  <2>3. PICK D : Shaped(t, T, D, KeyOf)
    BY <2>1 DEF SoundParts
  <2>4. /\ T \cap held = {} /\ T \cap free = {} /\ held \cap free = {}
        /\ ~multiple => Node = T \cup held \cup free
    BY <2>1 DEF SoundParts
  <2>5. \A n \in Node, d \in {"left", "right"} : t[d][n] # NULL => t.parent[t[d][n]] = n
    <3>1. /\ \A n \in T, d \in Dir : t[d][n] # NULL => t.parent[t[d][n]] = n
          /\ \A n \in Node \ T : \A d \in Dir : t[d][n] = NULL
      BY <2>3 DEF Shaped
    <3> QED BY <3>1 DEF Dir
  <2>6. t.root # NULL => t.parent[t.root] = NULL
    BY <2>3 DEF Shaped
  <2> DEFINE q == Foreach(t, t.root, 0)
  <2>7. /\ Len(q) = Cardinality(ToSet(q)) /\ \A i \in 2..Len(q) : KeyOf[q[i - 1]] <= KeyOf[q[i]]
        /\ T \subseteq ToSet(q) /\ ToSet(q) \cap (held \cup free) = {}
    BY <2>2 DEF Visited
  <2>8. ~multiple => Node = ToSet(q) \cup free \cup held
    <3>1. ToSet(q) \subseteq Node
      <4>1. t \in Tree /\ t.root \in Link
        BY <2>3 DEF Shaped, Tree
      <4>2. PICK mu : Descending(t, mu)
        BY <2>3, Acyclic
      <4>3. Lists(t.next, T \cup held \cup free)
        BY <2>1 DEF SoundParts
      <4>4. q \in Seq(Node)
        BY ONLY <4>1, <4>2, <4>3, EachStep
      <4> HIDE DEF q
      <4> QED BY <4>4, LenProperties DEF ToSet
    <3> QED BY <2>4, <2>7, <3>1
  <2>9. free \cap held = {} /\ ToSet(q) \cap (free \cup held) = {}
    BY <2>4, <2>7
  <2> QED BY <2>5, <2>6, <2>7, <2>8, <2>9 DEF TreeSound
<1> QED BY <1>1, TreeInductive, PTL

\* As long as nobody erases the head of a longer list with zrbtree_erasex, a lookup whose root is
\* still the root finds the node with the key if there is one (FindExact).
THEOREM LookupsAreExact == Spec /\ HeadsStay => []FindExact
<1>1. TreeInv => FindExact
  <2> SUFFICES ASSUME NEW T, Sound(t, T, held, free, multiple) PROVE FindExact
    BY DEF TreeInv
  <2> DEFINE inTree == ToSet(Foreach(t, t.root, 0))
  <2>1. T \subseteq inTree /\ \A a \in inTree : \E m \in T : KeyOf[a] = KeyOf[m]
    <3>1. Visited(t, T, held, free)
      BY EachVisits
    <3> QED BY <3>1 DEF Visited
  <2>2. t.root \notin free
    <3>1. SoundParts(t, T, held, free, multiple)
      BY SoundFacts
    <3>2. PICK D : Shaped(t, T, D, KeyOf)
      BY <3>1 DEF SoundParts
    <3>3. t.root # NULL => t.root \in T
      BY <3>2 DEF Shaped
    <3>4. T \cap free = {} /\ free \subseteq Node
      BY <3>1 DEF SoundParts
    <3> QED BY <3>3, <3>4, LinkFacts
  <2> HIDE DEF inTree
  <2>3. ASSUME NEW k \in Keys
        PROVE  LET n == Found(t.root, k)
               IN  IF k \in {KeyOf[m] : m \in inTree} THEN n \in inTree /\ KeyOf[n] = k
                   ELSE n = NULL
    <3> DEFINE w == Walk(t, t.root, k)
    <3>1. k \in Int
      BY KeysFacts DEF Keys
    <3>2. Holds(T, k, w)
      BY <3>1, WalkIs
    <3>3. Found(t.root, k) = w
      BY <2>2 DEF Found
    <3> HIDE DEF w
    <3>4. CASE w \in T /\ KeyOf[w] = k
      BY <2>1, <3>3, <3>4
    <3>5. CASE w = NULL /\ \A x \in T : KeyOf[x] # k
      BY <2>1, <3>3, <3>5
    <3> QED BY <3>2, <3>4, <3>5 DEF Holds
  <2> QED BY <2>3 DEF FindExact, inTree
<1> QED BY <1>1, TreeInductive, PTL

(***************************************************************************)
(* zrbtree_print and printx.                                               *)
(***************************************************************************)
\* Climb goes one step up.
ClimbBody(u, flagged, f) ==
  [m \in Link |-> IF m = NULL \/ m \in flagged THEN m ELSE f[u.parent[m]]]

Climbs(u, flagged) == CHOOSE f : f = ClimbBody(u, flagged, f)

LEMMA ClimbStep ==
  ASSUME NEW u \in Tree, NEW mu, Ascending(u, mu), NEW a \in SUBSET Node, NEW n \in Link
  PROVE  /\ Climb(u, n, a) \in a \cup {NULL}
         /\ Climb(u, n, a) = IF n = NULL \/ n \in a THEN n ELSE Climb(u, u.parent[n], a)
<1> DEFINE V == a \cup {NULL}
           nx == [m \in Link \ V |-> u.parent[m]]
           val == [m \in V |-> m]
           h == Climbs(u, a)
<1>1. u.parent \in [Node -> Link]
  BY DEF Tree
<1>2. mu \in [Link -> Nat] /\ \A m \in Node : mu[u.parent[m]] < mu[m]
  BY DEF Ascending
<1>3. /\ V \in SUBSET Link /\ nx \in [Link \ V -> Link] /\ val \in [V -> V]
      /\ \A m \in Link \ V : m \in Node /\ nx[m] = u.parent[m]
      /\ \A m \in V : val[m] = m
      /\ V # {} /\ \A m \in Link : m \in V <=> m = NULL \/ m \in a
  BY <1>1, LinkFacts
<1> HIDE DEF V, nx, val
<1>4. Walking(Link, V, V, nx, val, mu)
  BY <1>2, <1>3 DEF Walking
<1>5. ASSUME NEW f PROVE Tails(Link, V, nx, val, f) <=> f = ClimbBody(u, a, f)
  <2>1. [m \in Link |-> IF m \in V THEN val[m] ELSE f[nx[m]]]
          = [m \in Link |-> IF m = NULL \/ m \in a THEN m ELSE f[u.parent[m]]]
    BY <1>3
  <2> QED BY <2>1 DEF Tails, ClimbBody
<1>6. \E f : Tails(Link, V, nx, val, f)
  BY ONLY <1>3, <1>4, TailExists
<1>7. h = ClimbBody(u, a, h)
  BY <1>5, <1>6 DEF Climbs
<1> HIDE DEF h
<1>8. Tails(Link, V, nx, val, h)
  BY <1>5, <1>7
<1>9. h \in [Link -> V]
  BY ONLY <1>4, <1>8, TailFixed
<1>10. \A m \in Link : h[m] = IF m = NULL \/ m \in a THEN m ELSE h[u.parent[m]]
  BY <1>7 DEF ClimbBody
<1>11. \A m : Climb(u, m, a) = h[m]
  BY DEF Climb, Climbs, ClimbBody, h
<1> QED BY <1>9, <1>10, <1>11 DEF V

\* The nodes to the left of the nodes a, one by one.
LeftOf(u, D, a) == {p \in Node \X Node : p[1] \in a /\ p[2] \in D[u.left[p[1]]]}

\* A node more or less.
LEMMA LeftSizes ==
  ASSUME NEW u, NEW T, NEW D, NEW K, Shaped(u, T, D, K), NEW a \in SUBSET Node, NEW x \in Node
  PROVE  LET l == Cardinality(D[u.left[x]])
             w == Cardinality(LeftOf(u, D, a))
         IN  /\ l \in Nat /\ w \in Nat
             /\ Cardinality(LeftOf(u, D, a \cup {x})) \in Nat
             /\ Cardinality(LeftOf(u, D, a \cup {x})) <= w + l
             /\ Cardinality(LeftOf(u, D, a \ {x})) \in Nat
             /\ x \in a => Cardinality(LeftOf(u, D, a \ {x})) + l = w
<1> DEFINE L == D[u.left[x]]
           X == {x} \X L
           A(b) == LeftOf(u, D, b)
<1>1. /\ u \in Tree /\ T \in SUBSET Node /\ D \in [Link -> SUBSET T] /\ u.left \in [Node -> Link]
  BY DEF Shaped, Tree
<1>2. L \in SUBSET Node
  BY <1>1
<1>3. IsFiniteSet(Node)
  BY RBTreeAssumption
<1>4. IsFiniteSet(L) /\ Cardinality(L) \in Nat
  BY <1>2, <1>3, FS_Subset, FS_CardinalityType
<1> HIDE DEF L
<1>5. IsFiniteSet(X) /\ Cardinality(X) = Cardinality(L)
  <2>1. IsFiniteSet({x}) /\ Cardinality({x}) = 1
    BY FS_Singleton
  <2>2. IsFiniteSet({x} \X L) /\ Cardinality({x} \X L) = Cardinality({x}) * Cardinality(L)
    BY <1>4, <2>1, FS_Product
  <2> QED BY <1>4, <2>1, <2>2
<1>6. IsFiniteSet(Node \X Node)
  BY <1>3, FS_Product
<1>7. ASSUME NEW b PROVE IsFiniteSet(A(b)) /\ Cardinality(A(b)) \in Nat
  <2>1. A(b) \subseteq Node \X Node
    BY DEF LeftOf
  <2> QED BY <1>6, <2>1, FS_Subset, FS_CardinalityType
<1>8. A(a \cup {x}) = A(a) \cup X
  BY <1>2 DEF LeftOf, L
<1>9. x \in a => A(a) = A(a \ {x}) \cup X /\ A(a \ {x}) \cap X = {}
  BY <1>2 DEF LeftOf, L
<1> HIDE DEF A, X
<1>10. ASSUME NEW b
       PROVE  Cardinality(A(b) \cup X)
                = Cardinality(A(b)) + Cardinality(L) - Cardinality(A(b) \cap X)
  BY <1>5, <1>7, FS_Union
<1>11. Cardinality(A(a) \cap X) \in Nat /\ Cardinality({}) = 0
  <2>1. IsFiniteSet(A(a) \cap X)
    BY <1>5, FS_Subset
  <2> QED BY <2>1, FS_CardinalityType, FS_EmptySet
<1>14. \A i, j, k, m \in Nat : (k = i + j - m => k <= i + j) /\ (k = i + j - 0 => i + j = k)
  OBVIOUS
<1>12. Cardinality(A(a \cup {x})) <= Cardinality(A(a)) + Cardinality(L)
  <2>1. Cardinality(A(a \cup {x})) = Cardinality(A(a)) + Cardinality(L) - Cardinality(A(a) \cap X)
    BY <1>8, <1>10
  <2>2. Cardinality(A(a \cup {x})) \in Nat /\ Cardinality(A(a)) \in Nat
    BY <1>7
  <2> QED BY ONLY <1>4, <1>11, <1>14, <2>1, <2>2
<1>13. x \in a => Cardinality(A(a \ {x})) + Cardinality(L) = Cardinality(A(a))
  <2> HAVE x \in a
  <2>1. Cardinality(A(a)) = Cardinality(A(a \ {x})) + Cardinality(L) - 0
    BY <1>9, <1>10, <1>11
  <2>2. Cardinality(A(a \ {x})) \in Nat /\ Cardinality(A(a)) \in Nat
    BY <1>7
  <2> QED BY ONLY <1>4, <1>14, <2>1, <2>2
<1> QED BY <1>4, <1>7, <1>12, <1>13 DEF A, L

\* Where the loop goes from the node m with the flagged nodes a.
Goes(u, m, a) ==
  LET flagged == Flagged(u, m, a)
      next == Climb(u, m, flagged)
  IN  IF u.right[m] # NULL THEN <<u.right[m], flagged>>
      ELSE IF next = NULL THEN <<NULL, {}>>
      ELSE <<u.left[next], flagged \ {next}>>

\* What is left to print.
Weight(u, D, q) ==
  Cardinality(LeftOf(u, D, q[2])) + (IF q[1] = NULL THEN 0 ELSE Cardinality(D[q[1]]) + 1)

LEMMA FlaggedSizes ==
  ASSUME NEW u, NEW T, NEW D, NEW K, Shaped(u, T, D, K), NEW a \in SUBSET Node, NEW m \in Node
  PROVE  LET w == Cardinality(LeftOf(u, D, a))
             v == Cardinality(LeftOf(u, D, Flagged(u, m, a)))
         IN  /\ Flagged(u, m, a) \in SUBSET Node /\ w \in Nat /\ v \in Nat
             /\ v <= w + Cardinality(D[u.left[m]]) /\ Cardinality(D[u.left[m]]) \in Nat
             /\ u.left[m] = NULL => Flagged(u, m, a) = a
<1>1. LET l == Cardinality(D[u.left[m]])
          w == Cardinality(LeftOf(u, D, a))
      IN  /\ l \in Nat /\ w \in Nat
          /\ Cardinality(LeftOf(u, D, a \cup {m})) \in Nat
          /\ Cardinality(LeftOf(u, D, a \cup {m})) <= w + l
  BY ONLY Shaped(u, T, D, K), a \in SUBSET Node, m \in Node, LeftSizes
<1>2. Flagged(u, m, a) = IF u.left[m] # NULL THEN a \cup {m} ELSE a
  BY DEF Flagged
<1>3. \A w, l \in Nat : w <= w + l
  OBVIOUS
<1>4. CASE u.left[m] # NULL
  BY <1>1, <1>2, <1>4
<1>5. CASE u.left[m] = NULL
  BY <1>1, <1>2, <1>3, <1>5
<1> QED BY <1>4, <1>5

LEMMA GoesDown ==
  ASSUME NEW u, NEW T, NEW D, NEW K, Shaped(u, T, D, K), NEW a \in SUBSET Node, NEW m \in Node
  PROVE  /\ Goes(u, m, a) \in Link \X SUBSET Node
         /\ Weight(u, D, Goes(u, m, a)) \in Nat /\ Weight(u, D, <<m, a>>) \in Nat
         /\ Weight(u, D, Goes(u, m, a)) < Weight(u, D, <<m, a>>)
<1> DEFINE b == Flagged(u, m, a)
           l == u.left[m]
           r == u.right[m]
           w(c) == Cardinality(LeftOf(u, D, c))
           d(n) == Cardinality(D[n])
<1>1. /\ u \in Tree /\ T \in SUBSET Node /\ D[NULL] = {}
      /\ u.parent \in [Node -> Link] /\ u.left \in [Node -> Link] /\ u.right \in [Node -> Link]
      /\ u.left = u["left"] /\ u.right = u["right"]
      /\ \A n \in Node \ T : u.parent[n] = NULL /\ \A e \in Dir : u[e][n] = NULL
  BY DEF Shaped, Tree
<1>2. "left" \in Dir /\ "right" \in Dir /\ Opposite("left") = "right"
  BY DEF Dir, Opposite
<1>3. \A n \in Link : d(n) \in Nat
  BY Sizes
<1>4. d(NULL) = 0
  BY <1>1, FS_EmptySet
<1>5. /\ b \in SUBSET Node /\ w(a) \in Nat /\ w(b) \in Nat /\ w(b) <= w(a) + d(l)
      /\ l = NULL => b = a
  BY ONLY FlaggedSizes, Shaped(u, T, D, K), a \in SUBSET Node, m \in Node
<1>6. l \in Link /\ r \in Link /\ m \in Link /\ m # NULL
  BY <1>1, LinkFacts
<1>7. d(l) \in Nat /\ d(r) \in Nat /\ d(m) \in Nat
  BY <1>3, <1>6
<1>8. m \in T => d(l) + d(r) + 1 <= d(m)
  <2> HAVE m \in T
  <2>0. ASSUME NEW e \in Dir
        PROVE  /\ D[m] = {m} \cup D[u[e][m]] \cup D[u[Opposite(e)][m]] /\ m \notin D[u[e][m]]
               /\ D[u[e][m]] \cap D[u[Opposite(e)][m]] = {} /\ D[u[e][m]] \in SUBSET Node
    BY ONLY <2>0, m \in T, Shaped(u, T, D, K), Below
  <2>1. /\ D[m] = {m} \cup D[l] \cup D[r] /\ m \notin D[l]
        /\ D[l] \cap D[r] = {} /\ D[l] \in SUBSET Node
    BY <1>1, <1>2, <2>0
  <2>2. m \notin D[r] /\ D[r] \in SUBSET Node
    BY <1>1, <1>2, <2>0
  <2>3. IsFiniteSet(D[l]) /\ IsFiniteSet(D[r])
    BY <2>1, <2>2, RBTreeAssumption, FS_Subset
  <2>4. IsFiniteSet(D[l] \cup D[r])
            /\ Cardinality(D[l] \cup D[r]) = d(l) + d(r) - Cardinality(D[l] \cap D[r])
    BY <2>3, FS_Union
  <2>5. Cardinality(D[l] \cup D[r]) = d(l) + d(r)
    <3>1. Cardinality(D[l] \cap D[r]) = 0
      BY <2>1, FS_EmptySet
    <3>2. Cardinality(D[l] \cup D[r]) = d(l) + d(r) - 0
      BY <2>4, <3>1
    <3> QED BY ONLY <1>7, <3>2
  <2>6. m \notin D[l] \cup D[r] /\ D[m] = (D[l] \cup D[r]) \cup {m}
    BY <2>1, <2>2
  <2>7. d(m) = Cardinality(D[l] \cup D[r]) + 1
    BY <2>4, <2>6, FS_AddElement
  <2> QED BY <1>7, <2>5, <2>7
<1>9. m \notin T => l = NULL /\ r = NULL /\ u.parent[m] = NULL
  BY <1>1, <1>2
<1>10. Weight(u, D, <<m, a>>) = w(a) + (d(m) + 1)
  BY <1>6 DEF Weight
<1> DEFINE next == Climb(u, m, b)
<1>11. next \in b \cup {NULL} /\ (m \notin T => next = m \/ next = NULL)
  <2>1. PICK mu : Ascending(u, mu)
    BY Acyclic
  <2>2. NULL \in Link
    BY LinkFacts
  <2>3. ASSUME NEW n \in Link
        PROVE  /\ Climb(u, n, b) \in b \cup {NULL}
               /\ Climb(u, n, b) = IF n = NULL \/ n \in b THEN n ELSE Climb(u, u.parent[n], b)
    BY ONLY <1>1, <1>5, <2>1, <2>3, ClimbStep
  <2> QED BY <1>6, <1>9, <2>2, <2>3
<1> HIDE DEF b, next
<1>12. CASE r # NULL
  <2>1. Goes(u, m, a) = <<r, b>>
    BY <1>12 DEF Goes, b
  <2>2. Weight(u, D, <<r, b>>) = w(b) + (d(r) + 1)
    BY <1>12 DEF Weight
  <2>3. m \in T
    BY <1>9, <1>12
  <2> HIDE DEF w, d, l, r
  <2> QED BY <1>5, <1>6, <1>7, <1>8, <1>10, <2>1, <2>2, <2>3
<1>13. CASE r = NULL /\ next = NULL
  <2>1. Goes(u, m, a) = <<NULL, {}>>
    BY <1>13 DEF Goes, b, next
  <2>2. LeftOf(u, D, {}) = {}
    BY DEF LeftOf
  <2>3. Weight(u, D, <<NULL, {}>>) = 0
    BY <2>2, FS_EmptySet DEF Weight
  <2> HIDE DEF w, d, l, r
  <2> QED BY <1>5, <1>7, <1>10, <2>1, <2>3, LinkFacts
<1>14. CASE r = NULL /\ next # NULL
  <2> DEFINE x == u.left[next]
  <2>1. Goes(u, m, a) = <<x, b \ {next}>>
    BY <1>14 DEF Goes, b, next
  <2>2. next \in b /\ next \in Node
    BY <1>5, <1>11, <1>14
  <2>3. x \in Link /\ d(x) \in Nat
    BY <1>1, <1>3, <2>2
  <2>4. w(b \ {next}) \in Nat /\ w(b \ {next}) + d(x) = w(b)
    BY ONLY <1>5, <2>2, LeftSizes, Shaped(u, T, D, K)
  <2>5. Weight(u, D, <<x, b \ {next}>>) = w(b \ {next}) + (IF x = NULL THEN 0 ELSE d(x) + 1)
    BY DEF Weight
  <2>6. m \notin T => x = NULL
    BY <1>9, <1>11, <1>14
  <2>7. <<x, b \ {next}>> \in Link \X SUBSET Node
    BY <1>5, <2>3
  <2> DEFINE k == IF x = NULL THEN 0 ELSE d(x) + 1
  <2>8. k \in Nat /\ k <= d(x) + 1 /\ (m \notin T => k = 0)
    BY <2>3, <2>6
  <2>9. Weight(u, D, <<x, b \ {next}>>) = w(b \ {next}) + k
    BY <2>5
  <2>10. m \notin T => w(b) <= w(a)
    BY <1>4, <1>5, <1>9
  <2> HIDE DEF w, d, l, r, x, k
  <2>11. w(b \ {next}) + k \in Nat /\ w(a) + (d(m) + 1) \in Nat
    BY <1>5, <1>7, <2>4, <2>8
  <2>12. CASE m \in T
    <3>1. w(b \ {next}) + k <= w(b) + 1
      BY <1>5, <2>3, <2>4, <2>8
    <3>2. w(b) + 1 < w(a) + (d(m) + 1)
      BY <1>5, <1>7, <1>8, <2>12
    <3> QED BY <1>5, <1>10, <2>1, <2>7, <2>9, <2>11, <3>1, <3>2
  <2>13. CASE m \notin T
    <3>1. w(b \ {next}) + k <= w(b)
      BY <1>5, <2>3, <2>4, <2>8, <2>13
    <3>2. w(b) < w(a) + (d(m) + 1)
      BY <1>5, <1>7, <2>10, <2>13
    <3> QED BY <1>5, <1>10, <2>1, <2>7, <2>9, <2>11, <3>1, <3>2
  <2> QED BY <2>12, <2>13
<1> QED BY <1>12, <1>13, <1>14

PrintedBody(u, f) ==
  [q \in Link \X SUBSET Node |->
     LET m == q[1]
         flagged == Flagged(u, m, q[2])
         next == Climb(u, m, flagged)
     IN  IF m = NULL THEN <<>>
         ELSE Chain(u, m) \o
                IF u.right[m] # NULL THEN f[<<u.right[m], flagged>>]
                ELSE IF next = NULL THEN <<>>
                ELSE f[<<u.left[next], flagged \ {next}>>]]

Prints(u) == CHOOSE f : f = PrintedBody(u, f)

LEMMA PrintedStep ==
  ASSUME NEW u, NEW T, NEW D, NEW K, Shaped(u, T, D, K), NEW P, Lists(u.next, P),
         NEW n \in Link, NEW a \in SUBSET Node
  PROVE  /\ Printed(u, n, a) \in Seq(Node)
         /\ Printed(u, n, a) =
              IF n = NULL THEN <<>>
              ELSE LET q == Goes(u, n, a) IN Chain(u, n) \o Printed(u, q[1], q[2])
<1> DEFINE V == Seq(Node)
           S == Link \X SUBSET Node
           nx(q) == Goes(u, q[1], q[2])
           R(q, f) == IF q[1] = NULL THEN <<>> ELSE Chain(u, q[1]) \o f[nx(q)]
           mu == [q \in S |-> Weight(u, D, q)]
           G == [q \in S |-> [f \in [S -> V] |-> R(q, f)]]
           h == Prints(u)
<1>1. ASSUME NEW q \in S, q[1] # NULL
      PROVE  nx(q) \in S /\ Weight(u, D, nx(q)) \in Nat /\ Weight(u, D, nx(q)) < Weight(u, D, q)
  <2>1. q = <<q[1], q[2]>> /\ q[1] \in Node /\ q[2] \in SUBSET Node
    BY <1>1, LinkFacts
  <2>2. /\ nx(q) \in S /\ Weight(u, D, nx(q)) \in Nat
        /\ Weight(u, D, nx(q)) < Weight(u, D, <<q[1], q[2]>>)
    BY ONLY <2>1, GoesDown, Shaped(u, T, D, K)
  <2> QED BY <2>1, <2>2
<1>2. ASSUME NEW q \in S PROVE Weight(u, D, q) \in Nat
  <2>1. q = <<q[1], q[2]>> /\ q[1] \in Link /\ q[2] \in SUBSET Node
    OBVIOUS
  <2>2. CASE q[1] = NULL
    <3>1. LeftOf(u, D, q[2]) \subseteq Node \X Node
      BY DEF LeftOf
    <3>2. IsFiniteSet(Node \X Node)
      BY RBTreeAssumption, FS_Product
    <3>3. Cardinality(LeftOf(u, D, q[2])) \in Nat
      BY <3>1, <3>2, FS_Subset, FS_CardinalityType
    <3> QED BY <2>2, <3>3 DEF Weight
  <2>3. CASE q[1] # NULL
    <3>1. q[1] \in Node
      BY <2>1, <2>3, LinkFacts
    <3>2. Weight(u, D, <<q[1], q[2]>>) \in Nat
      BY ONLY <2>1, <3>1, GoesDown, Shaped(u, T, D, K)
    <3> QED BY <2>1, <3>2
  <2> QED BY <2>2, <2>3
<1>3. mu \in [S -> Nat] /\ \A q \in S : q[1] # NULL => nx(q) \in S /\ mu[nx(q)] < mu[q]
  BY <1>1, <1>2
<1>4. ASSUME NEW q \in S PROVE Chain(u, q[1]) \in V
  <2>1. q[1] \in Link
    OBVIOUS
  <2> QED BY ONLY <2>1, ChainStep, Lists(u.next, P)
<1>5. <<>> \in V /\ \A x \in V, y \in V : x \o y \in V
  BY EmptySeq, ConcatProperties
<1>7. <<NULL, {}>> \in S /\ <<NULL, {}>>[1] = NULL
  BY LinkFacts
<1> HIDE DEF V, mu
<1>8. ASSUME NEW f, f[<<NULL, {}>>] = <<>>
      PROVE  PrintedBody(u, f) = [q \in S |-> R(q, f)]
  BY <1>8 DEF PrintedBody, Goes
<1>9. ASSUME NEW f, f = PrintedBody(u, f) PROVE f[<<NULL, {}>>] = <<>>
  <2>1. PrintedBody(u, f)[<<NULL, {}>>] = <<>>
    BY <1>7 DEF PrintedBody
  <2> QED BY <1>9, <2>1
<1>10. \A q \in S, f \in [S -> V] : R(q, f) \in V
  BY <1>3, <1>4, <1>5
<1>11. \A q \in S, f \in [S -> V], g \in [S -> V] :
         (\A p \in S : mu[p] < mu[q] => f[p] = g[p]) => R(q, f) = R(q, g)
  BY <1>3
<1>12. \A q \in S : \A f : q[1] = NULL => R(q, f) = <<>>
  OBVIOUS
<1>13. \A q \in S : \A f : q[1] # NULL => R(q, f) = Chain(u, q[1]) \o f[nx(q)]
  OBVIOUS
<1>14. <<n, a>> \in S /\ <<n, a>>[1] = n /\ nx(<<n, a>>) = Goes(u, n, a)
  OBVIOUS
<1> HIDE DEF S, R, nx
<1>15. /\ G \in [S -> [[S -> V] -> V]]
       /\ \A q \in S, f \in [S -> V] : G[q][f] = R(q, f)
  BY <1>10
<1> HIDE DEF G
<1>16. Recursive(S, V, mu, G)
  <2>1. ASSUME NEW q \in S, NEW f \in [S -> V], NEW g \in [S -> V],
               \A p \in S : mu[p] < mu[q] => f[p] = g[p]
        PROVE  G[q][f] = G[q][g]
    <3>1. R(q, f) = R(q, g)
      BY <1>11, <2>1
    <3>2. G[q][f] = R(q, f) /\ G[q][g] = R(q, g)
      BY <1>15
    <3> QED BY <3>1, <3>2
  <2> QED BY <1>3, <1>15, <2>1 DEF Recursive
<1>17. V # {}
  BY <1>5
<1>18. \E f \in [S -> V] : \A q \in S : f[q] = G[q][f]
  BY ONLY <1>16, <1>17, Recursion
<1>19. PICK f \in [S -> V] : \A q \in S : f[q] = R(q, f)
  BY <1>15, <1>18
<1>20. f = PrintedBody(u, f)
  <2>1. f[<<NULL, {}>>] = <<>>
    BY <1>7, <1>12, <1>19
  <2>2. f = [q \in S |-> R(q, f)]
    BY <1>19
  <2> QED BY <1>8, <2>1, <2>2
<1>21. h = PrintedBody(u, h)
  BY <1>20 DEF Prints
<1> HIDE DEF h
<1>22. \A q \in S : h[q] = R(q, h)
  <2>1. h[<<NULL, {}>>] = <<>>
    BY <1>9, <1>21
  <2>2. h = [q \in S |-> R(q, h)]
    BY <1>8, <1>21, <2>1
  <2> QED BY <2>2
<1> DEFINE H == {q \in S : h[q] \in V}
<1>23. ASSUME NEW q \in S, \A p \in S : mu[p] < mu[q] => p \in H PROVE q \in H
  <2>1. CASE q[1] = NULL
    BY <1>5, <1>12, <1>22, <2>1
  <2>2. CASE q[1] # NULL
    <3>1. nx(q) \in H
      BY <1>3, <1>23, <2>2
    <3> QED BY <1>4, <1>5, <1>13, <1>22, <2>2, <3>1
  <2> QED BY <2>1, <2>2
<1>24. \A q \in H : h[q] \in V
  OBVIOUS
<1> HIDE DEF H
<1>25. S \subseteq H
  BY ONLY <1>3, <1>23, MeasureInduction
<1>26. \A n1, a1 : Printed(u, n1, a1) = h[<<n1, a1>>]
  BY DEF Printed, Prints, PrintedBody, h
<1>27. Printed(u, n, a) \in V
  BY <1>14, <1>24, <1>25, <1>26
<1>28. Printed(u, n, a) = IF n = NULL THEN <<>> ELSE Chain(u, n) \o h[Goes(u, n, a)]
  BY <1>12, <1>13, <1>14, <1>22, <1>26
<1>29. n # NULL => Goes(u, n, a) = <<Goes(u, n, a)[1], Goes(u, n, a)[2]>>
  <2> HAVE n # NULL
  <2>1. Goes(u, n, a) \in S
    BY <1>3, <1>14
  <2> QED BY <2>1 DEF S
<1> QED BY <1>26, <1>27, <1>28, <1>29 DEF V

\* What is printed when there is nothing more on the right of m.
Rest(u, m, a) ==
  LET next == Climb(u, m, a)
  IN  IF next = NULL THEN <<>> ELSE Printed(u, u.left[next], a \ {next})

\* p and q have as many elements, and the same ones.
Twins(p, q) ==
  p \in Seq(Node) /\ q \in Seq(Node) /\ Len(p) = Len(q) /\ \A x : In(p, x) <=> In(q, x)

LEMMA TwinsJoined ==
  ASSUME NEW c \in Seq(Node), NEW p, NEW q, NEW x, NEW y, Twins(p, q), Twins(x, y)
  PROVE  Twins((c \o x) \o p, (c \o q) \o y)
<1>1. p \in Seq(Node) /\ q \in Seq(Node) /\ Len(p) = Len(q) /\ \A e : In(p, e) <=> In(q, e)
  BY DEF Twins
<1>2. x \in Seq(Node) /\ y \in Seq(Node) /\ Len(x) = Len(y) /\ \A e : In(x, e) <=> In(y, e)
  BY DEF Twins
<1> DEFINE cx == c \o x
           cq == c \o q
<1>3. Joint(c, x, cx) /\ Joint(c, q, cq)
  BY <1>1, <1>2, JoinFacts
<1> HIDE DEF cx, cq
<1>4. cx \in Seq(Node) /\ cq \in Seq(Node)
  BY <1>3 DEF Joint
<1> DEFINE cxp == cx \o p
           cqy == cq \o y
<1>5. Joint(cx, p, cxp) /\ Joint(cq, y, cqy)
  BY <1>1, <1>2, <1>4, JoinFacts
<1> HIDE DEF cxp, cqy
<1>6. Len(cxp) = Len(cqy)
  <2>1. /\ Len(c) \in Nat /\ Len(x) \in Nat /\ Len(p) \in Nat /\ Len(q) \in Nat /\ Len(y) \in Nat
        /\ Len(cx) = Len(c) + Len(x) /\ Len(cq) = Len(c) + Len(q)
        /\ Len(cxp) = Len(cx) + Len(p) /\ Len(cqy) = Len(cq) + Len(y)
    BY <1>3, <1>5 DEF Joint
  <2> QED BY ONLY <1>1, <1>2, <2>1
<1>7. \A e : In(cxp, e) <=> In(cqy, e)
  <2>1. \A e : /\ In(cxp, e) <=> In(cx, e) \/ In(p, e)
               /\ In(cqy, e) <=> In(cq, e) \/ In(y, e)
               /\ In(cx, e) <=> In(c, e) \/ In(x, e)
               /\ In(cq, e) <=> In(c, e) \/ In(q, e)
    BY <1>3, <1>5 DEF Joint
  <2> QED BY ONLY <1>1, <1>2, <2>1
<1>8. cxp \in Seq(Node) /\ cqy \in Seq(Node)
  BY <1>5 DEF Joint
<1>9. Twins(cxp, cqy)
  BY <1>6, <1>7, <1>8 DEF Twins
<1> QED BY <1>9 DEF cxp, cqy, cx, cq

\* The nodes on the right of n, or what is left, come next ...
LEMMA PrintedRight ==
  ASSUME NEW u, NEW T, NEW D, NEW K, Shaped(u, T, D, K), NEW P, Lists(u.next, P),
         NEW n \in T, NEW a \in SUBSET Node
  PROVE  LET b == Flagged(u, n, a)
         IN  Printed(u, n, a) = Chain(u, n) \o
               IF u.right[n] = NULL THEN Rest(u, n, b) ELSE Printed(u, u.right[n], b)
<1>1. n \in Link /\ n # NULL /\ NULL \in Link /\ {} \in SUBSET Node
  BY LinkFacts DEF Shaped
<1>2. Printed(u, n, a) = LET q == Goes(u, n, a) IN Chain(u, n) \o Printed(u, q[1], q[2])
  BY <1>1, PrintedStep
<1>3. Printed(u, NULL, {}) = <<>>
  BY <1>1, PrintedStep
<1> QED BY <1>2, <1>3 DEF Goes, Rest

\* ... and then those on the left of n.
LEMMA RestLeft ==
  ASSUME NEW u, NEW T, NEW D, NEW K, Shaped(u, T, D, K), NEW n \in T,
         NEW a \in SUBSET Node, n \notin a
  PROVE  /\ Rest(u, n, Flagged(u, n, a)) = IF u.left[n] = NULL THEN Rest(u, n, a)
                                           ELSE Printed(u, u.left[n], a)
         /\ Flagged(u, n, a) \in SUBSET (a \cup {n})
<1>1. n \in Link /\ n # NULL /\ n \in Node /\ u \in Tree
  BY LinkFacts DEF Shaped
<1>2. PICK mu : Ascending(u, mu)
  BY Acyclic
<1>3. CASE u.left[n] = NULL
  BY <1>3 DEF Flagged
<1>4. CASE u.left[n] # NULL
  <2> DEFINE b == a \cup {n}
  <2>1. Flagged(u, n, a) = b
    BY <1>4 DEF Flagged
  <2>2. b \in SUBSET Node /\ n \in b /\ b \ {n} = a
    BY <1>1
  <2> HIDE DEF b
  <2>3. Climb(u, n, b) = IF n = NULL \/ n \in b THEN n ELSE Climb(u, u.parent[n], b)
    BY ONLY <1>1, <1>2, <2>2, ClimbStep
  <2>4. Climb(u, n, b) = n
    BY <2>2, <2>3
  <2>5. Rest(u, n, b) = Printed(u, u.left[n], a)
    BY <1>1, <2>2, <2>4 DEF Rest
  <2> QED BY <1>4, <2>1, <2>5 DEF b
<1> QED BY <1>3, <1>4

LEMMA RestSeq ==
  ASSUME NEW u, NEW T, NEW D, NEW K, Shaped(u, T, D, K), NEW P, Lists(u.next, P),
         NEW n \in T, NEW a \in SUBSET Node
  PROVE  Rest(u, n, a) \in Seq(Node)
<1>0. u \in Tree /\ a \in SUBSET Node
  BY DEF Shaped
<1>1. PICK nu : Ascending(u, nu)
  BY Acyclic
<1>2. n \in Link
  BY LinkFacts DEF Shaped
<1>3. Climb(u, n, a) \in a \cup {NULL}
  BY ONLY <1>0, <1>1, <1>2, ClimbStep
<1>4. CASE Climb(u, n, a) = NULL
  BY <1>4, EmptySeq DEF Rest
<1>5. CASE Climb(u, n, a) # NULL
  <2>1. u.left[Climb(u, n, a)] \in Link /\ a \ {Climb(u, n, a)} \in SUBSET Node
    BY <1>0, <1>3, <1>5 DEF Tree
  <2>2. Printed(u, u.left[Climb(u, n, a)], a \ {Climb(u, n, a)}) \in Seq(Node)
    BY ONLY <2>1, PrintedStep, Shaped(u, T, D, K), Lists(u.next, P)
  <2> QED BY <1>5, <2>2 DEF Rest
<1> QED BY <1>4, <1>5

\* The rest behind a child is that behind its parent.
LEMMA RestUp ==
  ASSUME NEW u, NEW T, NEW D, NEW K, Shaped(u, T, D, K), NEW n \in T, NEW a \in SUBSET Node,
         n \notin a
  PROVE  Rest(u, n, a) = Rest(u, u.parent[n], a)
<1>1. n \in Link /\ n # NULL /\ u \in Tree
  BY LinkFacts DEF Shaped
<1>2. PICK mu : Ascending(u, mu)
  BY Acyclic
<1>3. Climb(u, n, a) = IF n = NULL \/ n \in a THEN n ELSE Climb(u, u.parent[n], a)
  BY ONLY <1>1, <1>2, a \in SUBSET Node, ClimbStep
<1> QED BY <1>1, <1>3 DEF Rest

\* p is what is printed of the nodes below m, if none of them is flagged before.
Shows(u, D, m, p) ==
  /\ Twins(p, Foreach(u, m, 1))
  /\ \A a \in SUBSET Node : a \cap D[m] = {} => Printed(u, m, a) = p \o Rest(u, m, a)

\* The same of the nodes below a child k of n, which may not be there.
ShowsBelow(u, D, n, k, p) ==
  /\ Twins(p, Foreach(u, k, 1))
  /\ \A a \in SUBSET Node : a \cap D[k] = {} =>
       (IF k = NULL THEN Rest(u, n, a) ELSE Printed(u, k, a)) = p \o Rest(u, n, a)

Child(u, d, n) == u[d][n]

LEMMA ShowsKid ==
  ASSUME NEW u, NEW T, NEW D, NEW K, Shaped(u, T, D, K), NEW P, Lists(u.next, P),
         NEW n \in T, NEW d \in Dir,
         Child(u, d, n) # NULL => \E p : Shows(u, D, Child(u, d, n), p)
  PROVE  \E p : ShowsBelow(u, D, n, Child(u, d, n), p)
<1> DEFINE k == Child(u, d, n)
<1>4. k = u[d][n] /\ (k # NULL => \E p : Shows(u, D, k, p))
  BY DEF Child
<1>5. SUFFICES \E p : /\ Twins(p, Foreach(u, k, 1))
                /\ \A a \in SUBSET Node : a \cap D[k] = {} =>
                     (IF k = NULL THEN Rest(u, n, a) ELSE Printed(u, k, a)) = p \o Rest(u, n, a)
  BY DEF ShowsBelow
<1> HIDE DEF k
<1>0. u \in Tree
  BY DEF Shaped
<1>1. PICK mu : Descending(u, mu)
  BY Acyclic
<1>2. CASE k = NULL
  <2>1. k \in Link
    BY <1>2, LinkFacts
  <2>2. Foreach(u, k, 1) = <<>>
    BY <1>0, <1>1, <1>2, <2>1, EachStep
  <2>3. Twins(<<>>, <<>>)
    BY EmptySeq DEF Twins
  <2>4. ASSUME NEW a \in SUBSET Node PROVE <<>> \o Rest(u, n, a) = Rest(u, n, a)
    <3>1. Rest(u, n, a) \in Seq(Node)
      BY RestSeq
    <3> QED BY <3>1, ConcatEmptySeq
  <2> QED BY <1>2, <2>2, <2>3, <2>4
<1>3. CASE k # NULL
  <2>1. PICK p : Shows(u, D, k, p)
    BY <1>4, <1>3
  <2>2. k \in T /\ u.parent[k] = n /\ k \in D[k]
    <3>1. k \in T /\ u.parent[k] = n
      BY <1>4, <1>3 DEF Shaped
    <3> QED BY <3>1 DEF Shaped
  <2>3. ASSUME NEW a \in SUBSET Node, a \cap D[k] = {} PROVE Printed(u, k, a) = p \o Rest(u, n, a)
    <3>1. k \notin a
      BY <2>2, <2>3
    <3>2. Rest(u, k, a) = Rest(u, u.parent[k], a)
      BY ONLY <2>2, <2>3, <3>1, RestUp, Shaped(u, T, D, K)
    <3> QED BY <2>1, <2>2, <2>3, <3>2 DEF Shows
  <2> QED BY <1>3, <2>1, <2>3 DEF Shows
<1> QED BY <1>2, <1>3

\* What is printed below a node.
LEMMA ShowsAll ==
  ASSUME NEW u, NEW T, NEW D, NEW K, Shaped(u, T, D, K), NEW P, Lists(u.next, P), NEW n \in T,
         \A d \in Dir : u[d][n] # NULL => \E p : Shows(u, D, u[d][n], p)
  PROVE  \E p : Shows(u, D, n, p)
<1> DEFINE l == u.left[n]
           r == u.right[n]
           c == Chain(u, n)
<1>1. /\ u \in Tree /\ n \in Node /\ n \in Link /\ n # NULL
      /\ l = u["left"][n] /\ r = u["right"][n]
  BY LinkFacts, TreeFields DEF Shaped, Dir
<1>2. "left" \in Dir /\ "right" \in Dir /\ Opposite("left") = "right"
  BY DEF Dir, Opposite
<1>3. ASSUME NEW e \in Dir
      PROVE  D[n] = {n} \cup D[u[e][n]] \cup D[u[Opposite(e)][n]] /\ n \notin D[u[e][n]]
                 /\ n \in D[n]
  BY ONLY <1>3, n \in T, Shaped(u, T, D, K), Below
<1>4. /\ n \in D[n] /\ n \notin D[l] /\ n \notin D[r] /\ D[l] \subseteq D[n] /\ D[r] \subseteq D[n]
  BY <1>1, <1>2, <1>3
<1>5. c \in Seq(Node)
  BY ONLY <1>1, ChainStep, Lists(u.next, P)
<1>6. Foreach(u, n, 1) = (c \o Foreach(u, l, 1)) \o Foreach(u, r, 1)
  <2>1. PICK mu : Descending(u, mu)
    BY Acyclic
  <2>2. Foreach(u, n, 1) = IF n = NULL THEN <<>>
          ELSE Joined(1, Chain(u, n), Foreach(u, u.left[n], 1), Foreach(u, u.right[n], 1))
    BY ONLY <1>1, <2>1, EachStep, Lists(u.next, P)
  <2> QED BY <1>1, <2>2 DEF Joined
<1>7. PICK p : /\ Twins(p, Foreach(u, l, 1))
               /\ \A a \in SUBSET Node : a \cap D[l] = {} =>
                    (IF l = NULL THEN Rest(u, n, a) ELSE Printed(u, l, a)) = p \o Rest(u, n, a)
  <2>1. "left" \in Dir /\ (Child(u, "left", n) # NULL => \E p : Shows(u, D, Child(u, "left", n), p))
    BY <1>2 DEF Child
  <2>2. \E p : ShowsBelow(u, D, n, Child(u, "left", n), p)
    BY ONLY <2>1, n \in T, Shaped(u, T, D, K), Lists(u.next, P), ShowsKid
  <2> QED BY <1>1, <2>2 DEF ShowsBelow, Child
<1>8. PICK q : /\ Twins(q, Foreach(u, r, 1))
               /\ \A a \in SUBSET Node : a \cap D[r] = {} =>
                    (IF r = NULL THEN Rest(u, n, a) ELSE Printed(u, r, a)) = q \o Rest(u, n, a)
  <2>1. "right" \in Dir
            /\ (Child(u, "right", n) # NULL => \E q : Shows(u, D, Child(u, "right", n), q))
    BY <1>2 DEF Child
  <2>2. \E q : ShowsBelow(u, D, n, Child(u, "right", n), q)
    BY ONLY <2>1, n \in T, Shaped(u, T, D, K), Lists(u.next, P), ShowsKid
  <2> QED BY <1>1, <2>2 DEF ShowsBelow, Child
<1>9. p \in Seq(Node) /\ q \in Seq(Node)
  BY <1>7, <1>8 DEF Twins
<1> DEFINE s == (c \o q) \o p
<1>10. Twins(s, Foreach(u, n, 1))
  <2>1. Twins(p, Foreach(u, l, 1)) /\ Twins(q, Foreach(u, r, 1))
    BY <1>7, <1>8
  <2>2. Twins((c \o q) \o p, (c \o Foreach(u, l, 1)) \o Foreach(u, r, 1))
    BY ONLY <1>5, <2>1, TwinsJoined
  <2> QED BY <1>6, <2>2
<1>11. ASSUME NEW a \in SUBSET Node, a \cap D[n] = {} PROVE Printed(u, n, a) = s \o Rest(u, n, a)
  <2> DEFINE b == Flagged(u, n, a)
             x == Rest(u, n, a)
             y == Rest(u, n, b)
  <2>1. n \notin a /\ a \cap D[l] = {}
    BY <1>4, <1>11
  <2>2. y = (IF l = NULL THEN Rest(u, n, a) ELSE Printed(u, l, a)) /\ b \in SUBSET (a \cup {n})
    BY ONLY <1>11, <2>1, n \in T, Shaped(u, T, D, K), RestLeft
  <2>3. Printed(u, n, a) = c \o IF r = NULL THEN Rest(u, n, b) ELSE Printed(u, r, b)
    BY ONLY <1>11, n \in T, Shaped(u, T, D, K), Lists(u.next, P), PrintedRight
  <2>4. b \in SUBSET Node /\ b \cap D[r] = {}
    BY <1>1, <1>4, <1>11, <2>2
  <2>5. y = p \o x
    BY <1>7, <2>1, <2>2
  <2> HIDE DEF b
  <2>6. Printed(u, n, a) = c \o (q \o y)
    BY <1>8, <2>3, <2>4
  <2>7. x \in Seq(Node)
    BY ONLY <1>11, n \in T, Shaped(u, T, D, K), Lists(u.next, P), RestSeq
  <2> HIDE DEF x, y, c
  <2>8. q \o p \in Seq(Node) /\ c \o q \in Seq(Node)
    BY <1>5, <1>9, ConcatProperties
  <2>9. c \o (q \o (p \o x)) = (c \o q) \o (p \o x)
    <3>1. p \o x \in Seq(Node)
      BY <1>9, <2>7, ConcatProperties
    <3> DEFINE z == p \o x
    <3>2. z \in Seq(Node)
      BY <3>1
    <3> HIDE DEF z
    <3>3. (c \o q) \o z = c \o (q \o z)
      BY ONLY <1>5, <1>9, <3>2, ConcatAssociative
    <3> QED BY <3>3 DEF z
  <2>10. ((c \o q) \o p) \o x = (c \o q) \o (p \o x)
    <3> DEFINE z == c \o q
    <3>1. z \in Seq(Node) /\ p \in Seq(Node) /\ x \in Seq(Node)
      BY <1>9, <2>7, <2>8
    <3> HIDE DEF z
    <3>2. (z \o p) \o x = z \o (p \o x)
      BY ONLY <3>1, ConcatAssociative
    <3> QED BY <3>2 DEF z
  <2>11. Printed(u, n, a) = ((c \o q) \o p) \o x
    BY ONLY <2>5, <2>6, <2>9, <2>10
  <2> QED BY <2>11 DEF c, x
<1>12. Shows(u, D, n, s)
  BY ONLY <1>10, <1>11 DEF Shows
<1> QED BY <1>12

\* The loop prints what foreach visits (PrintsAll).
LEMMA PrintedVisited ==
  ASSUME NEW u, NEW T, NEW D, NEW K, Shaped(u, T, D, K), NEW P, Lists(u.next, P)
  PROVE  Twins(Printed(u, u.root, {}), Foreach(u, u.root, 1))
<1>1. u \in Tree /\ u.root \in Link /\ (u.root # NULL => u.root \in T) /\ {} \in SUBSET Node
  BY DEF Shaped, Tree
<1>2. CASE u.root = NULL
  <2>1. PICK mu : Descending(u, mu)
    BY Acyclic
  <2>2. Foreach(u, u.root, 1) = <<>>
    BY <1>1, <1>2, <2>1, EachStep
  <2>3. Printed(u, u.root, {}) = <<>>
    BY <1>1, <1>2, PrintedStep
  <2> QED BY <2>2, <2>3, EmptySeq DEF Twins
<1>3. CASE u.root # NULL
  <2> DEFINE S == {n \in T : \E p : Shows(u, D, n, p)}
  <2>1. ASSUME NEW n \in T, \A d \in Dir : u[d][n] # NULL => u[d][n] \in S PROVE n \in S
    <3>1. \A d \in Dir : u[d][n] # NULL => \E p : Shows(u, D, u[d][n], p)
      BY <2>1
    <3>2. \E p : Shows(u, D, n, p)
      BY ONLY <3>1, n \in T, Shaped(u, T, D, K), Lists(u.next, P), ShowsAll
    <3> QED BY <3>2
  <2>2. \A n \in S : \E p : Shows(u, D, n, p)
    OBVIOUS
  <2> HIDE DEF S
  <2>3. T \subseteq S
    BY ONLY <2>1, TreeInduction, Shaped(u, T, D, K)
  <2>4. PICK p : Shows(u, D, u.root, p)
    BY <1>1, <1>3, <2>2, <2>3
  <2>5. Printed(u, u.root, {}) = p \o Rest(u, u.root, {})
    BY <1>1, <2>4 DEF Shows
  <2>6. PICK mu : Ascending(u, mu)
    BY Acyclic
  <2>7. Climb(u, u.root, {}) \in {} \cup {NULL}
    BY ONLY <1>1, <2>6, ClimbStep
  <2>8. Rest(u, u.root, {}) = <<>>
    BY <2>7 DEF Rest
  <2>9. Twins(p, Foreach(u, u.root, 1))
    BY <2>4 DEF Shows
  <2>10. p \o <<>> = p
    BY <2>9, ConcatEmptySeq DEF Twins
  <2>11. Printed(u, u.root, {}) = p
    BY <2>5, <2>8, <2>10
  <2> QED BY <2>9, <2>11
<1> QED BY <1>2, <1>3

\* As long as nobody erases the head of a longer list with zrbtree_erasex, zrbtree_print shows
\* every node that foreach visits, once (PrintsAll).
THEOREM TreePrintsAll == Spec /\ HeadsStay => []PrintsAll
<1>1. TreeInv => PrintsAll
  <2> SUFFICES ASSUME NEW T, Sound(t, T, held, free, multiple) PROVE PrintsAll
    BY DEF TreeInv
  <2>1. SoundParts(t, T, held, free, multiple)
    BY SoundFacts
  <2>2. PICK D : Shaped(t, T, D, KeyOf)
    BY <2>1 DEF SoundParts
  <2>3. Lists(t.next, T \cup held \cup free)
    BY <2>1 DEF SoundParts
  <2> DEFINE p == Printed(t, t.root, {})
             v == Foreach(t, t.root, 1)
  <2>4. Twins(p, v)
    BY ONLY <2>2, <2>3, PrintedVisited
  <2> HIDE DEF p, v
  <2>5. /\ p \in Seq(Node) /\ v \in Seq(Node) /\ Len(p) = Len(v) /\ \A x : In(p, x) <=> In(v, x)
    BY <2>4 DEF Twins
  <2>6. DOMAIN p = 1..Len(p) /\ DOMAIN v = 1..Len(v)
    BY <2>5, LenProperties
  <2>7. (\A x : In(p, x) <=> x \in ToSet(p)) /\ (\A x : In(v, x) <=> x \in ToSet(v))
    BY <2>6 DEF ToSet, In
  <2>8. ToSet(p) = ToSet(v)
    BY <2>5, <2>7
  <2> QED BY <2>5, <2>8 DEF PrintsAll, p, v
<1> QED BY <1>1, TreeInductive, PTL
=============================================================================
