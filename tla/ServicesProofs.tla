--------------------------- MODULE ServicesProofs ---------------------------
(***************************************************************************)
(* What holds of the traces, the sockets and the walks.  The log: for any  *)
(* names, sizes and number of lines, it and its backup hold lines that     *)
(* were logged, the last ones since a failing call or a crash lost some,   *)
(* and it stays below its size.  The network: for a connection of any      *)
(* capacity and any number of lines, the server shows them in their order  *)
(* and without a gap.  The sockets: for any payloads, a buffer of any size *)
(* and any number of packets, a reader that calls when all that was sent   *)
(* has arrived gets the packets as they were sent.  The walks: in any tree *)
(* and for any changes, func is called for what stays, and for nothing     *)
(* twice.                                                                  *)
(***************************************************************************)
EXTENDS Trace, TraceNet, Sockets, Files, Chains, FiniteSetTheorems

\* Named, so that the provers instantiate the law before they expand it.
Associate(a, b, c) == (a \o b) \o c = a \o (b \o c)

LEMMA ConcatAssociates == \A S : \A a, b, c \in Seq(S) : Associate(a, b, c)
  BY ConcatAssociative, Zenon DEF Associate

-----------------------------------------------------------------------------
(* The size of a file.                                                     *)

Line == [no : Nat, len : Nat]

\* The lengths of the first i lines, for each i: what Size is defined by.
Sums(q) ==
  CHOOSE f : f = [i \in 0..Len(q) |-> IF i = 0 THEN 0 ELSE f[i - 1] + q[i].len]

LEMMA SizeSums == \A q : Size(q) = Sums(q)[Len(q)]
  BY DEF Size, Sums

\* f has the lengths of the first n lines of q.
Adds(f, q, n) == f[0] = 0 /\ \A i \in 1..n : f[i] = f[i - 1] + q[i].len

\* p and q begin with the same m lines.
SameFirst(p, q, m) == \A i \in 1..m : p[i] = q[i]

\* There are such lengths, for any number of lines.
LEMMA LengthsExist ==
  ASSUME NEW q \in Seq(Line)
  PROVE  \E f \in [0..Len(q) -> Nat] : Adds(f, q, Len(q))
<1> DEFINE T == {n \in 0..Len(q) : ~ \E f \in [0..n -> Nat] : Adds(f, q, n)}
<1>1. Len(q) \in Nat
  BY LenProperties
<1> SUFFICES ASSUME T # {} PROVE FALSE
  BY <1>1
<1>0. T \in SUBSET Nat
  BY <1>1
<1>2. PICK n \in T : \A m \in T : n <= m
  <2> HIDE DEF T
  <2> QED BY <1>0, Least
<1>3. CASE n = 0
  <2> DEFINE f == [i \in 0..0 |-> 0]
  <2>1. f \in [0..0 -> Nat] /\ Adds(f, q, 0)
    BY DEF Adds
  <2> QED BY <1>3, <2>1
<1>4. CASE n > 0
  <2>1. n \in 1..Len(q) /\ n - 1 \in 0..Len(q) /\ ~(n <= n - 1)
    BY <1>1, <1>4
  <2>2. PICK f \in [0..n - 1 -> Nat] : Adds(f, q, n - 1)
    BY <1>2, <2>1
  <2>3. q[n] \in Line
    BY <2>1, ElementOfSeq
  <2> DEFINE g == [i \in 0..n |-> IF i = n THEN f[n - 1] + q[n].len ELSE f[i]]
  <2>4. f[n - 1] \in Nat /\ q[n].len \in Nat
    BY <2>1, <2>2, <2>3 DEF Adds, Line
  <2>5. g \in [0..n -> Nat] /\ g[0] = 0
    BY <2>1, <2>2, <2>4 DEF Adds
  <2>6. ASSUME NEW i \in 1..n PROVE g[i] = g[i - 1] + q[i].len
    <3>1. i \in 0..n /\ i - 1 \in 0..n /\ i - 1 # n
      BY <2>1
    <3>2. g[i - 1] = f[i - 1] /\ g[i] = IF i = n THEN f[n - 1] + q[n].len ELSE f[i]
      BY <3>1
    <3>3. i # n => f[i] = f[i - 1] + q[i].len
      BY <2>1, <2>2 DEF Adds
    <3> QED BY <3>2, <3>3
  <2>7. g \in [0..n -> Nat] /\ Adds(g, q, n)
    BY <2>5, <2>6 DEF Adds
  <2> QED BY <2>7
<1> QED BY <1>1, <1>3, <1>4

\* And no others.
LEMMA LengthsAgree ==
  ASSUME NEW p, NEW q, NEW m \in Nat, NEW n \in Nat, m <= n,
         SameFirst(p, q, m),
         NEW f, NEW g, Adds(f, p, m), Adds(g, q, n)
  PROVE  f[m] = g[m]
<1> DEFINE T == {i \in 0..m : f[i] # g[i]}
<1> SUFFICES ASSUME T # {} PROVE FALSE
  OBVIOUS
<1>0. T \in SUBSET Nat
  OBVIOUS
<1>1. PICK i \in T : \A j \in T : i <= j
  <2> HIDE DEF T
  <2> QED BY <1>0, Least
<1>2. i # 0
  BY DEF Adds
<1>3. i \in 1..m /\ i \in 1..n /\ i - 1 \in 0..m /\ ~(i <= i - 1)
  BY <1>2
<1>4. f[i - 1] = g[i - 1]
  BY <1>1, <1>3
<1> QED BY <1>3, <1>4 DEF Adds, SameFirst

LEMMA SumsAdd ==
  ASSUME NEW q \in Seq(Line)
  PROVE  Adds(Sums(q), q, Len(q))
<1> DEFINE Solves(f) == f = [i \in 0..Len(q) |-> IF i = 0 THEN 0 ELSE f[i - 1] + q[i].len]
<1>1. Len(q) \in Nat
  BY LenProperties
<1>2. PICK f \in [0..Len(q) -> Nat] : Adds(f, q, Len(q))
  BY LengthsExist
<1>3. Solves(f)
  BY <1>1, <1>2 DEF Adds
<1>4. Solves(Sums(q))
  BY <1>3 DEF Sums
<1>5. \A g : Solves(g) => /\ g[0] = 0
                          /\ \A i \in 1..Len(q) : g[i] = g[i - 1] + q[i].len
  BY <1>1
<1> QED BY <1>4, <1>5 DEF Adds

LEMMA SizeTyped ==
  ASSUME NEW q \in Seq(Line)
  PROVE  Size(q) \in Nat
<1>1. Len(q) \in Nat /\ Adds(Sums(q), q, Len(q))
  BY SumsAdd, LenProperties
<1>2. PICK f \in [0..Len(q) -> Nat] : Adds(f, q, Len(q))
  BY LengthsExist
<1>3. Sums(q)[Len(q)] = f[Len(q)]
  <2>1. SameFirst(q, q, Len(q)) /\ Len(q) <= Len(q)
    BY <1>1 DEF SameFirst
  <2> QED BY <1>1, <1>2, <2>1, LengthsAgree
<1> QED BY <1>1, <1>3, SizeSums

LEMMA SizeOfNone == Size(<<>>) = 0
<1>1. <<>> \in Seq(Line) /\ Len(<<>>) = 0
  BY EmptySeq
<1>2. Sums(<<>>)[0] = 0
  BY <1>1, SumsAdd DEF Adds
<1> QED BY <1>1, <1>2, SizeSums

\* A line adds its length.
LEMMA SizeOfAppend ==
  ASSUME NEW q \in Seq(Line), NEW line \in Line
  PROVE  Size(Append(q, line)) = Size(q) + line.len
<1> DEFINE p == Append(q, line)
           n == Len(q)
<1>1. /\ p \in Seq(Line) /\ Len(p) = n + 1 /\ p[n + 1] = line /\ n \in Nat
      /\ \A i \in 1..n : q[i] = p[i]
  BY AppendProperties, LenProperties
<1>2. Adds(Sums(p), p, n + 1) /\ Adds(Sums(q), q, n)
  BY <1>1, SumsAdd
<1>3. Sums(q)[n] = Sums(p)[n]
  <2> HIDE DEF p, n
  <2>1. n \in Nat /\ n + 1 \in Nat /\ n <= n + 1 /\ SameFirst(q, p, n)
    BY <1>1 DEF SameFirst
  <2>2. ASSUME NEW f, NEW g, Adds(f, q, n), Adds(g, p, n + 1) PROVE f[n] = g[n]
    BY <2>1, <2>2, LengthsAgree
  <2> QED BY <1>2, <2>2
<1>4. Sums(p)[n + 1] = Sums(p)[n] + p[n + 1].len
  <2>1. n + 1 \in 1..n + 1 /\ (n + 1) - 1 = n
    BY <1>1
  <2> QED BY <1>2, <2>1 DEF Adds
<1> QED BY <1>1, <1>3, <1>4, SizeSums

-----------------------------------------------------------------------------
(* The log.                                                                *)

\* What stdio holds back of log n.
Unwritten(n) == IF n = logname THEN buffer ELSE <<>>

\* k is what is left of the lines g of a log of which some of the first m were lost.
Holds(k, g, m) ==
  /\ m \in 0..Len(g)
  /\ k = <<>> => m = Len(g)
  /\ \A i \in 0..Len(k) - 1 : i < Len(g) - m => k[Len(k) - i] = g[Len(g) - i]
  /\ \A i \in 1..Len(k) : \E j \in 1..Len(g) : k[i] = g[j]
  /\ \A i, j \in 1..Len(k) : i < j => k[i].no < k[j].no

LogTyped ==
  /\ logname \in Names /\ logsize \in Nat \ {0} /\ loglen \in Nat
  /\ pf \in BOOLEAN /\ count \in Nat
  /\ buffer \in Seq(Line) /\ (pf \/ buffer = <<>>)
  /\ file \in [Names -> Seq(Line)] /\ backup \in [Names -> Seq(Line)]
  /\ logged \in [Names -> Seq(Line)] /\ gap \in [Names -> Nat]

\* The lines are numbered as they come.
Numbered == \A n \in Names : \A i \in 1..Len(logged[n]) : logged[n][i].no < count

LogHolds == \A n \in Names : Holds((backup[n] \o file[n]) \o Unwritten(n), logged[n], gap[n])

LogInv == LogTyped /\ Numbered /\ LogHolds /\ LogBounded

LEMMA LineTyped ==
  ASSUME NEW q \in Seq(Line)
  PROVE  Len(q) \in Nat /\ \A i \in 1..Len(q) : q[i] \in Line /\ q[i].no \in Nat
<1>1. \A i \in 1..Len(q) : q[i] \in Line
  BY ElementOfSeq
<1> QED BY <1>1, LenProperties DEF Line

\* A line that is written is held.
LEMMA HoldsAppend ==
  ASSUME NEW k \in Seq(Line), NEW g \in Seq(Line), NEW m, NEW line \in Line, Holds(k, g, m),
         \A i \in 1..Len(g) : g[i].no < line.no
  PROVE  Holds(Append(k, line), Append(g, line), m)
<1> DEFINE p == Append(k, line)
           h == Append(g, line)
<1>1. /\ Len(k) \in Nat /\ Len(g) \in Nat /\ Len(p) = Len(k) + 1 /\ Len(h) = Len(g) + 1
      /\ p[Len(k) + 1] = line /\ h[Len(g) + 1] = line
      /\ \A i \in 1..Len(k) : p[i] = k[i]
      /\ \A i \in 1..Len(g) : h[i] = g[i]
      /\ p # <<>>
  BY AppendProperties, LenProperties
<1>2. /\ m \in 0..Len(g)
      /\ \A i \in 0..Len(k) - 1 : i < Len(g) - m => k[Len(k) - i] = g[Len(g) - i]
      /\ \A i \in 1..Len(k) : \E j \in 1..Len(g) : k[i] = g[j]
      /\ \A i, j \in 1..Len(k) : i < j => k[i].no < k[j].no
  BY DEF Holds
<1> HIDE DEF p, h
<1>3. ASSUME NEW i \in 0..Len(p) - 1, i < Len(h) - m
      PROVE  p[Len(p) - i] = h[Len(h) - i]
  <2>1. CASE i = 0
    BY <1>1, <2>1
  <2>2. CASE i # 0
    <3>1. /\ i - 1 \in 0..Len(k) - 1 /\ i - 1 < Len(g) - m
          /\ Len(k) - (i - 1) \in 1..Len(k) /\ Len(g) - (i - 1) \in 1..Len(g)
          /\ Len(p) - i = Len(k) - (i - 1) /\ Len(h) - i = Len(g) - (i - 1)
      BY <1>1, <1>2, <1>3, <2>2
    <3>2. k[Len(k) - (i - 1)] = g[Len(g) - (i - 1)]
      BY <1>2, <3>1
    <3> QED BY <1>1, <3>1, <3>2
  <2> QED BY <2>1, <2>2
<1>4. ASSUME NEW i \in 1..Len(p)
      PROVE  \E j \in 1..Len(h) : p[i] = h[j]
  <2>1. CASE i \in 1..Len(k)
    <3>1. PICK j \in 1..Len(g) : k[i] = g[j]
      BY <1>2, <2>1
    <3>2. j \in 1..Len(h)
      BY <1>1
    <3> QED BY <1>1, <2>1, <3>1, <3>2
  <2>2. CASE i = Len(k) + 1
    <3>1. Len(g) + 1 \in 1..Len(h)
      BY <1>1
    <3> QED BY <1>1, <2>2, <3>1
  <2> QED BY <1>1, <2>1, <2>2
<1>5. ASSUME NEW i \in 1..Len(p), NEW j \in 1..Len(p), i < j
      PROVE  p[i].no < p[j].no
  <2>1. i \in 1..Len(k)
    BY <1>1, <1>5
  <2>2. CASE j \in 1..Len(k)
    BY <1>1, <1>2, <1>5, <2>1, <2>2
  <2>3. CASE j = Len(k) + 1
    <3>1. PICK l \in 1..Len(g) : k[i] = g[l]
      BY <1>2, <2>1
    <3> QED BY <1>1, <2>1, <2>3, <3>1
  <2> QED BY <1>1, <2>2, <2>3
<1>6. m \in 0..Len(h)
  BY <1>1, <1>2
<1> QED BY <1>1, <1>3, <1>4, <1>5, <1>6 DEF Holds, p, h

\* More may be counted as lost.
LEMMA HoldsLost ==
  ASSUME NEW k, NEW g \in Seq(Line), NEW m, Holds(k, g, m)
  PROVE  Holds(k, g, Len(g))
<1>1. Len(g) \in Nat
  BY LenProperties
<1>2. \A i \in 0..Len(k) - 1 : ~(i < Len(g) - Len(g))
  BY <1>1
<1> QED BY <1>1, <1>2 DEF Holds

LEMMA HoldsNone ==
  ASSUME NEW g \in Seq(Line)
  PROVE  Holds(<<>>, g, Len(g))
  BY EmptySeq, LenProperties DEF Holds

\* Of what is held the first lines may go, and with them not the last one, ...
LEMMA HoldsEnd ==
  ASSUME NEW x \in Seq(Line), NEW k \in Seq(Line), NEW g \in Seq(Line), NEW m,
         Holds(x \o k, g, m), k # <<>> \/ m = Len(g)
  PROVE  Holds(k, g, m)
<1> DEFINE p == x \o k
<1>1. /\ Len(x) \in Nat /\ Len(k) \in Nat /\ Len(g) \in Nat /\ Len(p) = Len(x) + Len(k)
      /\ \A i \in 1..Len(p) : p[i] = IF i <= Len(x) THEN x[i] ELSE k[i - Len(x)]
  BY LenProperties, ConcatProperties
<1>2. /\ m \in 0..Len(g)
      /\ \A i \in 0..Len(p) - 1 : i < Len(g) - m => p[Len(p) - i] = g[Len(g) - i]
      /\ \A i \in 1..Len(p) : \E j \in 1..Len(g) : p[i] = g[j]
      /\ \A i, j \in 1..Len(p) : i < j => p[i].no < p[j].no
  BY DEF Holds
<1> HIDE DEF p
<1>3. ASSUME NEW i \in 1..Len(k)
      PROVE  Len(x) + i \in 1..Len(p) /\ p[Len(x) + i] = k[i]
  <2>1. Len(x) + i \in 1..Len(p) /\ ~(Len(x) + i <= Len(x)) /\ (Len(x) + i) - Len(x) = i
    BY <1>1
  <2> QED BY <1>1, <2>1
<1>4. ASSUME NEW i \in 0..Len(k) - 1, i < Len(g) - m
      PROVE  k[Len(k) - i] = g[Len(g) - i]
  <2>1. /\ i \in 0..Len(p) - 1 /\ Len(k) - i \in 1..Len(k)
        /\ Len(x) + (Len(k) - i) = Len(p) - i
    BY <1>1
  <2>2. p[Len(p) - i] = g[Len(g) - i]
    BY <1>2, <1>4, <2>1
  <2> QED BY <1>3, <2>1, <2>2
<1>5. ASSUME NEW i \in 1..Len(k)
      PROVE  \E j \in 1..Len(g) : k[i] = g[j]
  BY <1>2, <1>3
<1>6. ASSUME NEW i \in 1..Len(k), NEW j \in 1..Len(k), i < j
      PROVE  k[i].no < k[j].no
  <2>1. Len(x) + i < Len(x) + j
    BY <1>1, <1>6
  <2>2. p[Len(x) + i].no < p[Len(x) + j].no
    BY <1>2, <1>3, <2>1
  <2> QED BY <1>3, <2>2
<1> QED BY <1>2, <1>4, <1>5, <1>6 DEF Holds

\* ... or the last ones, which then are lost.
LEMMA HoldsFront ==
  ASSUME NEW k \in Seq(Line), NEW y \in Seq(Line), NEW g \in Seq(Line), NEW m,
         Holds(k \o y, g, m)
  PROVE  Holds(k, g, Len(g))
<1> DEFINE p == k \o y
<1>1. /\ Len(k) \in Nat /\ Len(y) \in Nat /\ Len(g) \in Nat /\ Len(p) = Len(k) + Len(y)
      /\ \A i \in 1..Len(p) : p[i] = IF i <= Len(k) THEN k[i] ELSE y[i - Len(k)]
  BY LenProperties, ConcatProperties
<1>2. /\ \A i \in 1..Len(p) : \E j \in 1..Len(g) : p[i] = g[j]
      /\ \A i, j \in 1..Len(p) : i < j => p[i].no < p[j].no
  BY DEF Holds
<1> HIDE DEF p
<1>3. \A i \in 1..Len(k) : i \in 1..Len(p) /\ p[i] = k[i]
  BY <1>1
<1>4. Len(g) \in 0..Len(g) /\ \A i \in 0..Len(k) - 1 : ~(i < Len(g) - Len(g))
  BY <1>1
<1>5. \A i \in 1..Len(k) : \E j \in 1..Len(g) : k[i] = g[j]
  BY <1>2, <1>3
<1>6. \A i, j \in 1..Len(k) : i < j => k[i].no < k[j].no
  BY <1>2, <1>3
<1> QED BY <1>4, <1>5, <1>6 DEF Holds

\* c is what a close leaves of w.
Cut(c, w) == c \in Seq(Line) /\ \E r \in Seq(Line) : w = c \o r

LEMMA ClosedCut ==
  ASSUME LogTyped, NEW q \in Seq(Line), NEW closed \in Closed(q)
  PROVE  Cut(closed, file[logname] \o q)
<1> DEFINE f == file[logname]
<1>1. f \in Seq(Line) /\ Len(q) \in Nat
  BY LenProperties DEF LogTyped
<1>2. PICK k \in 0..Len(q) : closed = f \o SubSeq(q, 1, k)
  BY DEF Closed, Opened
<1> DEFINE s == SubSeq(q, 1, k)
           r == SubSeq(q, k + 1, Len(q))
<1>3. s \in Seq(Line) /\ r \in Seq(Line)
  <2>1. \A i \in 1..Len(q) : q[i] \in Line
    BY ElementOfSeq
  <2>2. \A i \in 1..k : q[i] \in Line
    BY <1>1, <2>1
  <2>3. \A i \in k + 1..Len(q) : q[i] \in Line
    BY <1>1, <2>1
  <2> QED BY <1>1, <2>2, <2>3, SubSeqProperties
<1>4. s \o r = q
  <2>1. 1 \in 1..Len(q) + 1 /\ k \in 1 - 1..Len(q) /\ Len(q) \in k..Len(q)
    BY <1>1
  <2>2. SubSeq(q, 1, k) \o SubSeq(q, k + 1, Len(q)) = SubSeq(q, 1, Len(q))
    BY <2>1, ConcatAdjacentSubSeq
  <2> QED BY <2>2, SubSeqFull
<1>5. f \o q = closed \o r
  <2> HIDE DEF f, s, r
  <2>1. Associate(f, s, r)
    BY <1>1, <1>3, ConcatAssociates, Zenon
  <2> QED BY <1>2, <1>4, <2>1 DEF Associate, s
<1> QED BY <1>1, <1>2, <1>3, <1>5, ConcatProperties DEF Cut

\* What such a close leaves is held, with what is before it or without.
LEMMA HoldsCut ==
  ASSUME NEW x \in Seq(Line), NEW w \in Seq(Line), NEW c, Cut(c, w), NEW g \in Seq(Line),
         NEW m, Holds(x \o w, g, m), NEW l \in {m, Len(g)}, c # w => l = Len(g)
  PROVE  Holds(x \o c, g, l) /\ (c # <<>> \/ l = Len(g) => Holds(c, g, l))
<1>1. c \in Seq(Line)
  BY DEF Cut
<1>2. Holds(x \o c, g, l)
  <2>1. CASE c = w
    BY <2>1, HoldsLost
  <2>2. CASE c # w
    <3>1. PICK r \in Seq(Line) : w = c \o r
      BY DEF Cut
    <3>2. x \o w = (x \o c) \o r /\ x \o c \in Seq(Line)
      <4>1. Associate(x, c, r)
        BY <1>1, ConcatAssociates, Zenon
      <4> QED BY <1>1, <3>1, <4>1, ConcatProperties DEF Associate
    <3> QED BY <2>2, <3>2, HoldsFront
  <2> QED BY <2>1, <2>2
<1> QED BY <1>1, <1>2, HoldsEnd

\* A sequence that ends as another one, not shorter, does is a suffix of it.
LEMMA SameEnds ==
  ASSUME NEW k \in Seq(Line), NEW g \in Seq(Line), Len(k) <= Len(g),
         \A i \in 0..Len(k) - 1 : k[Len(k) - i] = g[Len(g) - i]
  PROVE  IsSuffix(k, g)
<1> DEFINE p == Reverse(k)
           q == Reverse(g)
<1>1. /\ p \in Seq(Line) /\ Len(p) = Len(k) /\ q \in Seq(Line) /\ Len(q) = Len(g)
      /\ \A i \in 1..Len(k) : p[i] = k[(Len(k) - i) + 1]
      /\ \A i \in 1..Len(g) : q[i] = g[(Len(g) - i) + 1]
  <2>1. \A s \in Seq(Line) : /\ Reverse(s) \in Seq(Line) /\ Len(Reverse(s)) = Len(s)
                             /\ \A i \in 1..Len(s) : Reverse(s)[i] = s[(Len(s) - i) + 1]
    <3> SUFFICES ASSUME NEW s \in Seq(Line)
                 PROVE  /\ Reverse(s) \in Seq(Line) /\ Len(Reverse(s)) = Len(s)
                        /\ \A i \in 1..Len(s) : Reverse(s)[i] = s[(Len(s) - i) + 1]
      OBVIOUS
    <3>1. Reverse(s) = Turned(s)
      BY DEF Reverse, Turned
    <3> QED BY <3>1, TurnedProperties
  <2> QED BY <2>1
<1>2. Len(k) \in Nat /\ Len(g) \in Nat
  BY LenProperties
<1> HIDE DEF p, q
<1>3. ASSUME NEW i \in 1..Len(k) PROVE p[i] = q[i]
  <2>1. /\ i \in 1..Len(g) /\ i - 1 \in 0..Len(k) - 1
        /\ (Len(k) - i) + 1 = Len(k) - (i - 1) /\ (Len(g) - i) + 1 = Len(g) - (i - 1)
    BY <1>2
  <2> QED BY <1>1, <2>1
<1>4. SubSeq(p, 1, Len(k)) = SubSeq(q, 1, Len(k))
  <2> DEFINE m == Len(k)
             t == SubSeq(p, 1, m)
             u == SubSeq(q, 1, m)
  <2>1. m \in Int /\ 1 \in Int /\ \A i \in 1..m : p[i] \in Line /\ q[i] \in Line
    BY <1>1, <1>2, <1>3, ElementOfSeq
  <2> HIDE DEF m
  <2>2. /\ t \in Seq(Line) /\ Len(t) = IF 1 <= m THEN m - 1 + 1 ELSE 0
        /\ \A i \in 1..m - 1 + 1 : t[i] = p[1 + i - 1]
    BY <2>1, SubSeqProperties
  <2>3. /\ u \in Seq(Line) /\ Len(u) = IF 1 <= m THEN m - 1 + 1 ELSE 0
        /\ \A i \in 1..m - 1 + 1 : u[i] = q[1 + i - 1]
    BY <2>1, SubSeqProperties
  <2> HIDE DEF t, u
  <2>4. Len(t) = Len(u) /\ \A i \in 1..Len(t) : t[i] = u[i]
    <3>1. \A i \in 1..m : p[i] = q[i]
      BY <1>3 DEF m
    <3>2. ASSUME NEW i \in 1..Len(t) PROVE t[i] = u[i]
      <4>1. i \in 1..m /\ i \in 1..m - 1 + 1 /\ 1 + i - 1 = i
        BY <2>1, <2>2
      <4> QED BY <2>2, <2>3, <3>1, <4>1
    <3> QED BY <2>2, <2>3, <3>2
  <2>5. t = u
    BY <2>2, <2>3, <2>4, SeqEqual
  <2> QED BY <2>5 DEF m, t, u
<1>5. Len(p) <= Len(q)
  BY <1>1
<1> QED BY <1>1, <1>4, <1>5 DEF IsSuffix, IsPrefix, p, q

\* What the property says of a log of which k is held.
LEMMA HoldsIsSuffix ==
  ASSUME NEW k \in Seq(Line), NEW g \in Seq(Line), NEW m, Holds(k, g, m)
  PROVE  LET s == SubSeq(g, m + 1, Len(g))
         IN  (IsSuffix(k, s) \/ IsSuffix(s, k)) /\ (k = <<>> => s = <<>>)
<1> DEFINE s == SubSeq(g, m + 1, Len(g))
<1>1. Len(k) \in Nat /\ Len(g) \in Nat /\ m \in 0..Len(g)
  BY LenProperties DEF Holds
<1>2. s \in Seq(Line) /\ Len(s) = Len(g) - m /\ \A i \in 1..Len(g) - m : s[i] = g[m + i]
  <2>1. \A i \in 1..Len(g) : g[i] \in Line
    BY ElementOfSeq
  <2>2. m + 1 \in Int /\ Len(g) \in Int /\ \A i \in m + 1..Len(g) : g[i] \in Line
    BY <1>1, <2>1
  <2>3. /\ s \in Seq(Line) /\ Len(s) = IF m + 1 <= Len(g) THEN Len(g) - (m + 1) + 1 ELSE 0
        /\ \A i \in 1..Len(g) - (m + 1) + 1 : s[i] = g[(m + 1) + i - 1]
    BY <2>2, SubSeqProperties
  <2>4. \A i \in 1..Len(g) - m : i \in 1..Len(g) - (m + 1) + 1 /\ (m + 1) + i - 1 = m + i
    BY <1>1
  <2> HIDE DEF s
  <2> QED BY <1>1, <2>3, <2>4
<1>3. ASSUME NEW i \in 0..Len(s) - 1
      PROVE  s[Len(s) - i] = g[Len(g) - i] /\ i < Len(g) - m
  <2>1. /\ Len(s) - i \in 1..Len(g) - m /\ m + (Len(s) - i) = Len(g) - i
        /\ i < Len(g) - m
    BY <1>1, <1>2
  <2> QED BY <1>2, <2>1
<1>4. \A i \in 0..Len(k) - 1 : i < Len(g) - m => k[Len(k) - i] = g[Len(g) - i]
  BY DEF Holds
<1>5. k = <<>> => s = <<>>
  <2>1. k = <<>> => Len(s) = 0
    BY <1>1, <1>2 DEF Holds
  <2> HIDE DEF s
  <2> QED BY <1>2, <2>1, EmptySeq
<1> HIDE DEF s
<1>6. CASE Len(k) <= Len(s)
  <2>1. \A i \in 0..Len(k) - 1 : i \in 0..Len(s) - 1
    BY <1>1, <1>2, <1>6
  <2>2. \A i \in 0..Len(k) - 1 : k[Len(k) - i] = s[Len(s) - i]
    BY <1>3, <1>4, <2>1
  <2> QED BY <1>2, <1>5, <1>6, <2>2, SameEnds DEF s
<1>7. CASE ~(Len(k) <= Len(s))
  <2>1. Len(s) <= Len(k) /\ \A i \in 0..Len(s) - 1 : i \in 0..Len(k) - 1
    BY <1>1, <1>2, <1>7
  <2>2. \A i \in 0..Len(s) - 1 : s[Len(s) - i] = k[Len(k) - i]
    BY <1>3, <1>4, <2>1
  <2> QED BY <1>2, <1>5, <2>1, <2>2, SameEnds DEF s
<1> QED BY <1>6, <1>7

LEMMA InitLogs == TraceInit => LogInv
<1> SUFFICES ASSUME TraceInit PROVE LogInv
  OBVIOUS
<1>1. <<>> \in Seq(Line) /\ Len(<<>>) = 0 /\ <<>> \o <<>> = <<>>
  BY EmptySeq, ConcatEmptySeq
<1>2. LogTyped
  BY <1>1, TraceAssumption DEF TraceInit, LogTyped
<1>3. ASSUME NEW n \in Names
      PROVE  /\ \A i \in 1..Len(logged[n]) : logged[n][i].no < count
             /\ Holds((backup[n] \o file[n]) \o Unwritten(n), logged[n], gap[n])
  <2>1. /\ logged[n] = <<>> /\ backup[n] = <<>> /\ file[n] = <<>> /\ Unwritten(n) = <<>>
        /\ gap[n] = 0
    BY DEF TraceInit, Unwritten
  <2>2. \A i \in 1..Len(<<>>) : FALSE
    BY <1>1
  <2>3. Holds(<<>>, <<>>, 0)
    BY <1>1, HoldsNone
  <2> QED BY <1>1, <2>1, <2>2, <2>3
<1> QED BY <1>2, <1>3 DEF LogInv, LogBounded, Numbered, LogHolds, TraceInit

\* Steps of the dispatcher.
LEMMA FrameLogs ==
  ASSUME LogInv, UNCHANGED logVars
  PROVE  LogInv'
<1>1. LogTyped' /\ LogBounded'
  BY DEF LogInv, LogTyped, LogBounded, logVars
<1>2. Numbered' /\ LogHolds'
  BY DEF LogInv, Numbered, LogHolds, Unwritten, logVars
<1> QED BY <1>1, <1>2 DEF LogInv

\* Of the log that is open.
LEMMA OpenLog ==
  ASSUME LogInv
  PROVE  /\ logname \in Names
         /\ file[logname] \in Seq(Line) /\ backup[logname] \in Seq(Line)
         /\ logged[logname] \in Seq(Line) /\ buffer \in Seq(Line)
         /\ gap[logname] \in Nat /\ count \in Nat
         /\ \A i \in 1..Len(logged[logname]) : logged[logname][i].no < count
         /\ Holds((backup[logname] \o file[logname]) \o buffer, logged[logname], gap[logname])
  BY DEF LogInv, LogTyped, Numbered, LogHolds, Unwritten

\* A step changes the log that is open and no other one.
LEMMA OneLogHolds ==
  ASSUME LogInv, logname' = logname \/ buffer' = <<>>,
         \A n \in Names : n # logname => /\ file'[n] = file[n] /\ backup'[n] = backup[n]
                                         /\ logged'[n] = logged[n] /\ gap'[n] = gap[n],
         Holds((backup'[logname] \o file'[logname]) \o buffer', logged'[logname], gap'[logname])
  PROVE  LogHolds'
<1> SUFFICES ASSUME NEW n \in Names
             PROVE  Holds((backup'[n] \o file'[n]) \o Unwritten(n)', logged'[n], gap'[n])
  BY DEF LogHolds
<1>1. CASE n = logname
  <2>1. Unwritten(n)' = buffer'
    BY <1>1 DEF Unwritten
  <2> QED BY <1>1, <2>1
<1>2. CASE n # logname
  <2>1. Unwritten(n)' = <<>> /\ Unwritten(n) = <<>>
    BY <1>2 DEF Unwritten
  <2> QED BY <1>2, <2>1 DEF LogInv, LogHolds
<1> QED BY <1>1, <1>2

\* One line more.
LEMMA LineLogged ==
  ASSUME LogInv, NEW line \in Line, line.no = count, count' = count + 1,
         logged' = [logged EXCEPT ![logname] = Append(@, line)]
  PROVE  /\ Numbered' /\ logged' \in [Names -> Seq(Line)]
         /\ logged'[logname] = Append(logged[logname], line)
         /\ Len(logged[logname]) + 1 = Len(Append(logged[logname], line))
         /\ \A n \in Names : n # logname => logged'[n] = logged[n]
         /\ Holds((backup[logname] \o file[logname]) \o Append(buffer, line),
                  logged'[logname], gap[logname])
<1> DEFINE g == logged[logname]
           d == backup[logname] \o file[logname]
<1>1. /\ logname \in Names /\ g \in Seq(Line) /\ d \in Seq(Line) /\ buffer \in Seq(Line)
      /\ d \o buffer \in Seq(Line) /\ Holds(d \o buffer, g, gap[logname]) /\ count \in Nat
      /\ \A i \in 1..Len(g) : g[i].no < count
  BY OpenLog, ConcatProperties
<1>2. /\ logged \in [Names -> Seq(Line)]
      /\ \A n \in Names : \A i \in 1..Len(logged[n]) : logged[n][i].no < count
  BY DEF LogInv, LogTyped, Numbered
<1>3. /\ Append(g, line) \in Seq(Line) /\ Len(Append(g, line)) = Len(g) + 1
      /\ Append(g, line)[Len(g) + 1] = line /\ Len(g) \in Nat
      /\ \A i \in 1..Len(g) : Append(g, line)[i] = g[i]
  BY <1>1, AppendProperties, LenProperties
<1>4. /\ logged' \in [Names -> Seq(Line)] /\ logged'[logname] = Append(g, line)
      /\ \A n \in Names : n # logname => logged'[n] = logged[n]
  BY <1>1, <1>2, <1>3
<1> HIDE DEF g, d
<1>5. Numbered'
  <2>1. ASSUME NEW n \in Names, NEW i \in 1..Len(logged'[n]) PROVE logged'[n][i].no < count + 1
    <3>1. CASE n = logname
      <4>1. CASE i \in 1..Len(g)
        <5>1. g[i].no < count /\ g[i].no \in Nat /\ logged'[n][i] = g[i]
          <6>1. logged'[n][i] = g[i]
            BY <1>3, <1>4, <3>1, <4>1
          <6>2. g[i].no < count
            BY <1>1, <4>1
          <6>3. g[i].no \in Nat
            BY <1>1, <4>1, LineTyped
          <6> QED BY <6>1, <6>2, <6>3
        <5>2. count \in Nat
          BY <1>1
        <5> QED BY <5>1, <5>2
      <4>2. CASE i = Len(g) + 1
        <5>1. logged'[n][i] = line
          BY <1>3, <1>4, <3>1, <4>2
        <5>2. count \in Nat
          BY <1>1
        <5> QED BY <5>1, <5>2
      <4> QED BY <1>3, <1>4, <3>1, <4>1, <4>2
    <3>2. CASE n # logname
      <4>1. logged'[n] = logged[n] /\ logged[n] \in Seq(Line)
        BY <1>2, <1>4, <3>2
      <4>2. logged[n][i].no < count /\ logged[n][i].no \in Nat
        BY <1>2, <4>1, LineTyped
      <4> QED BY <1>1, <4>1, <4>2
    <3> QED BY <3>1, <3>2
  <2> QED BY <2>1 DEF Numbered
<1>6. d \o Append(buffer, line) = Append(d \o buffer, line)
  <2>1. /\ <<line>> \in Seq(Line) /\ Append(buffer, line) = buffer \o <<line>>
        /\ Append(d \o buffer, line) = (d \o buffer) \o <<line>>
    BY <1>1, AppendIsConcat
  <2>2. Associate(d, buffer, <<line>>)
    BY <1>1, <2>1, ConcatAssociates, Zenon
  <2> QED BY <2>1, <2>2, Zenon DEF Associate
<1>7. Holds(Append(d \o buffer, line), Append(g, line), gap[logname])
  BY <1>1, HoldsAppend
<1> QED BY <1>3, <1>4, <1>5, <1>6, <1>7 DEF g, d

\* The new line makes the log longer by its length, which is no more than the one that counts.
LEMMA NewLength ==
  ASSUME LogInv, NEW line \in Line, NEW size \in Nat, line.len <= size
  PROVE  /\ LengthWith(size) \in Nat
         /\ Size(file[logname] \o Append(buffer, line)) <= LengthWith(size)
<1> DEFINE f == file[logname]
           q == f \o buffer
<1>1. f \in Seq(Line) /\ buffer \in Seq(Line) /\ q \in Seq(Line)
  BY OpenLog, ConcatProperties
<1>2. f \o Append(buffer, line) = Append(q, line)
  <2>1. <<line>> \in Seq(Line) /\ Append(buffer, line) = buffer \o <<line>>
        /\ Append(q, line) = q \o <<line>>
    BY <1>1, AppendIsConcat
  <2>2. Associate(f, buffer, <<line>>)
    <3> HIDE DEF f
    <3> QED BY <1>1, <2>1, ConcatAssociates, Zenon
  <2> QED BY <2>1, <2>2, Zenon DEF Associate
<1>3. Size(Append(q, line)) = Size(q) + line.len
  BY <1>1, SizeOfAppend
<1>4. Size(q) \in Nat /\ Size(f) \in Nat /\ line.len \in Nat
  BY <1>1, SizeTyped DEF Line
<1>5. /\ Size(q) <= (IF pf THEN loglen ELSE Size(Opened))
      /\ (IF pf THEN loglen ELSE Size(Opened)) \in Nat
  <2>1. pf => Size(q) <= loglen /\ loglen \in Nat
    BY DEF LogInv, LogTyped, LogBounded
  <2>2. ~pf => q = f
    <3>1. ~pf => buffer = <<>>
      BY DEF LogInv, LogTyped
    <3> QED BY <1>1, <3>1, ConcatEmptySeq
  <2>3. ~pf => Size(Opened) = Size(q)
    BY <2>2 DEF Opened
  <2> HIDE DEF q, f
  <2> QED BY <1>4, <2>1, <2>3
<1> HIDE DEF q, f
<1>6. LengthWith(size) = (IF pf THEN loglen ELSE Size(Opened)) + size
  BY DEF LengthWith
<1>7. LengthWith(size) \in Nat /\ Size(Append(q, line)) <= LengthWith(size)
  BY <1>3, <1>4, <1>5, <1>6
<1> QED BY <1>2, <1>7 DEF f

LEMMA GrowLogs ==
  ASSUME LogInv, NEW line \in Line, NEW size \in Nat, line.len <= size, Grow(line, size),
         line.no = count, count' = count + 1, UNCHANGED <<logname, logsize>>,
         logged' = [logged EXCEPT ![logname] = Append(@, line)]
  PROVE  LogInv'
<1>1. /\ LengthWith(size) < logsize /\ pf' = TRUE /\ loglen' = LengthWith(size)
      /\ buffer' = Append(buffer, line) /\ file' = file /\ backup' = backup /\ gap' = gap
  BY DEF Grow, Opened, LogInv, LogTyped
<1>2. /\ Numbered' /\ logged' \in [Names -> Seq(Line)]
      /\ \A n \in Names : n # logname => logged'[n] = logged[n]
      /\ Holds((backup[logname] \o file[logname]) \o Append(buffer, line),
               logged'[logname], gap[logname])
  BY LineLogged
<1>3. buffer' \in Seq(Line) /\ count' \in Nat
  BY <1>1, OpenLog, AppendProperties
<1>4. loglen' \in Nat /\ Size(file'[logname'] \o buffer') <= loglen'
  BY <1>1, NewLength
<1>5. LogTyped'
  BY <1>1, <1>2, <1>3, <1>4 DEF LogInv, LogTyped
<1>6. LogHolds'
  BY <1>1, <1>2, OneLogHolds
<1>7. LogBounded'
  BY <1>1, <1>4 DEF LogBounded
<1> QED BY <1>2, <1>5, <1>6, <1>7 DEF LogInv

\* Whichever of close, remove, rename and open fails: what is left of the log and its backup.
LEMMA RotatedHolds ==
  ASSUME NEW b \in Seq(Line), NEW w \in Seq(Line), w # <<>>, NEW c, Cut(c, w),
         NEW h \in Seq(Line), NEW m, Holds(b \o w, h, m),
         NEW renamed \in BOOLEAN, NEW opened \in BOOLEAN, NEW removed \in BOOLEAN
  PROVE  LET back == IF renamed THEN c ELSE IF removed THEN <<>> ELSE b
             log  == IF renamed \/ opened THEN <<>> ELSE c
         IN  Holds((back \o log) \o <<>>, h,
                   IF c # w \/ (opened /\ ~renamed) THEN Len(h) ELSE m)
<1> DEFINE l == IF c # w \/ (opened /\ ~renamed) THEN Len(h) ELSE m
<1>1. c \in Seq(Line) /\ <<>> \in Seq(Line) /\ <<>> \o <<>> = <<>>
  BY EmptySeq, ConcatEmptySeq DEF Cut
<1>2. /\ c \o <<>> = c /\ <<>> \o c = c /\ b \o <<>> = b /\ b \o c \in Seq(Line)
      /\ (b \o c) \o <<>> = b \o c
  <2>1. b \o c \in Seq(Line)
    BY <1>1, ConcatProperties
  <2> QED BY <1>1, <2>1, ConcatEmptySeq
<1>3. CASE opened /\ ~renamed
  <2>1. Holds(b, h, Len(h)) /\ Holds(<<>>, h, Len(h))
    BY HoldsFront, HoldsNone
  <2>2. l = Len(h)
    BY <1>3
  <2> QED BY <1>1, <1>2, <1>3, <2>1, <2>2
<1>4. CASE ~(opened /\ ~renamed)
  <2>1. /\ l = IF c # w THEN Len(h) ELSE m
    BY <1>4
  <2> HIDE DEF l
  <2>2. l \in {m, Len(h)} /\ (c # w => l = Len(h)) /\ (c # <<>> \/ l = Len(h))
    BY <2>1
  <2>3. Holds(b \o c, h, l) /\ Holds(c, h, l)
    BY <2>2, HoldsCut
  <2> QED BY <1>1, <1>2, <1>4, <2>3 DEF l
<1> QED BY <1>3, <1>4

LEMMA RotateLogs ==
  ASSUME LogInv, NEW line \in Line, NEW size \in Nat, Backup(line, size),
         line.no = count, count' = count + 1, UNCHANGED <<logname, logsize>>,
         logged' = [logged EXCEPT ![logname] = Append(@, line)]
  PROVE  LogInv'
<1> DEFINE f == file[logname]
           b == backup[logname]
           u == Append(buffer, line)
           w == f \o u
           h == logged'[logname]
<1>1. PICK removed \in BOOLEAN, renamed \in BOOLEAN, opened \in BOOLEAN, c \in Closed(u) :
        /\ backup' = [backup EXCEPT ![logname] = IF renamed THEN c
                                                 ELSE IF removed THEN <<>> ELSE b]
        /\ file' = [file EXCEPT ![logname] = IF renamed \/ opened THEN <<>> ELSE c]
        /\ pf' = opened
        /\ gap' = [gap EXCEPT ![logname] =
             IF c # w \/ (opened /\ ~renamed) THEN Len(logged[logname]) + 1
             ELSE gap[logname]]
  BY DEF Backup, Opened
<1>2. loglen' = 0 /\ buffer' = <<>>
  BY DEF Backup
<1>3. /\ logname \in Names /\ f \in Seq(Line) /\ b \in Seq(Line) /\ buffer \in Seq(Line)
      /\ count \in Nat /\ gap[logname] \in Nat
  BY OpenLog
<1>4. u \in Seq(Line) /\ u # <<>> /\ w \in Seq(Line) /\ w # <<>> /\ <<>> \in Seq(Line)
  <2>1. u \in Seq(Line) /\ u # <<>>
    BY <1>3, AppendProperties
  <2> HIDE DEF u
  <2> QED BY <1>3, <2>1, EmptySeq, ConcatProperties, ConcatEqualIffEmpty
<1>5. /\ Numbered' /\ logged' \in [Names -> Seq(Line)] /\ h \in Seq(Line)
      /\ Len(logged[logname]) + 1 = Len(h)
      /\ \A n \in Names : n # logname => logged'[n] = logged[n]
      /\ Holds((b \o f) \o u, h, gap[logname])
  BY <1>3, LineLogged
<1>6. Cut(c, w) /\ c \in Seq(Line)
  <2>1. LogTyped
    BY DEF LogInv
  <2> HIDE DEF u
  <2> QED BY <1>4, <2>1, ClosedCut DEF Cut
<1>7. Holds(b \o w, h, gap[logname])
  <2>1. Associate(b, f, u)
    <3> HIDE DEF b, f, u
    <3> QED BY <1>3, <1>4, ConcatAssociates, Zenon
  <2>2. (b \o f) \o u = b \o w
    BY <2>1, Zenon DEF Associate
  <2> HIDE DEF b, f, u, w, h
  <2> QED BY <1>5, <2>2
<1>8. /\ file \in [Names -> Seq(Line)] /\ backup \in [Names -> Seq(Line)]
      /\ gap \in [Names -> Nat] /\ Len(logged[logname]) + 1 \in Nat
      /\ logsize \in Nat \ {0}
  BY <1>3, LenProperties DEF LogInv, LogTyped
<1> HIDE DEF f, b, u, w, h
<1>9. /\ file' \in [Names -> Seq(Line)] /\ backup' \in [Names -> Seq(Line)]
      /\ gap' \in [Names -> Nat]
      /\ file'[logname] = IF renamed \/ opened THEN <<>> ELSE c
      /\ backup'[logname] = IF renamed THEN c ELSE IF removed THEN <<>> ELSE b
      /\ gap'[logname] = IF c # w \/ (opened /\ ~renamed) THEN Len(h) ELSE gap[logname]
      /\ \A n \in Names : n # logname =>
           file'[n] = file[n] /\ backup'[n] = backup[n] /\ gap'[n] = gap[n]
  <2>1. /\ (IF renamed \/ opened THEN <<>> ELSE c) \in Seq(Line)
        /\ (IF renamed THEN c ELSE IF removed THEN <<>> ELSE b) \in Seq(Line)
    BY <1>3, <1>4, <1>6
  <2> QED BY <1>1, <1>3, <1>5, <1>8, <2>1
<1>10. LogTyped'
  BY <1>1, <1>2, <1>3, <1>4, <1>5, <1>9 DEF LogInv, LogTyped
<1>11. LogHolds'
  <2>1. Holds((backup'[logname] \o file'[logname]) \o <<>>, h, gap'[logname])
    BY <1>3, <1>4, <1>5, <1>6, <1>7, <1>9, RotatedHolds
  <2> QED BY <1>2, <1>5, <1>9, <2>1, OneLogHolds DEF h
<1>12. LogBounded'
  <2>1. CASE opened
    <3>1. file'[logname] = <<>> /\ <<>> \o <<>> = <<>>
      BY <1>4, <1>9, <2>1, ConcatEmptySeq
    <3> QED BY <1>2, <1>8, <3>1, SizeOfNone DEF LogBounded
  <2>2. CASE ~opened
    BY <1>1, <2>2 DEF LogBounded
  <2> QED BY <2>1, <2>2
<1> QED BY <1>5, <1>10, <1>11, <1>12 DEF LogInv

\* Closing the log: stdio writes what it has, or fails to.
LEMMA LogCtlLogs ==
  ASSUME LogInv, LogCtl
  PROVE  LogInv'
<1> DEFINE f == file[logname]
           b == backup[logname]
           g == logged[logname]
           w == f \o buffer
<1>1. /\ logname' \in Names /\ logsize' \in Nat \ {0} /\ pf' = FALSE /\ buffer' = <<>>
      /\ UNCHANGED <<loglen, backup, logged, count>>
  BY TraceAssumption DEF LogCtl
<1>2. PICK c \in Closed(buffer) :
        /\ file' = [file EXCEPT ![logname] = c]
        /\ gap' = [gap EXCEPT ![logname] = IF c # w THEN Len(g) ELSE gap[logname]]
  BY DEF LogCtl, Opened
<1>3. /\ logname \in Names /\ f \in Seq(Line) /\ b \in Seq(Line) /\ g \in Seq(Line)
      /\ buffer \in Seq(Line) /\ w \in Seq(Line) /\ <<>> \in Seq(Line)
      /\ Holds((b \o f) \o buffer, g, gap[logname])
      /\ gap[logname] \in Nat /\ Len(g) \in Nat
  BY OpenLog, ConcatProperties, EmptySeq, LenProperties
<1>4. Cut(c, w) /\ c \in Seq(Line)
  <2>1. LogTyped
    BY DEF LogInv
  <2> QED BY <1>3, <2>1, ClosedCut DEF Cut
<1>5. Holds(b \o w, g, gap[logname])
  <2>1. Associate(b, f, buffer)
    <3> HIDE DEF b, f
    <3> QED BY <1>3, ConcatAssociates, Zenon
  <2>2. (b \o f) \o buffer = b \o w
    BY <2>1, Zenon DEF Associate
  <2> HIDE DEF b, f, w, g
  <2> QED BY <1>3, <2>2
<1>6. file \in [Names -> Seq(Line)] /\ gap \in [Names -> Nat]
  BY DEF LogInv, LogTyped
<1> HIDE DEF f, w, g
<1>7. /\ file' \in [Names -> Seq(Line)] /\ gap' \in [Names -> Nat]
      /\ file'[logname] = c /\ gap'[logname] = IF c # w THEN Len(g) ELSE gap[logname]
      /\ \A n \in Names : n # logname => file'[n] = file[n] /\ gap'[n] = gap[n]
  BY <1>2, <1>3, <1>4, <1>6
<1>8. LogTyped'
  BY <1>1, <1>3, <1>7 DEF LogInv, LogTyped
<1>9. LogHolds'
  <2>1. Holds(b \o c, g, gap'[logname])
    <3>1. gap'[logname] \in {gap[logname], Len(g)} /\ (c # w => gap'[logname] = Len(g))
      BY <1>7
    <3> HIDE DEF b
    <3> QED BY <1>3, <1>4, <1>5, <3>1, HoldsCut
  <2>2. (b \o c) \o <<>> = b \o c
    <3>1. b \o c \in Seq(Line)
      BY <1>3, <1>4, ConcatProperties
    <3> QED BY <3>1, ConcatEmptySeq
  <2>3. Holds((backup'[logname] \o file'[logname]) \o buffer', logged'[logname], gap'[logname])
    BY <1>1, <1>7, <2>1, <2>2 DEF g
  <2> QED BY <1>1, <1>7, <2>3, OneLogHolds
<1>10. Numbered'
  BY <1>1 DEF LogInv, Numbered
<1> QED BY <1>1, <1>8, <1>9, <1>10 DEF LogInv, LogBounded

\* Flushing it.
LEMMA LogFlushLogs ==
  ASSUME LogInv, LogFlush
  PROVE  LogInv'
<1> DEFINE f == file[logname]
           b == backup[logname]
           w == f \o buffer
<1>1. /\ file' = [file EXCEPT ![logname] = w] /\ buffer' = <<>>
      /\ UNCHANGED <<logname, logsize, loglen, pf, backup, logged, gap, count>>
  BY DEF LogFlush
<1>2. /\ logname \in Names /\ f \in Seq(Line) /\ b \in Seq(Line) /\ buffer \in Seq(Line)
      /\ w \in Seq(Line) /\ <<>> \in Seq(Line)
      /\ Holds((b \o f) \o buffer, logged[logname], gap[logname])
  BY OpenLog, ConcatProperties, EmptySeq
<1>3. file \in [Names -> Seq(Line)]
  BY DEF LogInv, LogTyped
<1>4. (b \o f) \o buffer = (b \o w) \o <<>>
  <2>1. Associate(b, f, buffer)
    <3> HIDE DEF b, f
    <3> QED BY <1>2, ConcatAssociates, Zenon
  <2>2. (b \o f) \o buffer = b \o w
    BY <2>1, Zenon DEF Associate
  <2>3. b \o w \in Seq(Line)
    BY <1>2, ConcatProperties
  <2> HIDE DEF b, f, w
  <2> QED BY <2>2, <2>3, ConcatEmptySeq
<1>5. w \o <<>> = w
  BY <1>2, ConcatEmptySeq
<1>6. pf => Size(w) <= loglen /\ loglen < logsize
  BY DEF LogInv, LogBounded
<1> HIDE DEF w
<1>7. /\ file' \in [Names -> Seq(Line)] /\ file'[logname] = w
      /\ \A n \in Names : n # logname => file'[n] = file[n]
  BY <1>1, <1>2, <1>3
<1>8. LogTyped' /\ Numbered'
  BY <1>1, <1>2, <1>7 DEF LogInv, LogTyped, Numbered
<1>9. LogHolds'
  <2>1. Holds((backup'[logname] \o file'[logname]) \o buffer', logged'[logname], gap'[logname])
    BY <1>1, <1>2, <1>4, <1>7
  <2> QED BY <1>1, <1>7, <2>1, OneLogHolds
<1>10. LogBounded'
  BY <1>1, <1>5, <1>6, <1>7 DEF LogBounded
<1> QED BY <1>8, <1>9, <1>10 DEF LogInv

\* What stdio had is lost to the log that was open.
LEMMA CrashLogs ==
  ASSUME LogInv, Crash
  PROVE  LogInv'
<1> DEFINE g == logged[logname]
           d == backup[logname] \o file[logname]
<1>1. /\ logname' = DefaultName /\ logsize' = DefaultSize /\ loglen' = 0
      /\ pf' = FALSE /\ buffer' = <<>> /\ UNCHANGED <<file, backup, logged, count>>
      /\ gap' = [gap EXCEPT ![logname] = IF buffer # <<>> THEN Len(g) ELSE gap[logname]]
  BY DEF Crash, Restarted
<1>2. /\ logname \in Names /\ d \in Seq(Line) /\ g \in Seq(Line) /\ buffer \in Seq(Line)
      /\ Holds(d \o buffer, g, gap[logname]) /\ <<>> \in Seq(Line)
      /\ gap[logname] \in Nat /\ Len(g) \in Nat
  BY OpenLog, ConcatProperties, EmptySeq, LenProperties
<1>3. gap \in [Names -> Nat]
  BY DEF LogInv, LogTyped
<1> HIDE DEF g, d
<1>4. /\ gap' \in [Names -> Nat]
      /\ gap'[logname] = IF buffer # <<>> THEN Len(g) ELSE gap[logname]
      /\ \A n \in Names : n # logname => gap'[n] = gap[n]
  BY <1>1, <1>2, <1>3
<1>5. Holds(d \o <<>>, g, gap'[logname])
  <2>1. CASE buffer = <<>>
    BY <1>2, <1>4, <2>1
  <2>2. CASE buffer # <<>>
    <3>1. Holds(d, g, Len(g)) /\ d \o <<>> = d
      BY <1>2, HoldsFront, ConcatEmptySeq
    <3> QED BY <1>4, <2>2, <3>1
  <2> QED BY <2>1, <2>2
<1>6. LogTyped'
  BY <1>1, <1>2, <1>4, TraceAssumption DEF LogInv, LogTyped
<1>7. LogHolds'
  <2>1. Holds((backup'[logname] \o file'[logname]) \o buffer', logged'[logname], gap'[logname])
    BY <1>1, <1>5 DEF g, d
  <2> QED BY <1>1, <1>4, <2>1, OneLogHolds
<1>8. Numbered'
  BY <1>1 DEF LogInv, Numbered
<1> QED BY <1>1, <1>6, <1>7, <1>8 DEF LogInv, LogBounded

LEMMA LogLogs ==
  ASSUME LogInv, NEW size \in Nat, Log(size)
  PROVE  LogInv'
<1> DEFINE line == [no |-> count, len |-> Text(size)]
<1>1. Text(size) \in Nat /\ Text(size) <= size
  BY TraceAssumption DEF Text
<1>2. /\ line \in Line /\ line.no = count /\ line.len <= size
      /\ count \in Nat /\ count' = count + 1 /\ UNCHANGED <<logname, logsize>>
  BY <1>1 DEF LogInv, LogTyped, Line, Log
<1>3. \/ ~pf /\ UNCHANGED <<loglen, pf, file, buffer, backup, logged, gap>>
      \/ /\ Grow(line, size) \/ Backup(line, size)
         /\ logged' = [logged EXCEPT ![logname] = Append(@, line)]
  BY DEF Log
<1> HIDE DEF line
<1>4. CASE ~pf /\ UNCHANGED <<loglen, pf, file, buffer, backup, logged, gap>>
  <2>1. LogTyped' /\ LogBounded'
    BY <1>2, <1>4 DEF LogInv, LogTyped, LogBounded
  <2>2. Numbered'
    <3>1. ASSUME NEW n \in Names, NEW i \in 1..Len(logged[n])
          PROVE  logged[n][i].no < count + 1
      <4>1. logged[n] \in Seq(Line) /\ logged[n][i].no < count
        BY DEF LogInv, LogTyped, Numbered
      <4>2. logged[n][i].no \in Nat
        BY <4>1, LineTyped
      <4> QED BY <1>2, <4>1, <4>2
    <3> QED BY <1>2, <1>4, <3>1 DEF Numbered
  <2>3. LogHolds'
    BY <1>2, <1>4 DEF LogInv, LogHolds, Unwritten
  <2> QED BY <2>1, <2>2, <2>3 DEF LogInv
<1> QED BY <1>2, <1>3, <1>4, GrowLogs, RotateLogs

LEMMA NextLogs == LogInv /\ [TraceNext]_traceVars => LogInv'
<1> SUFFICES ASSUME LogInv, [TraceNext]_traceVars
             PROVE  LogInv'
  OBVIOUS
<1>1. CASE UNCHANGED traceVars
  BY <1>1, FrameLogs DEF traceVars
<1>2. ASSUME NEW f, Reg(f) PROVE LogInv'
  BY <1>2, FrameLogs DEF Reg
<1>3. ASSUME NEW f, Ctl(f) PROVE LogInv'
  BY <1>3, FrameLogs DEF Ctl
<1>4. CASE Reg0copy
  BY <1>4, <1>2 DEF Reg0copy
<1>5. ASSUME NEW severity, NEW size \in Nat, Trace(severity, size) PROVE LogInv'
  BY <1>5, LogLogs DEF Trace
<1>6. CASE Zdbgx \/ Zmsgx \/ Zwarx \/ Zerrx \/ Zinfx \/ Zorg
  <2>1. 1 \in Nat /\ 2 \in Nat /\ BufLen + 1 \in Nat
    BY TraceAssumption
  <2>2. \E severity \in Severities, size \in {1, 2, BufLen + 1} : Trace(severity, size)
    BY <1>6 DEF Zdbgx, Zmsgx, Zwarx, Zerrx, Zinfx, Zorg, Severities
  <2> QED BY <1>5, <2>1, <2>2
<1>7. CASE LogCtl
  BY <1>7, LogCtlLogs
<1>8. CASE LogFlush
  BY <1>8, LogFlushLogs
<1>9. CASE Crash
  BY <1>9, CrashLogs
<1> QED BY <1>1, <1>2, <1>3, <1>4, <1>6, <1>7, <1>8, <1>9 DEF TraceNext

LEMMA LogsKept == TraceSpec => []LogInv
  BY InitLogs, NextLogs, PTL DEF TraceSpec

\* The log and its backup hold lines that were logged, in their order, and since a crash or a
\* failing call last lost some, the last ones without a gap, whatever the names and sizes
\* (tracelog.c:35-98).  After such a loss the newest lines may be missing.
THEOREM LastLinesKept == TraceSpec => []LogSuffix
<1>1. LogInv => LogSuffix
  <2> SUFFICES ASSUME LogInv, NEW n \in Names
               PROVE  LET kept == Kept(n)
                      IN  /\ IsSuffix(kept, Since(n)) \/ IsSuffix(Since(n), kept)
                          /\ kept = <<>> => Since(n) = <<>>
                          /\ \A i \in DOMAIN kept :
                               \E j \in DOMAIN logged[n] : kept[i] = logged[n][j]
                          /\ \A i, j \in DOMAIN kept : i < j => kept[i].no < kept[j].no
    BY DEF LogSuffix
  <2> DEFINE k == Kept(n)
  <2>1. /\ logged[n] \in Seq(Line) /\ backup[n] \o file[n] \in Seq(Line)
        /\ Unwritten(n) \in Seq(Line)
    BY EmptySeq, ConcatProperties DEF LogInv, LogTyped, Unwritten
  <2>2. k = (backup[n] \o file[n]) \o Unwritten(n)
    BY DEF Kept, Unwritten
  <2>3. k \in Seq(Line)
    BY <2>1, <2>2, ConcatProperties
  <2>4. Holds(k, logged[n], gap[n])
    BY <2>2 DEF LogInv, LogHolds
  <2> HIDE DEF k
  <2>5. /\ IsSuffix(k, Since(n)) \/ IsSuffix(Since(n), k)
        /\ k = <<>> => Since(n) = <<>>
    BY <2>1, <2>3, <2>4, HoldsIsSuffix DEF Since
  <2>6. DOMAIN k = 1..Len(k) /\ DOMAIN logged[n] = 1..Len(logged[n])
    BY <2>1, <2>3, LenProperties
  <2>7. /\ \A i \in DOMAIN k : \E j \in DOMAIN logged[n] : k[i] = logged[n][j]
        /\ \A i, j \in DOMAIN k : i < j => k[i].no < k[j].no
    BY <2>4, <2>6 DEF Holds
  <2> QED BY <2>5, <2>7 DEF k
<1> QED BY <1>1, LogsKept, PTL

\* An open log is shorter than its size: zg_loglen, which is at least its length, is below it,
\* for any legal sizes, any changes of name and size, and texts longer than the buffer
\* (tracelog.c:35-64, trace.c:309-311).
THEOREM LogStaysBounded == TraceSpec => []LogBounded
<1>1. LogInv => LogBounded
  BY DEF LogInv
<1> QED BY <1>1, LogsKept, PTL

-----------------------------------------------------------------------------
(* The network.                                                            *)

Byte == Nat \X {"time", "level", "text", "newline"}

Typed ==
  /\ lines \in Nat
  /\ sending \in Seq(Byte) /\ given \in Seq(Byte)
  /\ pipe \in Seq(Byte) /\ shown \in Seq(Byte)

Ordered == Typed /\ LinesInOrder

LEMMA PrefixOfConcat ==
  ASSUME NEW S, NEW s \in Seq(S), NEW t \in Seq(S)
  PROVE  IsPrefix(s, s \o t)
  <1>1. Len(s) \in Nat /\ Len(t) \in Nat /\ Len(s \o t) = Len(s) + Len(t)
    BY LenProperties, ConcatProperties
  <1>2. CASE Len(s) = 0
    BY <1>1, <1>2, SubSeqEmpty DEF IsPrefix
  <1>3. CASE Len(s) > 0
    <2>1. SubSeq(s \o t, 1, Len(s)) = SubSeq(s, 1, Len(s))
      BY <1>1, <1>3, SubSeqOfConcat1
    <2> QED
      BY <1>1, <2>1 DEF IsPrefix
  <1> QED
    BY <1>1, <1>2, <1>3

LEMMA PrefixExtended ==
  ASSUME NEW S, NEW s \in Seq(S), NEW g \in Seq(S), NEW t \in Seq(S), IsPrefix(s, g)
  PROVE  IsPrefix(s, g \o t)
  <1>1. /\ Len(s) \in Nat /\ Len(t) \in Nat /\ Len(g) \in Nat /\ Len(s) <= Len(g)
        /\ Len(g \o t) = Len(g) + Len(t)
    BY LenProperties, ConcatProperties DEF IsPrefix
  <1>2. CASE Len(s) = 0
    BY <1>1, <1>2, SubSeqEmpty DEF IsPrefix
  <1>3. CASE Len(s) > 0
    <2>1. SubSeq(g \o t, 1, Len(s)) = SubSeq(g, 1, Len(s))
      BY <1>1, <1>3, SubSeqOfConcat1
    <2> QED
      BY <1>1, <2>1 DEF IsPrefix
  <1> QED
    BY <1>1, <1>2, <1>3

\* Four sequences in a row: the two in the middle may be joined first.
Regrouped(a, b, c, d) == (a \o b) \o (c \o d) = (a \o (b \o c)) \o d

LEMMA ConcatRegrouped == \A S : \A a, b, c, d \in Seq(S) : Regrouped(a, b, c, d)
  <1> SUFFICES ASSUME NEW S, NEW a \in Seq(S), NEW b \in Seq(S), NEW c \in Seq(S),
                      NEW d \in Seq(S)
               PROVE  Regrouped(a, b, c, d)
    OBVIOUS
  <1>1. a \o b \in Seq(S)
    BY ConcatProperties
  <1>2. Associate(a \o b, c, d) /\ Associate(a, b, c)
    BY <1>1, ConcatAssociates, Zenon
  <1>3. (a \o b) \o c = a \o (b \o c)
    BY <1>2, Zenon DEF Associate
  <1>4. ((a \o b) \o c) \o d = (a \o b) \o (c \o d)
    BY <1>2, Zenon DEF Associate
  <1> QED
    BY <1>3, <1>4, Zenon DEF Regrouped

\* A send takes no more than there is.
LEMMA PieceBounded ==
  ASSUME NEW S, sending \in Seq(S)
  PROVE  PieceLength \in 0..Len(sending)
  <1> DEFINE all == 1..Len(sending)
             piece == {i \in DOMAIN sending : sending[i] = Head(sending)}
  <1>1. Len(sending) \in Nat /\ DOMAIN sending = all
    BY LenProperties
  <1>2. IsFiniteSet(all) /\ Cardinality(all) = Len(sending)
    BY <1>1, FS_Interval
  <1>3. piece \subseteq all
    BY <1>1
  <1>4. IsFiniteSet(piece) /\ Cardinality(piece) <= Cardinality(all)
    BY <1>2, <1>3, FS_Subset
  <1>5. Cardinality(piece) \in Nat
    BY <1>4, FS_CardinalityType
  <1> QED
    BY <1>1, <1>2, <1>4, <1>5 DEF PieceLength

LEMMA PiecesTyped ==
  ASSUME NEW n \in Nat
  PROVE  Pieces(n) \in Seq(Byte)
  BY DEF Pieces, Byte

\* Steps that leave the bytes where they are.
LEMMA FrameOrdered ==
  ASSUME Ordered, UNCHANGED <<sending, lines, given, pipe, shown>>,
         conn' # "none" => conn # "none"
  PROVE  Ordered'
  BY DEF Ordered, Typed, LinesInOrder, IsPrefix

\* A new connection has been given nothing.
LEMMA NetctlOrdered ==
  ASSUME Ordered, Netctl
  PROVE  Ordered'
  <1>1. /\ given' = <<>> /\ shown' = <<>> /\ pipe' = <<>> /\ sending' = <<>>
        /\ lines' = lines
    BY DEF Netctl
  <1>2. <<>> \in Seq(Byte) /\ <<>> \o <<>> = <<>>
    BY EmptySeq, ConcatEmptySeq
  <1>3. Typed'
    BY <1>1, <1>2 DEF Typed, Ordered
  <1>4. IsPrefix(<<>>, <<>>)
    BY <1>2, PrefixOfConcat
  <1> QED
    BY <1>1, <1>2, <1>3, <1>4 DEF Ordered, LinesInOrder

\* A line is given to the connection as a whole, when nothing is left of the line before.
LEMMA TraceLineOrdered ==
  ASSUME Ordered, TraceLine
  PROVE  Ordered'
  <1>1. CASE logfd # "open"
    <2>1. Ordered /\ UNCHANGED <<sending, given, pipe, shown, conn>> /\ lines' \in Nat
      BY <1>1 DEF TraceLine, Ordered, Typed
    <2> QED
      BY <2>1 DEF Ordered, Typed, LinesInOrder, IsPrefix
  <1>2. CASE logfd = "open"
    <2>1. /\ sending = <<>> /\ given' = given \o sending'
          /\ UNCHANGED <<conn, pipe, shown>>
      BY <1>2 DEF TraceLine
    <2>2. lines' \in Nat /\ sending' \in Seq(Byte)
      BY <1>2, PiecesTyped DEF TraceLine, Ordered, Typed
    <2>3. given \in Seq(Byte) /\ shown \o pipe \in Seq(Byte)
      BY ConcatProperties DEF Ordered, Typed
    <2>4. Typed'
      BY <2>1, <2>2, <2>3, ConcatProperties DEF Ordered, Typed
    <2>5. IsPrefix(shown \o pipe, given \o sending')
      BY <2>2, <2>3, PrefixExtended DEF Ordered, LinesInOrder
    <2>6. conn # "none" => given = shown \o pipe
      BY <2>1, <2>3, ConcatEmptySeq DEF Ordered, LinesInOrder
    <2> QED
      BY <2>1, <2>4, <2>5, <2>6 DEF Ordered, LinesInOrder
  <1> QED
    BY <1>1, <1>2

\* What a send takes moves from the line to the connection.
LEMMA NetSendOrdered ==
  ASSUME Ordered, NetSend
  PROVE  Ordered'
  <1>1. PICK n \in 1..PieceLength : /\ pipe' = pipe \o SubSeq(sending, 1, n)
                                    /\ sending' = Rest(n)
    BY DEF NetSend
  <1> DEFINE taken == SubSeq(sending, 1, n)
             left == SubSeq(sending, n + 1, Len(sending))
  <1>2. conn # "none" /\ UNCHANGED <<lines, given, conn, shown>>
    BY DEF NetSend, Reachable
  <1>3. /\ given \in Seq(Byte) /\ shown \in Seq(Byte) /\ pipe \in Seq(Byte)
        /\ sending \in Seq(Byte) /\ lines \in Nat
    BY DEF Ordered, Typed
  <1>4. Len(sending) \in Nat /\ n \in 1..Len(sending)
    BY <1>3, PieceBounded, LenProperties
  <1>5. \A i \in 1..Len(sending) : sending[i] \in Byte
    BY <1>3, ElementOfSeq
  <1>6. taken \in Seq(Byte) /\ left \in Seq(Byte)
    BY <1>4, <1>5, SubSeqProperties
  <1>7. taken \o left = sending
    BY <1>3, <1>4, ConcatAdjacentSubSeq, SubSeqFull
  <1>8. given = (shown \o pipe) \o (taken \o left)
    BY <1>2, <1>7 DEF Ordered, LinesInOrder
  <1>9. pipe' = pipe \o taken /\ sending' = left
    BY <1>1 DEF Rest
  <1> HIDE DEF taken, left
  <1>10. /\ shown \o pipe \in Seq(Byte) /\ pipe \o taken \in Seq(Byte)
         /\ shown \o (pipe \o taken) \in Seq(Byte)
    BY <1>3, <1>6, ConcatProperties
  <1>11. (shown \o pipe) \o (taken \o left) = (shown \o (pipe \o taken)) \o left
    <2>1. Regrouped(shown, pipe, taken, left)
      BY <1>3, <1>6, ConcatRegrouped, Zenon
    <2> QED
      BY <2>1, Zenon DEF Regrouped
  <1>12. given' = (shown' \o pipe') \o sending'
    BY <1>2, <1>8, <1>9, <1>11
  <1>13. IsPrefix(shown' \o pipe', given')
    BY <1>2, <1>6, <1>9, <1>10, <1>12, PrefixOfConcat
  <1>14. Typed'
    BY <1>2, <1>3, <1>6, <1>9, <1>10 DEF Typed
  <1> QED
    BY <1>12, <1>13, <1>14 DEF Ordered, LinesInOrder

\* What is dropped with a broken connection is the end of what was given.
LEMMA NetSendFailsOrdered ==
  ASSUME Ordered, NetSendFails \/ NetSendKills
  PROVE  Ordered'
  BY EmptySeq DEF NetSendFails, NetSendKills, Drop, Reachable, Ordered, Typed, LinesInOrder, IsPrefix

\* What is received moves from the connection to what is shown.
LEMMA ReceiveOrdered ==
  ASSUME Ordered, Receive
  PROVE  Ordered'
  <1>1. /\ shown' = shown \o pipe /\ pipe' = <<>>
        /\ UNCHANGED <<sending, lines, given, conn>>
    BY DEF Receive, senderVars
  <1>2. shown \o pipe \in Seq(Byte) /\ <<>> \in Seq(Byte)
    BY ConcatProperties, EmptySeq DEF Ordered, Typed
  <1>3. shown' \o pipe' = shown \o pipe
    BY <1>1, <1>2, ConcatEmptySeq
  <1>4. Typed'
    BY <1>1, <1>2 DEF Ordered, Typed
  <1>5. IsPrefix(shown' \o pipe', given')
    BY <1>1, <1>3 DEF Ordered, LinesInOrder
  <1> QED
    BY <1>1, <1>3, <1>4, <1>5 DEF Ordered, LinesInOrder

\* The server shows the lines in their order and without a gap, for any lines, any capacity
\* of the connection and wherever sends are cut or connections broken (tracenet.c:27-73,
\* 155-186, 235-294).
THEOREM OrderOfLines == NetSpec => []LinesInOrder
  <1>1. NetInit => Ordered
    <2>1. <<>> \in Seq(Byte) /\ <<>> \o <<>> = <<>>
      BY EmptySeq, ConcatEmptySeq
    <2>2. IsPrefix(<<>>, <<>>)
      BY <2>1, PrefixOfConcat
    <2> SUFFICES ASSUME NetInit
                 PROVE  Ordered
      OBVIOUS
    <2>3. /\ sending = <<>> /\ given = <<>> /\ pipe = <<>> /\ shown = <<>>
          /\ lines \in Nat /\ conn = "none"
      BY DEF NetInit
    <2>4. Typed
      BY <2>1, <2>3 DEF Typed
    <2> QED
      BY <2>1, <2>2, <2>3, <2>4 DEF Ordered, LinesInOrder
  <1>2. Ordered /\ [NetNext]_netVars => Ordered'
    <2> SUFFICES ASSUME Ordered, [NetNext]_netVars
                 PROVE  Ordered'
      OBVIOUS
    <2>1. CASE NetstopSender \/ Netserver \/ NetstopServer \/ ServerSocket
      BY <2>1, FrameOrdered DEF NetstopSender, Netserver, NetstopServer, ServerSocket, senderVars
    <2>2. CASE Accept \/ Ended \/ Leave \/ Close \/ Exit
      BY <2>2, FrameOrdered DEF Accept, Ended, Leave, Close, Exit, senderVars
    <2>3. CASE UNCHANGED netVars
      BY <2>3, FrameOrdered DEF netVars, senderVars
    <2> QED
      BY <2>1, <2>2, <2>3, NetctlOrdered, TraceLineOrdered, NetSendOrdered,
         NetSendFailsOrdered, ReceiveOrdered DEF NetNext
  <1>3. Ordered => LinesInOrder
    BY DEF Ordered
  <1> QED
    BY <1>1, <1>2, <1>3, PTL DEF NetSpec

-----------------------------------------------------------------------------
(***************************************************************************)
(* Bytes with packets in them.  In the bytes b[lo] .. b[hi - 1] the        *)
(* packets are those of P[m + 1] .. P[m + n]: f says where each begins,    *)
(* and there is no flag but theirs.                                        *)
(***************************************************************************)
Framed(b, lo, hi, P, m, n, f) ==
  /\ f \in [1..n -> Int]
  /\ \A i \in 1..n : /\ lo <= f[i] /\ f[i] + 2 < hi
                     /\ b[f[i]] = Flag /\ b[f[i] + 1] = P[m + i] /\ b[f[i] + 2] = Flag
  /\ \A i, j \in 1..n : i < j => f[i] + 3 <= f[j]
  /\ \A k \in lo..hi - 1 : b[k] = Flag => \E i \in 1..n : k = f[i] \/ k = f[i] + 2

Frames(b, lo, hi, P, m, n) == \E f : Framed(b, lo, hi, P, m, n, f)

\* Bytes moved by d, and the numbers of the packets by c.
LEMMA FramesMoved ==
  ASSUME NEW b, NEW lo \in Int, NEW hi \in Int, NEW P, NEW m \in Int, NEW n \in Nat,
         Frames(b, lo, hi, P, m, n),
         NEW g, NEW Q, NEW d \in Int, NEW c \in Int,
         \A k \in lo..hi - 1 : g[k + d] = b[k],
         \A i \in m + 1..m + n : Q[i + c] = P[i]
  PROVE  Frames(g, lo + d, hi + d, Q, m + c, n)
  <1>1. PICK f : Framed(b, lo, hi, P, m, n, f)
    BY DEF Frames
  <1> DEFINE h == [i \in 1..n |-> f[i] + d]
  <1>2. f \in [1..n -> Int] /\ \A i \in 1..n : f[i] \in Int
    BY <1>1 DEF Framed
  <1>3. h \in [1..n -> Int] /\ \A i \in 1..n : h[i] = f[i] + d
    BY <1>2
  <1> HIDE DEF h
  <1>4. ASSUME NEW i \in 1..n
        PROVE  /\ lo + d <= h[i] /\ h[i] + 2 < hi + d
               /\ g[h[i]] = Flag /\ g[h[i] + 1] = Q[(m + c) + i] /\ g[h[i] + 2] = Flag
    <2>1. /\ lo <= f[i] /\ f[i] + 2 < hi
          /\ b[f[i]] = Flag /\ b[f[i] + 1] = P[m + i] /\ b[f[i] + 2] = Flag
      BY <1>1 DEF Framed
    <2>2. f[i] \in lo..hi - 1 /\ f[i] + 1 \in lo..hi - 1 /\ f[i] + 2 \in lo..hi - 1
      <3>1. f[i] \in Int
        BY <1>2
      <3>2. lo <= f[i] /\ f[i] + 2 < hi
        BY <2>1
      <3> QED
        BY <3>1, <3>2
    <2>3. /\ g[f[i] + d] = b[f[i]] /\ g[(f[i] + 1) + d] = b[f[i] + 1]
          /\ g[(f[i] + 2) + d] = b[f[i] + 2]
      BY <2>2
    <2>4. /\ h[i] = f[i] + d /\ h[i] + 1 = (f[i] + 1) + d /\ h[i] + 2 = (f[i] + 2) + d
          /\ lo + d <= h[i] /\ h[i] + 2 < hi + d
      <3>1. PICK x \in Int : x = f[i]
        BY <1>2
      <3>2. h[i] = x + d /\ lo <= x /\ x + 2 < hi
        BY <1>3, <2>1, <3>1
      <3> QED
        BY <3>1, <3>2
    <2>5. m + i \in m + 1..m + n /\ (m + c) + i = (m + i) + c
      OBVIOUS
    <2>6. Q[(m + c) + i] = P[m + i]
      BY <2>5
    <2> QED
      BY <2>1, <2>3, <2>4, <2>6
  <1>5. ASSUME NEW i \in 1..n, NEW j \in 1..n, i < j
        PROVE  h[i] + 3 <= h[j]
    <2>1. f[i] + 3 <= f[j]
      BY <1>1, <1>5 DEF Framed
    <2>2. f[i] \in Int /\ f[j] \in Int /\ h[i] = f[i] + d /\ h[j] = f[j] + d
      BY <1>2, <1>3
    <2> QED
      BY <2>1, <2>2
  <1>6. ASSUME NEW k \in lo + d..(hi + d) - 1, g[k] = Flag
        PROVE  \E i \in 1..n : k = h[i] \/ k = h[i] + 2
    <2>1. k - d \in lo..hi - 1 /\ k = (k - d) + d
      OBVIOUS
    <2>2. b[k - d] = Flag
      BY <1>6, <2>1
    <2>3. PICK i \in 1..n : k - d = f[i] \/ k - d = f[i] + 2
      BY <1>1, <2>1, <2>2 DEF Framed
    <2> QED
      BY <1>2, <1>3, <2>3
  <1>7. Framed(g, lo + d, hi + d, Q, m + c, n, h)
    BY <1>3, <1>4, <1>5, <1>6, Zenon DEF Framed
  <1> QED
    BY <1>7 DEF Frames

LEMMA FramesSame ==
  ASSUME NEW b, NEW lo \in Int, NEW hi \in Int, NEW P, NEW m \in Int, NEW n \in Nat,
         Frames(b, lo, hi, P, m, n),
         NEW g, NEW Q,
         \A k \in lo..hi - 1 : g[k] = b[k],
         \A i \in m + 1..m + n : Q[i] = P[i]
  PROVE  Frames(g, lo, hi, Q, m, n)
  <1>1. PICK z \in Int : z = 0
    OBVIOUS
  <1>2. \A k \in lo..hi - 1 : g[k + z] = b[k]
    BY <1>1
  <1>3. \A i \in m + 1..m + n : Q[i + z] = P[i]
    BY <1>1
  <1>4. Frames(g, lo + z, hi + z, Q, m + z, n)
    BY <1>2, <1>3, FramesMoved
  <1>5. lo + z = lo /\ hi + z = hi /\ m + z = m
    BY <1>1
  <1> QED
    BY <1>4, <1>5

\* Bytes with and without a packet.
LEMMA NoFrames ==
  ASSUME NEW b, NEW lo \in Int, NEW hi \in Int, NEW P, NEW m
  PROVE  Frames(b, lo, hi, P, m, 0) <=> \A k \in lo..hi - 1 : b[k] # Flag
  <1>1. 1..0 = {}
    OBVIOUS
  <1>2. ASSUME NEW f, Framed(b, lo, hi, P, m, 0, f)
        PROVE  \A k \in lo..hi - 1 : b[k] # Flag
    BY <1>1, <1>2 DEF Framed
  <1>3. ASSUME \A k \in lo..hi - 1 : b[k] # Flag
        PROVE  Framed(b, lo, hi, P, m, 0, [i \in 1..0 |-> 0])
    BY <1>1, <1>3 DEF Framed
  <1> QED
    BY <1>2, <1>3 DEF Frames

LEMMA OneFrame ==
  ASSUME NEW b, NEW lo \in Int, NEW hi \in Int, NEW P, NEW m \in Int, lo + 2 < hi,
         P[m + 1] # Flag,
         b[lo] = Flag, b[lo + 1] = P[m + 1], b[lo + 2] = Flag,
         \A k \in lo + 3..hi - 1 : b[k] # Flag
  PROVE  Frames(b, lo, hi, P, m, 1)
  <1> DEFINE f == [i \in 1..1 |-> lo]
  <1>1. f \in [1..1 -> Int] /\ \A i \in 1..1 : i = 1 /\ f[i] = lo
    OBVIOUS
  <1> HIDE DEF f
  <1>2. ASSUME NEW k \in lo..hi - 1, b[k] = Flag
        PROVE  k = lo \/ k = lo + 2
    <2>1. k \in lo + 3..hi - 1 \/ k = lo + 1 \/ k = lo \/ k = lo + 2
      OBVIOUS
    <2> QED
      BY <1>2, <2>1
  <1>3. 1 \in 1..1
    OBVIOUS
  <1>4. \A k \in lo..hi - 1 : b[k] = Flag => \E i \in 1..1 : k = f[i] \/ k = f[i] + 2
    BY <1>1, <1>2, <1>3
  <1>5. \A i, j \in 1..1 : ~(i < j)
    BY <1>1
  <1>6. Framed(b, lo, hi, P, m, 1, f)
    BY <1>1, <1>4, <1>5 DEF Framed
  <1> QED
    BY <1>6 DEF Frames

\* The first packet and the rest.
LEMMA FirstFrame ==
  ASSUME NEW b, NEW lo \in Int, NEW hi \in Int, NEW P, NEW m \in Int, NEW n \in Nat, n # 0,
         Frames(b, lo, hi, P, m, n)
  PROVE  \E x \in Int : /\ lo <= x /\ x + 2 < hi
                        /\ b[x] = Flag /\ b[x + 1] = P[m + 1] /\ b[x + 2] = Flag
                        /\ \A k \in lo..x - 1 : b[k] # Flag
                        /\ Frames(b, x + 3, hi, P, m + 1, n - 1)
  <1>1. PICK f : Framed(b, lo, hi, P, m, n, f)
    BY DEF Frames
  <1>2. /\ f \in [1..n -> Int] /\ \A i \in 1..n : f[i] \in Int
        /\ \A i, j \in 1..n : i < j => f[i] + 3 <= f[j]
        /\ 1 \in 1..n
    BY <1>1 DEF Framed
  <1>3. PICK x \in Int : x = f[1]
    BY <1>2
  <1>4. ASSUME NEW i \in 1..n, i # 1
        PROVE  x + 3 <= f[i]
    <2>1. 1 < i
      BY <1>4
    <2> QED
      BY <1>2, <1>3, <2>1
  <1>5. /\ lo <= x /\ x + 2 < hi
        /\ b[x] = Flag /\ b[x + 1] = P[m + 1] /\ b[x + 2] = Flag
    BY <1>1, <1>2, <1>3 DEF Framed
  <1>6. ASSUME NEW k \in lo..hi - 1, b[k] = Flag
        PROVE  \E i \in 1..n : k = f[i] \/ k = f[i] + 2
    BY <1>1, <1>6 DEF Framed
  <1>7. ASSUME NEW k \in lo..x - 1
        PROVE  b[k] # Flag
    <2>1. k \in lo..hi - 1
      BY <1>5
    <2>2. ASSUME NEW i \in 1..n
          PROVE  k # f[i] /\ k # f[i] + 2
      <3>1. f[i] \in Int
        BY <1>2
      <3>2. CASE i = 1
        BY <1>3, <3>2
      <3>3. CASE i # 1
        <4>1. x + 3 <= f[i]
          BY <1>4, <3>3
        <4> QED
          BY <3>1, <4>1
      <3> QED
        BY <3>2, <3>3
    <2> QED
      BY <1>6, <2>1, <2>2
  <1> DEFINE h == [i \in 1..n - 1 |-> f[i + 1]]
  <1>8. \A i \in 1..n - 1 : i + 1 \in 1..n /\ h[i] = f[i + 1]
    OBVIOUS
  <1>9. h \in [1..n - 1 -> Int]
    BY <1>2, <1>8
  <1> HIDE DEF h
  <1>10. ASSUME NEW i \in 1..n - 1
         PROVE  /\ x + 3 <= h[i] /\ h[i] + 2 < hi
                /\ b[h[i]] = Flag /\ b[h[i] + 1] = P[(m + 1) + i] /\ b[h[i] + 2] = Flag
    <2>1. i + 1 \in 1..n /\ i + 1 # 1 /\ m + (i + 1) = (m + 1) + i
      OBVIOUS
    <2>2. /\ f[i + 1] + 2 < hi /\ b[f[i + 1]] = Flag /\ b[f[i + 1] + 1] = P[m + (i + 1)]
          /\ b[f[i + 1] + 2] = Flag
      BY <1>1, <2>1 DEF Framed
    <2> QED
      BY <1>4, <1>8, <2>1, <2>2
  <1>11. ASSUME NEW i \in 1..n - 1, NEW j \in 1..n - 1, i < j
         PROVE  h[i] + 3 <= h[j]
    <2>1. PICK v \in 1..n, w \in 1..n : v = i + 1 /\ w = j + 1 /\ v < w
      BY <1>11
    <2>2. f[v] + 3 <= f[w]
      BY <1>2, <2>1
    <2> QED
      BY <1>8, <2>1, <2>2
  <1>12. ASSUME NEW k \in x + 3..hi - 1, b[k] = Flag
         PROVE  \E i \in 1..n - 1 : k = h[i] \/ k = h[i] + 2
    <2>1. k \in lo..hi - 1 /\ k # x /\ k # x + 2
      BY <1>5
    <2>2. PICK j \in 1..n : k = f[j] \/ k = f[j] + 2
      BY <1>6, <1>12, <2>1
    <2>3. j # 1
      BY <1>3, <2>1, <2>2
    <2>4. j - 1 \in 1..n - 1 /\ (j - 1) + 1 = j
      BY <2>3
    <2>5. h[j - 1] = f[j]
      BY <1>8, <2>4
    <2> QED
      BY <2>2, <2>4, <2>5
  <1>13. Frames(b, x + 3, hi, P, m + 1, n - 1)
    BY <1>9, <1>10, <1>11, <1>12 DEF Framed, Frames
  <1> QED
    BY <1>5, <1>7, <1>13

\* Bytes next to bytes.
LEMMA FramesJoined ==
  ASSUME NEW b, NEW lo \in Int, NEW mid \in Int, NEW hi \in Int, lo <= mid, mid <= hi,
         NEW P, NEW m \in Int, NEW n \in Nat, NEW u \in Nat,
         Frames(b, lo, mid, P, m, n), Frames(b, mid, hi, P, m + n, u)
  PROVE  Frames(b, lo, hi, P, m, n + u)
  <1>1. PICK f : Framed(b, lo, mid, P, m, n, f)
    BY DEF Frames
  <1>2. PICK g : Framed(b, mid, hi, P, m + n, u, g)
    BY DEF Frames
  <1>3. /\ f \in [1..n -> Int] /\ \A i \in 1..n : f[i] \in Int /\ lo <= f[i] /\ f[i] + 2 < mid
        /\ g \in [1..u -> Int] /\ \A i \in 1..u : g[i] \in Int /\ mid <= g[i] /\ g[i] + 2 < hi
    BY <1>1, <1>2 DEF Framed
  <1> DEFINE h == [i \in 1..n + u |-> IF i <= n THEN f[i] ELSE g[i - n]]
  <1>4. \A i \in 1..n : i \in 1..n + u /\ h[i] = f[i]
    OBVIOUS
  <1>5. \A i \in 1..u : n + i \in 1..n + u /\ h[n + i] = g[i]
    OBVIOUS
  <1>6. \A i \in 1..n + u : i \in 1..n \/ (i - n \in 1..u /\ i = n + (i - n) /\ ~(i <= n))
    OBVIOUS
  <1>7. h \in [1..n + u -> Int]
    BY <1>3, <1>6
  <1> HIDE DEF h
  <1>8. ASSUME NEW i \in 1..n + u
        PROVE  /\ lo <= h[i] /\ h[i] + 2 < hi
               /\ b[h[i]] = Flag /\ b[h[i] + 1] = P[m + i] /\ b[h[i] + 2] = Flag
    <2>1. CASE i \in 1..n
      <3>1. b[f[i]] = Flag /\ b[f[i] + 1] = P[m + i] /\ b[f[i] + 2] = Flag
        BY <1>1, <2>1 DEF Framed
      <3>2. lo <= f[i] /\ f[i] + 2 < hi
        BY <1>3, <2>1
      <3> QED
        BY <1>4, <2>1, <3>1, <3>2
    <2>2. CASE i - n \in 1..u /\ i = n + (i - n)
      <3>1. PICK j \in 1..u : j = i - n
        BY <2>2
      <3>2. b[g[j]] = Flag /\ b[g[j] + 1] = P[(m + n) + j] /\ b[g[j] + 2] = Flag
        BY <1>2 DEF Framed
      <3>3. lo <= g[j] /\ g[j] + 2 < hi /\ (m + n) + j = m + i /\ h[i] = g[j]
        BY <1>3, <1>5, <2>2, <3>1
      <3> QED
        BY <3>2, <3>3
    <2> QED
      BY <1>6, <2>1, <2>2
  <1>9. ASSUME NEW i \in 1..n + u, NEW j \in 1..n + u, i < j
        PROVE  h[i] + 3 <= h[j]
    <2>1. CASE j \in 1..n
      <3>1. i \in 1..n
        BY <1>9, <2>1
      <3>2. f[i] + 3 <= f[j]
        BY <1>1, <1>9, <2>1, <3>1 DEF Framed
      <3> QED
        BY <1>4, <2>1, <3>1, <3>2
    <2>2. CASE i \in 1..n /\ j - n \in 1..u
      <3>1. f[i] + 2 < mid /\ f[i] \in Int /\ mid <= g[j - n] /\ g[j - n] \in Int
        BY <1>3, <2>2
      <3>2. h[i] = f[i] /\ h[j] = g[j - n]
        BY <1>4, <1>5, <2>2
      <3> QED
        BY <3>1, <3>2
    <2>3. CASE i - n \in 1..u /\ j - n \in 1..u
      <3>1. g[i - n] + 3 <= g[j - n]
        BY <1>2, <1>9, <2>3 DEF Framed
      <3>2. h[i] = g[i - n] /\ h[j] = g[j - n]
        BY <1>5, <2>3
      <3> QED
        BY <3>1, <3>2
    <2> QED
      BY <1>6, <1>9, <2>1, <2>2, <2>3
  <1>10. ASSUME NEW k \in lo..hi - 1, b[k] = Flag
         PROVE  \E i \in 1..n + u : k = h[i] \/ k = h[i] + 2
    <2>1. CASE k \in lo..mid - 1
      <3>1. PICK i \in 1..n : k = f[i] \/ k = f[i] + 2
        BY <1>1, <1>10, <2>1 DEF Framed
      <3> QED
        BY <1>4, <3>1
    <2>2. CASE k \in mid..hi - 1
      <3>1. PICK i \in 1..u : k = g[i] \/ k = g[i] + 2
        BY <1>2, <1>10, <2>2 DEF Framed
      <3> QED
        BY <1>5, <3>1
    <2> QED
      BY <2>1, <2>2
  <1> QED
    BY <1>7, <1>8, <1>9, <1>10 DEF Framed, Frames

\* Each packet has two flags.
LEMMA FlagsCounted ==
  ASSUME NEW b, NEW lo \in Int, NEW hi \in Int, NEW P, NEW m \in Int, NEW n \in Nat,
         Frames(b, lo, hi, P, m, n)
  PROVE  Cardinality({k \in lo..hi - 1 : b[k] = Flag}) = 2 * n
  <1> DEFINE S == {k \in lo..hi - 1 : b[k] = Flag}
  <1>1. PICK f : Framed(b, lo, hi, P, m, n, f)
    BY DEF Frames
  <1>2. /\ f \in [1..n -> Int]
        /\ \A i \in 1..n : /\ f[i] \in Int /\ lo <= f[i] /\ f[i] + 2 < hi
                           /\ b[f[i]] = Flag /\ b[f[i] + 2] = Flag
        /\ \A i, j \in 1..n : i < j => f[i] + 3 <= f[j]
    BY <1>1 DEF Framed
  <1> DEFINE N == 2 * n
             g == [i \in 1..N |-> IF i <= n THEN f[i] ELSE f[i - n] + 2]
  <1>3. \A i \in 1..N : \/ i \in 1..n /\ g[i] = f[i]
                        \/ i - n \in 1..n /\ ~(i <= n) /\ g[i] = f[i - n] + 2
    OBVIOUS
  <1>4. \A i \in 1..n : /\ i \in 1..N /\ g[i] = f[i]
                        /\ n + i \in 1..N /\ g[n + i] = f[i] + 2
    OBVIOUS
  <1>5. ASSUME NEW i \in 1..N
        PROVE  g[i] \in S
    <2>1. CASE i \in 1..n /\ g[i] = f[i]
      <3>1. f[i] \in Int /\ lo <= f[i] /\ f[i] + 2 < hi /\ b[f[i]] = Flag
        BY <1>2, <2>1
      <3> QED
        BY <2>1, <3>1
    <2>2. CASE i - n \in 1..n /\ g[i] = f[i - n] + 2
      <3>1. /\ f[i - n] \in Int /\ lo <= f[i - n] /\ f[i - n] + 2 < hi
            /\ b[f[i - n] + 2] = Flag
        BY <1>2, <2>2
      <3> HIDE DEF g
      <3> QED
        BY <2>2, <3>1
    <2> HIDE DEF g, S
    <2> QED
      BY <1>3, <2>1, <2>2
  <1>6. g \in [1..N -> S]
    BY <1>5
  <1>7. \A i, j \in 1..n : f[i] # f[j] + 2 /\ (f[i] = f[j] => i = j)
    <2> SUFFICES ASSUME NEW i \in 1..n, NEW j \in 1..n
                 PROVE  f[i] # f[j] + 2 /\ (f[i] = f[j] => i = j)
      OBVIOUS
    <2>1. f[i] \in Int /\ f[j] \in Int
      BY <1>2
    <2>2. CASE i < j
      <3>1. f[i] + 3 <= f[j]
        BY <1>2, <2>2
      <3> QED
        BY <2>1, <3>1
    <2>3. CASE j < i
      <3>1. f[j] + 3 <= f[i]
        BY <1>2, <2>3
      <3> QED
        BY <2>1, <3>1
    <2>4. CASE i = j
      BY <2>1, <2>4
    <2> QED
      BY <2>2, <2>3, <2>4
  <1> HIDE DEF g, S
  <1>8. ASSUME NEW i \in 1..N, NEW j \in 1..N, g[i] = g[j]
        PROVE  i = j
    <2>1. CASE i \in 1..n /\ g[i] = f[i]
      BY <1>2, <1>3, <1>7, <1>8, <2>1
    <2>2. CASE i - n \in 1..n /\ ~(i <= n) /\ g[i] = f[i - n] + 2
      <3>1. CASE j \in 1..n /\ g[j] = f[j]
        BY <1>7, <1>8, <2>2, <3>1
      <3>2. CASE j - n \in 1..n /\ ~(j <= n) /\ g[j] = f[j - n] + 2
        <4>1. f[i - n] = f[j - n]
          <5>1. f[i - n] \in Int /\ f[j - n] \in Int
            BY <1>2, <2>2, <3>2
          <5>2. f[i - n] + 2 = f[j - n] + 2
            BY <1>8, <2>2, <3>2
          <5> QED
            BY <5>1, <5>2
        <4>2. i - n = j - n
          BY <1>7, <2>2, <3>2, <4>1
        <4> QED
          BY <4>2
      <3> QED
        BY <1>3, <3>1, <3>2
    <2> QED
      BY <1>3, <2>1, <2>2
  <1>9. ASSUME NEW k \in S
        PROVE  \E i \in 1..N : g[i] = k
    <2>1. PICK i \in 1..n : k = f[i] \/ k = f[i] + 2
      BY <1>1 DEF Framed, S
    <2> QED
      BY <1>4, <2>1
  <1>10. N \in Nat
    OBVIOUS
  <1> HIDE DEF N
  <1>11. ExistsBijection(1..N, S)
    <2>1. g \in Bijection(1..N, S)
      BY <1>6, <1>8, <1>9 DEF Bijection, Injection, Surjection, IsInjective
    <2> QED
      BY <2>1 DEF ExistsBijection
  <1> QED
    BY <1>10, <1>11, FS_CountingElements DEF N, S

\* The next flag.
LEMMA FlagFound ==
  ASSUME NEW b, NEW lo \in Int, NEW hi \in Int, NEW x \in lo..hi,
         x = hi \/ b[x] = Flag, \A k \in lo..x - 1 : b[k] # Flag
  PROVE  FlagFrom(b, lo, hi) = x
  <1> DEFINE A(j) == (j = hi \/ b[j] = Flag) /\ \A k \in lo..j - 1 : b[k] # Flag
  <1>1. ASSUME NEW j \in lo..hi, A(j)
        PROVE  j = x
    <2>1. ~(j < x)
      <3>1. j < x => j \in lo..x - 1 /\ j # hi
        OBVIOUS
      <3> QED
        BY <1>1, <3>1
    <2>2. ~(x < j)
      <3>1. x < j => x \in lo..j - 1 /\ x # hi
        OBVIOUS
      <3> QED
        BY <1>1, <3>1
    <2> QED
      BY <2>1, <2>2
  <1>2. A(x)
    OBVIOUS
  <1>3. FlagFrom(b, lo, hi) = CHOOSE j \in lo..hi : A(j)
    BY DEF FlagFrom
  <1> HIDE DEF A
  <1> QED
    BY <1>1, <1>2, <1>3

LEMMA FlagMissing ==
  ASSUME NEW b, NEW lo \in Int, NEW hi \in Int, lo <= hi, \A k \in lo..hi - 1 : b[k] # Flag
  PROVE  FlagFrom(b, lo, hi) = hi
  <1>1. hi \in lo..hi
    OBVIOUS
  <1> QED
    BY <1>1, FlagFound

(***************************************************************************)
(* The invariant: k of the packets that zrecv_packet has not returned are  *)
(* in its buffer behind offset, and u, from the first byte on, in the      *)
(* connection and what zsend has still to send.                            *)
(***************************************************************************)
SockByte == Payloads \cup {Flag, Filler}

OnWay == stream \o tosend

SockTyped ==
  /\ buf \in [Index -> SockByte] /\ len \in 0..MaxLen /\ offset \in 0..len
  /\ stream \in Seq(SockByte) /\ Len(stream) <= MaxLen
  /\ tosend \in Seq(SockByte)
  /\ sent \in Seq(Payloads) /\ got \in Seq(Seq(SockByte))

Pending(k, u) ==
  /\ Len(got) + k + u = Len(sent)
  /\ Frames(buf, offset, len, sent, Len(got), k)
  /\ Frames(OnWay, 1, Len(OnWay) + 1, sent, Len(got) + k, u)

PacketsInv ==
  /\ SockTyped
  /\ offset = 0 => len = 0
  /\ \A i \in 1..Len(got) : got[i] = Packet(sent[i])
  /\ \E k, u \in Nat : Pending(k, u)
  /\ Len(OnWay) # 0 => OnWay[1] = Flag

LEMMA ByteKinds ==
  /\ Flag \in SockByte /\ Filler \in SockByte /\ Payloads \subseteq SockByte /\ Flag # Filler
  /\ \A p \in Payloads : p # Flag
  BY SocketsAssumption DEF SockByte

LEMMA PacketBytes ==
  ASSUME NEW p \in Payloads
  PROVE  /\ Packet(p) \in Seq(SockByte) /\ Len(Packet(p)) = 3
         /\ Packet(p)[1] = Flag /\ Packet(p)[2] = p /\ Packet(p)[3] = Flag
  BY ByteKinds DEF Packet

\* The numbers of a state.
LEMMA Lengths ==
  ASSUME SockTyped
  PROVE  /\ Len(got) \in Nat /\ Len(sent) \in Nat /\ Len(stream) \in Nat /\ Len(tosend) \in Nat
         /\ OnWay \in Seq(SockByte) /\ Len(OnWay) \in Nat /\ Len(OnWay) = Len(stream) + Len(tosend)
         /\ MaxLen \in Nat /\ len \in Int /\ offset \in Int /\ 0 <= offset /\ offset <= len
         /\ len <= MaxLen
         /\ DOMAIN got = 1..Len(got)
  <1>1. /\ Len(got) \in Nat /\ Len(sent) \in Nat /\ Len(stream) \in Nat /\ Len(tosend) \in Nat
        /\ DOMAIN got = 1..Len(got)
    BY LenProperties DEF SockTyped
  <1>2. OnWay \in Seq(SockByte) /\ Len(OnWay) = Len(stream) + Len(tosend)
    BY ConcatProperties DEF SockTyped, OnWay
  <1>3. MaxLen \in Nat /\ len \in Int /\ offset \in Int /\ 0 <= offset /\ offset <= len
        /\ len <= MaxLen
    BY SocketsAssumption DEF SockTyped
  <1> QED
    BY <1>1, <1>2, <1>3

\* When zsend has sent all, the connection is all that is on its way.
LEMMA AllSent ==
  ASSUME SockTyped, tosend = <<>>
  PROVE  OnWay = stream
  BY ConcatEmptySeq DEF SockTyped, OnWay

LEMMA PacketsCounted ==
  ASSUME PacketsInv
  PROVE  PacketsDelivered
  <1>1. PICK g \in Nat, s \in Nat : g = Len(got) /\ s = Len(sent)
    BY Lengths DEF PacketsInv
  <1>2. PICK k \in Nat, u \in Nat : Pending(k, u)
    BY DEF PacketsInv
  <1>3. g + k + u = s /\ g <= s /\ DOMAIN got = 1..g
    <2>1. g + k + u = s
      BY <1>1, <1>2 DEF Pending
    <2> QED
      BY <1>1, <2>1, Lengths DEF PacketsInv
  <1> DEFINE U == SubSeq(Bytes(buf, len), offset + 1, len)
             rest == U \o stream \o tosend
  <1>4. ASSUME tosend = <<>>
        PROVE  Cardinality({i \in DOMAIN rest : rest[i] = Flag}) = 2 * (s - g)
    <2>1. /\ buf \in [Index -> SockByte] /\ stream \in Seq(SockByte)
          /\ len \in Int /\ offset \in Int /\ 0 <= offset /\ offset <= len /\ len <= MaxLen
          /\ MaxLen \in Nat
      BY Lengths DEF PacketsInv, SockTyped
    <2>2. \A i \in offset + 1..len : i - 1 \in Index /\ Bytes(buf, len)[i] = buf[i - 1]
      BY <2>1 DEF Bytes, Index
    <2>3. \A i \in offset + 1..len : Bytes(buf, len)[i] \in SockByte
      BY <2>1, <2>2
    <2>4. /\ U \in Seq(SockByte)
          /\ Len(U) = IF offset + 1 <= len THEN len - (offset + 1) + 1 ELSE 0
          /\ \A i \in 1..len - (offset + 1) + 1 : U[i] = Bytes(buf, len)[(offset + 1) + i - 1]
      BY <2>1, <2>3, SubSeqProperties
    <2>5. PICK l \in Nat : l = Len(U) /\ l = len - offset
      BY <2>1, <2>4
    <2> HIDE DEF U
    <2>6. \A i \in offset..len - 1 : U[i + (1 - offset)] = buf[i]
      <3> SUFFICES ASSUME NEW i \in offset..len - 1
                   PROVE  U[i + (1 - offset)] = buf[i]
        OBVIOUS
      <3>1. PICK j \in 1..len - (offset + 1) + 1 : j = i + (1 - offset)
        BY <2>1
      <3>2. U[j] = Bytes(buf, len)[(offset + 1) + j - 1]
        BY <2>4
      <3>3. (offset + 1) + j - 1 = i + 1 /\ i + 1 \in offset + 1..len /\ (i + 1) - 1 = i
        BY <2>1, <3>1
      <3>4. Bytes(buf, len)[i + 1] = buf[i]
        BY <2>2, <3>3
      <3> QED
        BY <3>1, <3>2, <3>3, <3>4
    <2>7. Frames(U, 1, l + 1, sent, g, k)
      <3>1. Frames(buf, offset, len, sent, g, k)
        BY <1>1, <1>2 DEF Pending
      <3>2. PICK d \in Int, z \in Int, m \in Int : d = 1 - offset /\ z = 0 /\ m = g
        BY <2>1
      <3>3. /\ \A i \in offset..len - 1 : U[i + d] = buf[i]
            /\ \A i \in m + 1..m + k : sent[i + z] = sent[i]
            /\ Frames(buf, offset, len, sent, m, k)
        BY <2>6, <3>1, <3>2
      <3>4. Frames(U, offset + d, len + d, sent, m + z, k)
        BY <2>1, <3>3, FramesMoved, Zenon
      <3>5. offset + d = 1 /\ len + d = l + 1 /\ m + z = g
        BY <2>1, <2>5, <3>2
      <3> QED
        BY <3>4, <3>5
    <2>8. OnWay = stream /\ rest = U \o stream
      <3>1. U \o stream \in Seq(SockByte)
        BY <2>1, <2>4, ConcatProperties
      <3> QED
        BY <1>4, <3>1, AllSent, ConcatEmptySeq DEF PacketsInv
    <2> HIDE DEF rest
    <2>9. PICK w \in Nat : w = Len(stream)
      BY Lengths DEF PacketsInv
    <2>10. /\ rest \in Seq(SockByte) /\ Len(rest) = l + w
           /\ \A i \in 1..l + w : rest[i] = IF i <= l THEN U[i] ELSE stream[i - l]
      <3>1. U \in Seq(SockByte) /\ stream \in Seq(SockByte) /\ rest = U \o stream
        BY <2>1, <2>4, <2>8
      <3>2. Len(U) = l /\ Len(stream) = w
        BY <2>5, <2>9
      <3>3. U \o stream \in Seq(SockByte) /\ Len(U \o stream) = Len(U) + Len(stream)
        BY <3>1, ConcatProperties
      <3>4. \A i \in 1..Len(U) + Len(stream) :
              (U \o stream)[i] = IF i <= Len(U) THEN U[i] ELSE stream[i - Len(U)]
        BY <3>1, ConcatProperties
      <3> QED
        BY <3>1, <3>2, <3>3, <3>4
    <2>11. DOMAIN rest = 1..l + w
      BY <2>10, LenProperties
    <2>12. Frames(rest, 1, l + 1, sent, g, k)
      <3>1. \A i \in 1..(l + 1) - 1 : rest[i] = U[i]
        BY <2>9, <2>10
      <3>2. 1 \in Int /\ l + 1 \in Int /\ g \in Int
        OBVIOUS
      <3> QED
        BY <2>7, <3>1, <3>2, FramesSame
    <2>13. Frames(rest, l + 1, l + w + 1, sent, g + k, u)
      <3>1. Frames(stream, 1, w + 1, sent, g + k, u)
        BY <1>1, <1>2, <2>8, <2>9 DEF Pending
      <3>2. \A i \in 1..(w + 1) - 1 : rest[i + l] = stream[i]
        BY <2>9, <2>10
      <3>3. PICK z \in Int, lo \in Int, hi \in Int, m \in Int, d \in Int :
              z = 0 /\ lo = 1 /\ hi = w + 1 /\ m = g + k /\ d = l
        OBVIOUS
      <3>4. /\ Frames(stream, lo, hi, sent, m, u)
            /\ \A i \in lo..hi - 1 : rest[i + d] = stream[i]
        BY <3>1, <3>2, <3>3
      <3>5. \A i \in m + 1..m + u : sent[i + z] = sent[i]
        BY <3>3
      <3>6. Frames(rest, lo + d, hi + d, sent, m + z, u)
        BY <3>4, <3>5, FramesMoved, Zenon
      <3>7. lo + d = l + 1 /\ hi + d = l + w + 1 /\ m + z = g + k
        BY <3>3
      <3> QED
        BY <3>6, <3>7
    <2>14. Frames(rest, 1, l + w + 1, sent, g, k + u)
      BY <2>12, <2>13, FramesJoined
    <2>15. Cardinality({i \in 1..(l + w + 1) - 1 : rest[i] = Flag}) = 2 * (k + u)
      BY <2>14, FlagsCounted
    <2>16. (l + w + 1) - 1 = l + w /\ k + u = s - g
      BY <1>3
    <2> QED
      BY <2>11, <2>15, <2>16
  <1>5. \A i \in DOMAIN got : got[i] = Packet(sent[i])
    BY <1>1, <1>3 DEF PacketsInv
  <1> HIDE DEF rest, U
  <1> QED
    BY <1>1, <1>3, <1>4, <1>5 DEF PacketsDelivered, rest, U

-----------------------------------------------------------------------------
\* The bytes that zsend is given.
LEMMA GivenBytes ==
  ASSUME NEW p \in Payloads, NEW filler \in {<<>>, <<Filler>>}, NEW T, T = Packet(p) \o filler
  PROVE  /\ T \in Seq(SockByte) /\ Len(T) \in {3, 4}
         /\ T[1] = Flag /\ T[2] = p /\ T[3] = Flag
         /\ Len(T) = 4 => T[4] = Filler
  <1>1. /\ Packet(p) \in Seq(SockByte) /\ Len(Packet(p)) = 3
        /\ Packet(p)[1] = Flag /\ Packet(p)[2] = p /\ Packet(p)[3] = Flag
    BY PacketBytes
  <1>2. /\ filler \in Seq(SockByte) /\ Len(filler) \in {0, 1}
        /\ Len(filler) = 1 => filler[1] = Filler
    <2>1. CASE filler = <<>>
      BY <2>1
    <2>2. CASE filler = <<Filler>>
      BY <2>2, ByteKinds
    <2> QED
      BY <2>1, <2>2
  <1>3. /\ T \in Seq(SockByte) /\ Len(T) = Len(Packet(p)) + Len(filler)
        /\ \A i \in 1..Len(Packet(p)) + Len(filler) :
             T[i] = IF i <= Len(Packet(p)) THEN Packet(p)[i] ELSE filler[i - Len(Packet(p))]
    BY <1>1, <1>2, ConcatProperties
  <1>4. Len(T) = 3 + Len(filler) /\ \A i \in 1..3 : T[i] = Packet(p)[i]
    BY <1>1, <1>2, <1>3
  <1>5. Len(filler) = 1 => T[4] = filler[1]
    BY <1>1, <1>3
  <1> QED
    BY <1>1, <1>2, <1>3, <1>4, <1>5

LEMMA PacketSent ==
  ASSUME PacketsInv, NEW p \in Payloads, SendPacket(p)
  PROVE  PacketsInv'
  <1>1. PICK filler \in {<<>>, <<Filler>>} : tosend' = Packet(p) \o filler
    BY DEF SendPacket
  <1>2. /\ tosend = <<>> /\ sent' = Append(sent, p)
        /\ stream' = stream /\ buf' = buf /\ offset' = offset /\ len' = len /\ got' = got
    BY DEF SendPacket, readVars
  <1>3. PICK T : T = tosend'
    OBVIOUS
  <1>4. /\ T \in Seq(SockByte) /\ Len(T) \in {3, 4} /\ T[1] = Flag /\ T[2] = p /\ T[3] = Flag
        /\ Len(T) = 4 => T[4] = Filler
    BY <1>1, <1>3, GivenBytes
  <1>5. PICK t \in Nat, w \in Nat, g \in Nat, s \in Nat :
          t = Len(T) /\ w = Len(stream) /\ g = Len(got) /\ s = Len(sent)
    BY <1>4, Lengths DEF PacketsInv
  <1>len. t = 3 \/ t = 4
    BY <1>4, <1>5
  <1>6. PICK W : W = OnWay'
    OBVIOUS
  <1>7. /\ W \in Seq(SockByte) /\ Len(W) = w + t
        /\ \A i \in 1..w + t : W[i] = IF i <= w THEN stream[i] ELSE T[i - w]
    <2>1. W = stream \o T /\ stream \in Seq(SockByte)
      BY <1>2, <1>3, <1>6 DEF OnWay, PacketsInv, SockTyped
    <2> QED
      BY <1>4, <1>5, <2>1, ConcatProperties
  <1>8. OnWay = stream
    BY <1>2, AllSent DEF PacketsInv
  <1>9. /\ sent' \in Seq(Payloads) /\ Len(sent') = s + 1
        /\ \A i \in 1..s : sent'[i] = sent[i]
        /\ sent'[s + 1] = p
    BY <1>2, <1>5, AppendProperties DEF PacketsInv, SockTyped
  <1>10. SockTyped'
    BY <1>2, <1>3, <1>4, <1>9 DEF PacketsInv, SockTyped
  <1>11. PICK k \in Nat, u \in Nat : Pending(k, u)
    BY DEF PacketsInv
  <1>12. /\ g + k + u = s /\ g + k \in Int /\ s \in Int
         /\ Frames(buf, offset, len, sent, g, k)
         /\ Frames(stream, 1, w + 1, sent, g + k, u)
         /\ offset \in Int /\ len \in Int
    <2>1. offset \in Int /\ len \in Int
      BY Lengths DEF PacketsInv
    <2>2. /\ g + k + u = s
          /\ Frames(buf, offset, len, sent, g, k)
          /\ Frames(stream, 1, w + 1, sent, g + k, u)
      BY <1>5, <1>8, <1>11 DEF Pending
    <2> QED
      BY <2>1, <2>2
  <1>sum. g + k + u = s
    BY <1>12
  <1>13. Frames(buf, offset, len, sent', g, k)
    <2>1. \A i \in g + 1..g + k : i \in 1..s /\ sent'[i] = sent[i]
      BY <1>9, <1>sum
    <2> QED
      BY <1>12, <2>1, FramesSame
  <1>14. Frames(W, 1, w + 1, sent', g + k, u)
    <2>1. \A i \in (g + k) + 1..(g + k) + u : i \in 1..s /\ sent'[i] = sent[i]
      BY <1>9, <1>sum
    <2>2. \A i \in 1..(w + 1) - 1 : W[i] = stream[i]
      BY <1>7
    <2>3. 1 \in Int /\ w + 1 \in Int
      OBVIOUS
    <2> QED
      BY <1>12, <2>1, <2>2, <2>3, FramesSame
  <1>15. Frames(W, w + 1, (w + t) + 1, sent', g + k + u, 1)
    <2>1. /\ W[w + 1] = T[1] /\ W[(w + 1) + 1] = T[2] /\ W[(w + 1) + 2] = T[3]
      <3>1. /\ w + 1 \in 1..w + t /\ ~(w + 1 <= w) /\ (w + 1) - w = 1
            /\ (w + 1) + 1 \in 1..w + t /\ ~((w + 1) + 1 <= w) /\ ((w + 1) + 1) - w = 2
            /\ (w + 1) + 2 \in 1..w + t /\ ~((w + 1) + 2 <= w) /\ ((w + 1) + 2) - w = 3
        BY <1>len
      <3> QED
        BY <1>7, <3>1
    <2>2. \A j \in (w + 1) + 3..((w + t) + 1) - 1 : W[j] # Flag
      <3> SUFFICES ASSUME NEW j \in (w + 1) + 3..((w + t) + 1) - 1
                   PROVE  W[j] # Flag
        OBVIOUS
      <3>1. t = 4 /\ j = w + 4 /\ j \in 1..w + t /\ ~(j <= w) /\ j - w = 4
        BY <1>len
      <3> QED
        BY <1>4, <1>5, <1>7, <3>1, ByteKinds
    <2>3. /\ w + 1 \in Int /\ (w + t) + 1 \in Int /\ (w + 1) + 2 < (w + t) + 1
          /\ g + k + u \in Int /\ (g + k + u) + 1 = s + 1
      BY <1>len, <1>sum
    <2>4. sent'[(g + k + u) + 1] = p /\ p # Flag
      BY <1>9, <2>3, ByteKinds
    <2>5. /\ W[w + 1] = Flag /\ W[(w + 1) + 1] = sent'[(g + k + u) + 1]
          /\ W[(w + 1) + 2] = Flag /\ sent'[(g + k + u) + 1] # Flag
      BY <1>4, <2>1, <2>4
    <2> HIDE <1>4, <1>7, <1>9
    <2> QED
      BY <2>2, <2>3, <2>5, OneFrame
  <1>16. Frames(W, 1, (w + t) + 1, sent', g + k, u + 1)
    <2>1. /\ 1 \in Int /\ w + 1 \in Int /\ (w + t) + 1 \in Int /\ 1 <= w + 1
          /\ w + 1 <= (w + t) + 1 /\ 1 \in Nat
      OBVIOUS
    <2>2. Frames(W, w + 1, (w + t) + 1, sent', (g + k) + u, 1)
      BY <1>15
    <2> QED
      BY <1>12, <1>14, <2>1, <2>2, FramesJoined
  <1>17. Pending(k, u + 1)' /\ u + 1 \in Nat
    <2>1. Len(got') + k + (u + 1) = Len(sent')
      <3>1. Len(got') = g /\ Len(sent') = s + 1
        BY <1>2, <1>5, <1>9
      <3>2. g + k + (u + 1) = s + 1
        BY <1>sum
      <3> QED
        BY <3>1, <3>2
    <2> QED
      BY <1>2, <1>5, <1>6, <1>7, <1>13, <1>16, <2>1 DEF Pending
  <1>18. \A i \in 1..Len(got') : got'[i] = Packet(sent'[i])
    <2>1. \A i \in 1..g : i \in 1..s /\ got[i] = Packet(sent[i])
      BY <1>5, <1>12 DEF PacketsInv
    <2> QED
      BY <1>2, <1>5, <1>9, <2>1
  <1>19. OnWay'[1] = Flag
    <2>1. CASE w = 0
      BY <1>4, <1>5, <1>6, <1>7, <2>1
    <2>2. CASE w # 0
      <3>1. 1 \in 1..w + t /\ 1 <= w
        BY <2>2
      <3>2. stream[1] = Flag
        BY <1>5, <1>8, <2>2 DEF PacketsInv
      <3> QED
        BY <1>6, <1>7, <3>1, <3>2
    <2> QED
      BY <2>1, <2>2
  <1>20. offset' = 0 => len' = 0
    BY <1>2 DEF PacketsInv
  <1> QED
    BY <1>10, <1>11, <1>17, <1>18, <1>19, <1>20, Zenon DEF PacketsInv

LEMMA BytesSent ==
  ASSUME PacketsInv, Zsend
  PROVE  PacketsInv'
  <1>1. PICK n \in 1..Len(tosend) :
          /\ Len(stream) + n <= MaxLen
          /\ stream' = stream \o SubSeq(tosend, 1, n)
          /\ tosend' = SubSeq(tosend, n + 1, Len(tosend))
    BY DEF Zsend
  <1>2. /\ sent' = sent /\ buf' = buf /\ offset' = offset /\ len' = len /\ got' = got
    BY DEF Zsend, readVars
  <1>3. PICK t \in Nat, w \in Nat : t = Len(tosend) /\ w = Len(stream)
    BY Lengths DEF PacketsInv
  <1>4. stream \in Seq(SockByte) /\ tosend \in Seq(SockByte)
    BY DEF PacketsInv, SockTyped
  <1>5. \A i \in 1..t : tosend[i] \in SockByte
    BY <1>3, <1>4, ElementOfSeq
  <1>6. PICK A, B : A = SubSeq(tosend, 1, n) /\ B = SubSeq(tosend, n + 1, t)
    OBVIOUS
  <1>7. A \in Seq(SockByte) /\ Len(A) = n /\ B \in Seq(SockByte)
    <2>1. n \in 1..t /\ \A i \in 1..n : tosend[i] \in SockByte
      BY <1>3, <1>5
    <2>2. \A i \in n + 1..t : tosend[i] \in SockByte
      BY <1>3, <1>5
    <2>3. A \in Seq(SockByte) /\ Len(A) = n
      BY <1>6, <2>1, SubSeqProperties
    <2>4. B \in Seq(SockByte)
      BY <1>3, <1>6, <2>2, SubSeqProperties
    <2> QED
      BY <2>3, <2>4
  <1>8. A \o B = tosend
    <2>1. A \o B = SubSeq(tosend, 1, t)
      BY <1>3, <1>4, <1>6, ConcatAdjacentSubSeq
    <2> QED
      BY <1>3, <1>4, <2>1, SubSeqFull
  <1>9. OnWay' = OnWay
    <2>1. OnWay' = (stream \o A) \o B /\ OnWay = stream \o tosend
      BY <1>1, <1>3, <1>6 DEF OnWay
    <2>2. (stream \o A) \o B = stream \o (A \o B)
      <3>1. Associate(stream, A, B)
        BY <1>4, <1>7, ConcatAssociates, Zenon
      <3> QED
        BY <3>1, Zenon DEF Associate
    <2> QED
      BY <1>8, <2>1, <2>2
  <1>10. SockTyped'
    <2>1. stream' \in Seq(SockByte) /\ Len(stream') = w + n
      BY <1>1, <1>3, <1>4, <1>6, <1>7, ConcatProperties
    <2>2. tosend' \in Seq(SockByte)
      BY <1>1, <1>3, <1>6, <1>7
    <2> QED
      BY <1>1, <1>2, <1>3, <2>1, <2>2 DEF PacketsInv, SockTyped
  <1>11. \A k, u : Pending(k, u) => Pending(k, u)'
    BY <1>2, <1>9 DEF Pending
  <1> QED
    BY <1>2, <1>9, <1>10, <1>11 DEF PacketsInv

-----------------------------------------------------------------------------
\* The buffer with its bytes moved to the front.
LEMMA MovedBytes ==
  ASSUME SockTyped, NEW x \in Int, 0 <= x, x <= len
  PROVE  /\ Moved(x) \in [Index -> SockByte]
         /\ \A i \in 0..(len - x) - 1 : Moved(x)[i] = buf[i + x]
  <1>1. /\ buf \in [Index -> SockByte] /\ len \in Int /\ len <= MaxLen /\ MaxLen \in Nat
    BY Lengths DEF SockTyped
  <1>2. ASSUME NEW i \in Index
        PROVE  (IF i < len - x THEN buf[i + x] ELSE buf[i]) \in SockByte
    BY <1>1 DEF Index
  <1>3. Moved(x) \in [Index -> SockByte]
    BY <1>2 DEF Moved
  <1>4. ASSUME NEW i \in 0..(len - x) - 1
        PROVE  Moved(x)[i] = buf[i + x]
    <2>1. i \in Index /\ i < len - x
      BY <1>1 DEF Index
    <2> QED
      BY <2>1 DEF Moved
  <1> QED
    BY <1>3, <1>4

\* The first three bytes of a buffer.
LEMMA PacketTaken ==
  ASSUME NEW b \in [Index -> SockByte], 2 <= MaxLen, NEW p \in Payloads,
         b[0] = Flag, b[1] = p, b[2] = Flag
  PROVE  Bytes(b, 3) = Packet(p) /\ Bytes(b, 3) \in Seq(SockByte)
  <1>1. MaxLen \in Nat
    BY SocketsAssumption
  <1>2. \A i \in 1..3 : i - 1 \in Index
    BY <1>1 DEF Index
  <1>3. Bytes(b, 3) \in [1..3 -> SockByte]
    BY <1>2 DEF Bytes
  <1>4. Bytes(b, 3) \in Seq(SockByte) /\ Len(Bytes(b, 3)) = 3
    <2>1. PICK q : q = Bytes(b, 3)
      OBVIOUS
    <2>2. q \in [1..3 -> SockByte] /\ DOMAIN q = 1..3
      BY <1>3, <2>1
    <2>3. q \in Seq(SockByte)
      <3>1. 3 \in Nat
        OBVIOUS
      <3> QED
        BY <2>2, <3>1, SeqDef
    <2>4. PICK l \in Nat : l = Len(q) /\ 1..l = 1..3
      BY <2>2, <2>3, LenProperties
    <2>5. l = 3
      <3>1. 3 \in 1..3
        OBVIOUS
      <3>2. 3 \in 1..l
        BY <2>4, <3>1
      <3>3. l \in 1..l
        BY <3>2
      <3>4. l \in 1..3
        BY <2>4, <3>3
      <3> QED
        BY <3>2, <3>4
    <2> QED
      BY <2>1, <2>3, <2>4, <2>5
  <1>5. \A i \in 1..3 : Bytes(b, 3)[i] = Packet(p)[i]
    <2>1. Bytes(b, 3)[1] = Flag /\ Bytes(b, 3)[2] = p /\ Bytes(b, 3)[3] = Flag
      BY DEF Bytes
    <2>2. \A i \in 1..3 : i = 1 \/ i = 2 \/ i = 3
      OBVIOUS
    <2> QED
      BY <2>1, <2>2, PacketBytes
  <1>6. Packet(p) \in Seq(SockByte) /\ Len(Packet(p)) = 3
    BY PacketBytes
  <1> QED
    BY <1>4, <1>5, <1>6, SeqEqual

\* A packet in the buffer is found, and its end.
LEMMA PacketFound ==
  ASSUME PacketsInv, NEW k \in Nat, NEW u \in Nat, Pending(k, u), k # 0
  PROVE  /\ offset # 0
         /\ \E x \in Int :
              /\ 0 <= x /\ x + 2 < len
              /\ FlagFrom(buf, offset, len) = x
              /\ FlagFrom(Moved(x), 1, len - x) = 2
              /\ buf[x] = Flag /\ buf[x + 1] = sent[Len(got) + 1] /\ buf[x + 2] = Flag
              /\ Frames(buf, x + 3, len, sent, Len(got) + 1, k - 1)
  <1>1. PICK g \in Nat, s \in Nat : g = Len(got) /\ s = Len(sent)
    BY Lengths DEF PacketsInv
  <1>2. g + k + u = s /\ g + 1 \in 1..s
    BY <1>1 DEF Pending
  <1>3. sent[g + 1] \in Payloads
    BY <1>1, <1>2, ElementOfSeq DEF PacketsInv, SockTyped
  <1>4. offset \in Int /\ len \in Int /\ 0 <= offset /\ offset <= len
    BY Lengths DEF PacketsInv
  <1>5. Frames(buf, offset, len, sent, g, k) /\ g \in Int
    BY <1>1 DEF Pending
  <1>6. PICK x \in Int :
          /\ offset <= x /\ x + 2 < len
          /\ buf[x] = Flag /\ buf[x + 1] = sent[g + 1] /\ buf[x + 2] = Flag
          /\ \A j \in offset..x - 1 : buf[j] # Flag
          /\ Frames(buf, x + 3, len, sent, g + 1, k - 1)
    BY <1>4, <1>5, FirstFrame
  <1>7. FlagFrom(buf, offset, len) = x
    <2>1. x \in offset..len
      BY <1>4, <1>6
    <2> QED
      BY <1>4, <1>6, <2>1, FlagFound
  <1>8. 0 <= x /\ x <= len
    BY <1>4, <1>6
  <1>9. PICK M : M = Moved(x)
    OBVIOUS
  <1>10. \A i \in 0..(len - x) - 1 : M[i] = buf[i + x]
    BY <1>8, <1>9, MovedBytes DEF PacketsInv
  <1>11. M[1] = buf[x + 1] /\ M[2] = buf[x + 2]
    <2>1. /\ 1 \in 0..(len - x) - 1 /\ 2 \in 0..(len - x) - 1
          /\ 1 + x = x + 1 /\ 2 + x = x + 2
      BY <1>4, <1>6
    <2> QED
      BY <1>10, <2>1
  <1>12. FlagFrom(M, 1, len - x) = 2
    <2>1. /\ 1 \in Int /\ len - x \in Int /\ 2 \in 1..len - x
          /\ \A j \in 1..2 - 1 : j = 1
      BY <1>4, <1>6
    <2>2. M[2] = Flag /\ \A j \in 1..2 - 1 : M[j] # Flag
      BY <1>3, <1>6, <1>11, <2>1, ByteKinds
    <2> QED
      BY <2>1, <2>2, FlagFound
  <1>13. offset # 0
    BY <1>4, <1>6 DEF PacketsInv
  <1> QED
    BY <1>1, <1>6, <1>7, <1>8, <1>9, <1>12, <1>13

\* Without one, what is left in the buffer is dropped.
LEMMA NothingFound ==
  ASSUME PacketsInv, NEW u \in Nat, Pending(0, u)
  PROVE  FlagFrom(buf, offset, len) = len
  <1>1. Frames(buf, offset, len, sent, Len(got), 0)
    BY DEF Pending
  <1>2. offset \in Int /\ len \in Int /\ offset <= len
    BY Lengths DEF PacketsInv
  <1>3. \A j \in offset..len - 1 : buf[j] # Flag
    BY <1>1, <1>2, NoFrames
  <1> QED
    BY <1>2, <1>3, FlagMissing

\* Another packet for the reader.
LEMMA PacketGot ==
  ASSUME PacketsInv, NEW k \in Nat, NEW u \in Nat, Pending(k, u), k + u # 0,
         got' = Append(got, Packet(sent[Len(got) + 1])), sent' = sent
  PROVE  /\ got' \in Seq(Seq(SockByte)) /\ Len(got') = Len(got) + 1
         /\ \A i \in 1..Len(got') : got'[i] = Packet(sent'[i])
  <1>1. PICK g \in Nat, s \in Nat : g = Len(got) /\ s = Len(sent)
    BY Lengths DEF PacketsInv
  <1>2. g + k + u = s
    BY <1>1 DEF Pending
  <1>3. g + 1 \in 1..s
    BY <1>2
  <1>4. sent[g + 1] \in Payloads
    BY <1>1, <1>3, ElementOfSeq DEF PacketsInv, SockTyped
  <1>5. Packet(sent[g + 1]) \in Seq(SockByte)
    BY <1>4, PacketBytes
  <1>6. got \in Seq(Seq(SockByte))
    BY DEF PacketsInv, SockTyped
  <1>7. /\ got' \in Seq(Seq(SockByte)) /\ Len(got') = g + 1
        /\ \A i \in 1..g : got'[i] = got[i]
        /\ got'[g + 1] = Packet(sent[g + 1])
    BY <1>1, <1>5, <1>6, AppendProperties
  <1>8. \A i \in 1..g + 1 : i \in 1..g \/ i = g + 1
    OBVIOUS
  <1>9. \A i \in 1..g : got[i] = Packet(sent[i])
    BY <1>1 DEF PacketsInv
  <1> QED
    BY <1>1, <1>7, <1>8, <1>9

LEMMA PacketFromBuffer ==
  ASSUME PacketsInv, NextPacket
  PROVE  PacketsInv'
  <1> DEFINE start == FlagFrom(buf, offset, len)
             close == FlagFrom(Moved(start), 1, len - start)
  <1>1. /\ start < len
        /\ buf' = Moved(start) /\ len' = len - start /\ offset' = close + 1
        /\ got' = Append(got, Bytes(buf', offset'))
        /\ tosend' = tosend /\ stream' = stream /\ sent' = sent
    BY DEF NextPacket
  <1>2. PICK k \in Nat, u \in Nat : Pending(k, u)
    BY DEF PacketsInv
  <1>3. k # 0
    <2>1. len \in Int
      BY Lengths DEF PacketsInv
    <2>2. k = 0 => start = len
      BY <1>2, NothingFound
    <2> QED
      BY <1>1, <2>1, <2>2
  <1>4. PICK x \in Int :
          /\ 0 <= x /\ x + 2 < len
          /\ FlagFrom(buf, offset, len) = x
          /\ FlagFrom(Moved(x), 1, len - x) = 2
          /\ buf[x] = Flag /\ buf[x + 1] = sent[Len(got) + 1] /\ buf[x + 2] = Flag
          /\ Frames(buf, x + 3, len, sent, Len(got) + 1, k - 1)
    BY <1>2, <1>3, PacketFound
  <1>5. start = x /\ close = 2
    BY <1>4
  <1>6. buf' = Moved(x) /\ len' = len - x /\ offset' = 3 /\ got' = Append(got, Bytes(buf', 3))
    BY <1>1, <1>5
  <1> HIDE DEF start, close
  <1>7. PICK g \in Nat, s \in Nat : g = Len(got) /\ s = Len(sent)
    BY Lengths DEF PacketsInv
  <1>8. g + k + u = s
    BY <1>2, <1>7 DEF Pending
  <1>9. sent[g + 1] \in Payloads
    <2>1. g + 1 \in 1..s
      BY <1>3, <1>8
    <2> QED
      BY <1>7, <2>1, ElementOfSeq DEF PacketsInv, SockTyped
  <1>10. len \in Int /\ len <= MaxLen /\ MaxLen \in Nat
    BY Lengths DEF PacketsInv
  <1>11. /\ buf' \in [Index -> SockByte]
         /\ \A i \in 0..(len - x) - 1 : buf'[i] = buf[i + x]
    <2>1. x <= len
      BY <1>4, <1>10
    <2> QED
      BY <1>4, <1>6, <2>1, MovedBytes DEF PacketsInv
  <1>12. buf'[0] = Flag /\ buf'[1] = sent[g + 1] /\ buf'[2] = Flag
    <2>1. /\ 0 \in 0..(len - x) - 1 /\ 1 \in 0..(len - x) - 1 /\ 2 \in 0..(len - x) - 1
          /\ 0 + x = x /\ 1 + x = x + 1 /\ 2 + x = x + 2
      BY <1>4, <1>10
    <2> QED
      BY <1>4, <1>7, <1>11, <2>1
  <1>13. Bytes(buf', 3) = Packet(sent[g + 1])
    <2>1. 2 <= MaxLen
      BY <1>4, <1>10
    <2> QED
      BY <1>9, <1>11, <1>12, <2>1, PacketTaken
  <1>14. /\ got' \in Seq(Seq(SockByte)) /\ Len(got') = g + 1
         /\ \A i \in 1..Len(got') : got'[i] = Packet(sent'[i])
    <2>1. k + u # 0
      BY <1>3
    <2>2. got' = Append(got, Packet(sent[Len(got) + 1]))
      BY <1>6, <1>7, <1>13
    <2> QED
      BY <1>1, <1>2, <1>7, <2>1, <2>2, PacketGot
  <1>15. SockTyped'
    <2>1. len' \in 0..MaxLen /\ offset' \in 0..len'
      BY <1>4, <1>6, <1>10
    <2> QED
      BY <1>1, <1>11, <1>14, <2>1 DEF PacketsInv, SockTyped
  <1>16. Frames(buf', 3, len - x, sent, g + 1, k - 1)
    <2>1. PICK d \in Int : d = 0 - x
      BY <1>4
    <2>2. \A j \in x + 3..len - 1 : buf'[j + d] = buf[j]
      <3> SUFFICES ASSUME NEW j \in x + 3..len - 1
                   PROVE  buf'[j + d] = buf[j]
        OBVIOUS
      <3>1. PICK i \in 0..(len - x) - 1 : i = j + d /\ i + x = j
        BY <1>4, <1>10, <2>1
      <3> QED
        BY <1>11, <3>1
    <2>3. PICK z \in Int : z = 0
      OBVIOUS
    <2>4. PICK lo \in Int, m \in Int, n \in Nat : lo = x + 3 /\ m = g + 1 /\ n = k - 1
      BY <1>3
    <2>5. Frames(buf, lo, len, sent, m, n)
      BY <1>4, <1>7, <2>4
    <2>6. /\ \A j \in lo..len - 1 : buf'[j + d] = buf[j]
          /\ \A i \in m + 1..m + n : sent[i + z] = sent[i]
      BY <2>2, <2>3, <2>4
    <2>7. Frames(buf', lo + d, len + d, sent, m + z, n)
      BY <1>10, <2>5, <2>6, FramesMoved, Zenon
    <2>8. lo + d = 3 /\ len + d = len - x /\ m + z = g + 1
      BY <1>10, <2>1, <2>3, <2>4
    <2> QED
      BY <2>4, <2>7, <2>8
  <1>17. OnWay' = OnWay
    BY <1>1 DEF OnWay
  <1>18. Pending(k - 1, u)' /\ k - 1 \in Nat
    <2>1. (g + 1) + (k - 1) + u = s /\ (g + 1) + (k - 1) = g + k /\ k - 1 \in Nat
      BY <1>3, <1>8
    <2>2. Frames(OnWay, 1, Len(OnWay) + 1, sent, g + k, u)
      BY <1>2, <1>7 DEF Pending
    <2> QED
      BY <1>1, <1>6, <1>7, <1>14, <1>16, <1>17, <2>1, <2>2 DEF Pending
  <1>19. Len(OnWay') # 0 => OnWay'[1] = Flag
    BY <1>17 DEF PacketsInv
  <1>20. offset' # 0
    BY <1>6
  <1> QED
    BY <1>2, <1>14, <1>15, <1>18, <1>19, <1>20, Zenon DEF PacketsInv

-----------------------------------------------------------------------------
\* The scan that follows zrecv tests the flag and the end in the other order.
LEMMA ScanFound ==
  ASSUME NEW b, NEW end \in Int, NEW x \in 1..end,
         b[x] = Flag, \A k \in 1..x - 1 : b[k] # Flag
  PROVE  Scan(b, end) = x
  <1> DEFINE A(j) == (b[j] = Flag \/ j = end) /\ \A k \in 1..j - 1 : b[k] # Flag
  <1>1. ASSUME NEW j \in 1..end, A(j)
        PROVE  j = x
    <2>1. ~(j < x)
      <3>1. j < x => j \in 1..x - 1 /\ j # end
        OBVIOUS
      <3> QED
        BY <1>1, <3>1
    <2>2. ~(x < j)
      <3>1. x < j => x \in 1..j - 1
        OBVIOUS
      <3> QED
        BY <1>1, <3>1
    <2> QED
      BY <2>1, <2>2
  <1>2. A(x)
    OBVIOUS
  <1>3. Scan(b, end) = CHOOSE j \in 1..end : A(j)
    BY DEF Scan
  <1> HIDE DEF A
  <1> QED
    BY <1>1, <1>2, <1>3

LEMMA BytesReceived ==
  ASSUME SockTyped, NEW b \in [Index -> SockByte]
  PROVE  /\ Zrecv(b, Len(stream)) \in [Index -> SockByte]
         /\ \A i \in 0..Len(stream) - 1 : Zrecv(b, Len(stream))[i] = stream[i + 1]
  <1>1. stream \in Seq(SockByte) /\ Len(stream) \in Nat /\ Len(stream) <= MaxLen /\ MaxLen \in Nat
    BY Lengths DEF SockTyped
  <1>2. ASSUME NEW i \in Index
        PROVE  (IF i < Len(stream) THEN stream[i + 1] ELSE b[i]) \in SockByte
    <2>1. CASE i < Len(stream)
      <3>1. i + 1 \in 1..Len(stream)
        BY <1>1, <2>1 DEF Index
      <3>2. stream[i + 1] \in SockByte
        BY <1>1, <3>1, ElementOfSeq
      <3> QED
        BY <2>1, <3>2
    <2>2. CASE ~(i < Len(stream))
      BY <2>2
    <2> QED
      BY <2>1, <2>2
  <1>3. Zrecv(b, Len(stream)) \in [Index -> SockByte]
    BY <1>2 DEF Zrecv
  <1>4. \A i \in 0..Len(stream) - 1 : i \in Index /\ i < Len(stream)
    BY <1>1 DEF Index
  <1> QED
    BY <1>3, <1>4 DEF Zrecv

LEMMA PacketReceived ==
  ASSUME PacketsInv, WholePackets, ReceivePacket
  PROVE  PacketsInv'
  <1> DEFINE start == FlagFrom(buf, offset, len)
             moved == Moved(start)
             end == Scan(buf', len')
  <1>1. /\ tosend = <<>>
        /\ offset # 0 /\ start < len => FlagFrom(moved, 1, len - start) = len - start
        /\ buf' = Zrecv(moved, Len(stream)) /\ len' = Len(stream) /\ stream' = <<>>
        /\ tosend' = tosend /\ sent' = sent
    <2>1. SubSeq(stream, Len(stream) + 1, Len(stream)) = <<>>
      BY SubSeqEmpty DEF PacketsInv, SockTyped
    <2> QED
      BY <2>1 DEF ReceivePacket
  <1>2. \/ len' = 0 /\ offset' = 0 /\ got' = got
        \/ /\ len' # 0 /\ buf'[end] = Flag
           /\ offset' = end + 1 /\ got' = Append(got, Bytes(buf', end + 1))
        \/ len' # 0 /\ buf'[end] # Flag
    BY DEF ReceivePacket
  <1>3. PICK w \in Nat, g \in Nat, s \in Nat : w = Len(stream) /\ g = Len(got) /\ s = Len(sent)
    BY Lengths DEF PacketsInv
  <1>4. /\ len \in Int /\ 0 <= len /\ len <= MaxLen /\ MaxLen \in Nat /\ w <= MaxLen
    BY <1>3, Lengths DEF PacketsInv, SockTyped
  <1>5. PICK k \in Nat, u \in Nat : Pending(k, u)
    BY DEF PacketsInv
  <1>6. k = 0
    <2> SUFFICES ASSUME k # 0 PROVE FALSE
      OBVIOUS
    <2>1. PICK x \in Int :
            /\ x + 2 < len /\ FlagFrom(buf, offset, len) = x
            /\ FlagFrom(Moved(x), 1, len - x) = 2
      BY <1>5, PacketFound
    <2>2. offset # 0
      BY <1>5, PacketFound
    <2>3. start = x /\ FlagFrom(moved, 1, len - start) = 2
      BY <2>1
    <2> HIDE DEF start, moved
    <2>4. start < len /\ 2 # len - start
      BY <1>4, <2>1, <2>3
    <2> QED
      BY <1>1, <2>2, <2>3, <2>4
  <1>7. Pending(0, u)
    BY <1>5, <1>6
  <1>8. start = len
    BY <1>7, NothingFound
  <1>9. moved \in [Index -> SockByte]
    <2>1. Moved(len) \in [Index -> SockByte]
      BY <1>4, MovedBytes DEF PacketsInv
    <2> QED
      BY <1>8, <2>1
  <1> HIDE DEF start, moved
  <1>10. /\ buf' \in [Index -> SockByte]
         /\ \A i \in 0..w - 1 : buf'[i] = stream[i + 1]
    BY <1>1, <1>3, <1>9, BytesReceived DEF PacketsInv
  <1>11. OnWay = stream
    BY <1>1, AllSent DEF PacketsInv
  <1>12. OnWay' = <<>> /\ Len(OnWay') = 0
    <2>1. OnWay' = <<>> \o <<>>
      BY <1>1 DEF OnWay
    <2> QED
      BY <2>1
  <1>13. g + u = s
    BY <1>3, <1>7 DEF Pending
  <1>14. Frames(stream, 1, w + 1, sent, g, u)
    <2>1. Frames(OnWay, 1, Len(OnWay) + 1, sent, g + 0, u)
      BY <1>3, <1>7 DEF Pending
    <2>2. g + 0 = g
      OBVIOUS
    <2> QED
      BY <1>3, <1>11, <2>1, <2>2
  <1>15. \A i \in Int : Frames(OnWay', 1, Len(OnWay') + 1, sent, i, 0)
    <2>1. \A j \in 1..(0 + 1) - 1 : OnWay'[j] # Flag
      OBVIOUS
    <2>2. 1 \in Int /\ 0 + 1 \in Int
      OBVIOUS
    <2> QED
      BY <1>12, <2>1, <2>2, NoFrames
  <1>16. CASE w = 0
    <2>1. u = 0
      <3> SUFFICES ASSUME u # 0 PROVE FALSE
        OBVIOUS
      <3>1. 1 \in Int /\ w + 1 \in Int /\ g \in Int
        OBVIOUS
      <3>2. PICK x \in Int : 1 <= x /\ x + 2 < w + 1
        BY <1>14, <3>1, FirstFrame
      <3> QED
        BY <1>16, <3>2
    <2>2. len' = 0 /\ offset' = 0 /\ got' = got
      BY <1>1, <1>2, <1>3, <1>16
    <2>3. Frames(buf', 0, 0, sent, g, 0)
      <3>1. \A j \in 0..0 - 1 : buf'[j] # Flag
        OBVIOUS
      <3>2. 0 \in Int
        OBVIOUS
      <3> QED
        BY <3>1, <3>2, NoFrames
    <2>4. Pending(0, 0)'
      <3>1. g + 0 \in Int /\ g + 0 + 0 = s
        BY <1>13, <2>1
      <3> QED
        BY <1>1, <1>3, <1>15, <2>2, <2>3, <3>1 DEF Pending
    <2>5. SockTyped'
      BY <1>1, <1>4, <1>10, <2>2 DEF PacketsInv, SockTyped
    <2>6. \A i \in 1..Len(got') : got'[i] = Packet(sent'[i])
      BY <1>1, <2>2 DEF PacketsInv
    <2> QED
      BY <1>12, <2>2, <2>4, <2>5, <2>6 DEF PacketsInv
  <1>17. CASE w # 0
    <2>1. stream[1] = Flag
      BY <1>3, <1>11, <1>17 DEF PacketsInv
    <2>2. 1 \in Int /\ w + 1 \in Int /\ g \in Int /\ 1 \in 1..(w + 1) - 1
      BY <1>17
    <2>3. u # 0
      <3> SUFFICES ASSUME u = 0 PROVE FALSE
        OBVIOUS
      <3>1. Frames(stream, 1, w + 1, sent, g, 0)
        BY <1>14
      <3>2. \A j \in 1..(w + 1) - 1 : stream[j] # Flag
        BY <2>2, <3>1, NoFrames
      <3> QED
        BY <2>1, <2>2, <3>2
    <2>4. PICK x \in Int :
            /\ 1 <= x /\ x + 2 < w + 1
            /\ stream[x] = Flag /\ stream[x + 1] = sent[g + 1] /\ stream[x + 2] = Flag
            /\ \A j \in 1..x - 1 : stream[j] # Flag
            /\ Frames(stream, x + 3, w + 1, sent, g + 1, u - 1)
      BY <1>14, <2>2, <2>3, FirstFrame
    <2>5. x = 1
      <3>1. x # 1 => 1 \in 1..x - 1
        BY <2>4
      <3> QED
        BY <2>1, <2>4, <3>1
    <2>6. 3 <= w /\ stream[2] = sent[g + 1] /\ stream[3] = Flag
      BY <2>4, <2>5
    <2>7. buf'[0] = Flag /\ buf'[1] = sent[g + 1] /\ buf'[2] = Flag
      <3>1. 0 \in 0..w - 1 /\ 1 \in 0..w - 1 /\ 2 \in 0..w - 1
        BY <2>6
      <3> QED
        BY <1>10, <2>1, <2>6, <3>1
    <2>8. sent[g + 1] \in Payloads /\ sent[g + 1] # Flag
      <3>1. g + 1 \in 1..s
        BY <1>13, <2>3
      <3> QED
        BY <1>3, <3>1, ElementOfSeq, ByteKinds DEF PacketsInv, SockTyped
    <2>9. end = 2
      <3>1. 2 \in 1..w /\ w \in Int /\ \A j \in 1..2 - 1 : j = 1
        BY <2>6
      <3>2. \A j \in 1..2 - 1 : buf'[j] # Flag
        BY <2>7, <2>8, <3>1
      <3>3. Scan(buf', w) = 2
        BY <2>7, <3>1, <3>2, ScanFound
      <3> QED
        BY <1>1, <1>3, <3>3
    <2> HIDE DEF end
    <2>10. offset' = 3 /\ got' = Append(got, Bytes(buf', 3)) /\ len' = w
      BY <1>1, <1>2, <1>3, <1>17, <2>7, <2>9
    <2>11. Bytes(buf', 3) = Packet(sent[g + 1])
      <3>1. 2 <= MaxLen
        BY <1>4, <2>6
      <3> QED
        BY <1>10, <2>7, <2>8, <3>1, PacketTaken
    <2>12. /\ got' \in Seq(Seq(SockByte)) /\ Len(got') = g + 1
           /\ \A i \in 1..Len(got') : got'[i] = Packet(sent'[i])
      <3>1. 0 + u # 0 /\ 0 \in Nat
        BY <2>3
      <3>2. got' = Append(got, Packet(sent[Len(got) + 1]))
        BY <1>3, <2>10, <2>11
      <3> QED
        BY <1>1, <1>3, <1>7, <3>1, <3>2, PacketGot
    <2>13. SockTyped'
      <3>1. len' \in 0..MaxLen /\ offset' \in 0..len'
        BY <1>4, <2>6, <2>10
      <3>2. stream' \in Seq(SockByte) /\ Len(stream') <= MaxLen
        BY <1>1, <1>4
      <3> QED
        BY <1>1, <1>10, <2>12, <3>1, <3>2 DEF PacketsInv, SockTyped
    <2>14. Frames(buf', 3, w, sent, g + 1, u - 1)
      <3>1. PICK lo \in Int, hi \in Int, m \in Int, n \in Nat, d \in Int, z \in Int :
              lo = 4 /\ hi = w + 1 /\ m = g + 1 /\ n = u - 1 /\ d = -1 /\ z = 0
        <4>1. -1 \in Int /\ u - 1 \in Nat
          BY <2>3
        <4> QED
          BY <4>1
      <3>2. Frames(stream, lo, hi, sent, m, n)
        <4>1. x + 3 = 4
          BY <2>5
        <4> QED
          BY <2>4, <3>1, <4>1
      <3>3. \A j \in lo..hi - 1 : buf'[j + d] = stream[j]
        <4> SUFFICES ASSUME NEW j \in lo..hi - 1
                     PROVE  buf'[j + d] = stream[j]
          OBVIOUS
        <4>1. PICK i \in 0..w - 1 : i = j + d /\ i + 1 = j
          BY <3>1
        <4> QED
          BY <1>10, <4>1
      <3>4. \A i \in m + 1..m + n : sent[i + z] = sent[i]
        BY <3>1
      <3>5. Frames(buf', lo + d, hi + d, sent, m + z, n)
        BY <3>2, <3>3, <3>4, FramesMoved, Zenon
      <3>6. lo + d = 3 /\ hi + d = w /\ m + z = g + 1
        BY <3>1
      <3> QED
        BY <3>1, <3>5, <3>6
    <2>15. Pending(u - 1, 0)' /\ u - 1 \in Nat
      <3>1. (g + 1) + (u - 1) + 0 = s /\ (g + 1) + (u - 1) \in Int /\ u - 1 \in Nat
        BY <1>13, <2>3
      <3> QED
        BY <1>1, <1>3, <1>15, <2>10, <2>12, <2>14, <3>1 DEF Pending
    <2>16. offset' # 0 /\ 0 \in Nat
      BY <2>10
    <2> QED
      BY <1>12, <2>12, <2>13, <2>15, <2>16, Zenon DEF PacketsInv
  <1> QED
    BY <1>16, <1>17

LEMMA PacketsInit ==
  ASSUME SockInit
  PROVE  PacketsInv
  <1>1. /\ tosend = <<>> /\ stream = <<>> /\ sent = <<>> /\ got = <<>>
        /\ buf = [i \in Index |-> Filler] /\ offset = 0 /\ len = 0
    BY DEF SockInit
  <1>2. buf \in [Index -> SockByte]
    BY <1>1, ByteKinds
  <1>3. SockTyped
    BY <1>1, <1>2, SocketsAssumption DEF SockTyped
  <1>4. OnWay = <<>> /\ Len(OnWay) = 0
    <2>1. OnWay = <<>> \o <<>>
      BY <1>1 DEF OnWay
    <2> QED
      BY <2>1
  <1>5. \A b : Frames(b, 0, 0, sent, 0, 0) /\ Frames(b, 1, 1, sent, 0, 0)
    <2>1. \A b : /\ \A j \in 0..0 - 1 : b[j] # Flag
                 /\ \A j \in 1..1 - 1 : b[j] # Flag
      OBVIOUS
    <2>2. 0 \in Int /\ 1 \in Int
      OBVIOUS
    <2> QED
      BY <2>1, <2>2, NoFrames
  <1>6. Pending(0, 0)
    <2>1. Len(got) = 0 /\ Len(sent) = 0 /\ 0 + 0 = 0 /\ 0 + 1 = 1 /\ 0 + 0 + 0 = 0
      BY <1>1
    <2> QED
      BY <1>1, <1>4, <1>5, <2>1 DEF Pending
  <1>7. 0 \in Nat
    OBVIOUS
  <1>8. \A i \in 1..Len(got) : got[i] = Packet(sent[i])
    BY <1>1
  <1> QED
    BY <1>1, <1>3, <1>4, <1>6, <1>7, <1>8 DEF PacketsInv

LEMMA PacketsUnchanged ==
  ASSUME PacketsInv, UNCHANGED <<tosend, stream, sent, readVars>>
  PROVE  PacketsInv'
  <1>1. /\ tosend' = tosend /\ stream' = stream /\ sent' = sent
        /\ buf' = buf /\ offset' = offset /\ len' = len /\ got' = got
    BY DEF readVars
  <1>2. OnWay' = OnWay
    BY <1>1 DEF OnWay
  <1>3. SockTyped'
    BY <1>1 DEF PacketsInv, SockTyped
  <1>4. \A k, u : Pending(k, u) => Pending(k, u)'
    BY <1>1, <1>2 DEF Pending
  <1> QED
    BY <1>1, <1>2, <1>3, <1>4 DEF PacketsInv

LEMMA PacketsNext ==
  ASSUME PacketsInv, WholePackets, [SockNext]_sockVars
  PROVE  PacketsInv'
  <1>1. ASSUME NEW p \in Payloads, SendPacket(p)
        PROVE  PacketsInv'
    BY <1>1, PacketSent
  <1>2. CASE Zsend
    BY <1>2, BytesSent
  <1>3. CASE NextPacket
    BY <1>3, PacketFromBuffer
  <1>4. CASE ReceivePacket
    BY <1>4, PacketReceived
  <1>5. CASE \/ Zsocket \/ BadAddress \/ Listen \/ ConnectBlocking \/ ConnectStart \/ Resolve
             \/ SelectDone \/ Zaccept \/ Zsockclose
    <2>1. UNCHANGED <<tosend, stream, sent, readVars>>
      BY <1>5 DEF Zsocket, BadAddress, Listen, ConnectBlocking, ConnectStart, Resolve,
                  SelectDone, Zaccept, Zsockclose
    <2> QED
      BY <2>1, PacketsUnchanged
  <1>6. CASE UNCHANGED sockVars
    BY <1>6, PacketsUnchanged DEF sockVars
  <1> QED
    BY <1>1, <1>2, <1>3, <1>4, <1>5, <1>6 DEF SockNext

(***************************************************************************)
(* If the reader calls zrecv_packet only when all that was sent has        *)
(* arrived, it returns the packets as they were sent, whatever filler      *)
(* stands between them, and those that it did not return yet are in the    *)
(* buffer or on their way (socket.c:281-342).  A call in between would cut *)
(* a packet, which the code loses.                                         *)
(***************************************************************************)
THEOREM PacketsArrive ==
  ASSUME WholePackets
  PROVE  SockSpec => []PacketsDelivered
  <1>1. SockInit => PacketsInv
    BY PacketsInit
  <1>2. PacketsInv /\ [SockNext]_sockVars => PacketsInv'
    BY PacketsNext
  <1>3. PacketsInv => PacketsDelivered
    BY PacketsCounted
  <1> QED
    BY <1>1, <1>2, <1>3, PTL DEF SockSpec

-----------------------------------------------------------------------------
(***************************************************************************)
(* The walks.  The invariant: where a name that is read and not yet given  *)
(* to func is, and that each entry of which the directory was given to     *)
(* func was so too, or is still to be.                                     *)
(***************************************************************************)
Frame == [dir : Entries, names : SUBSET Entries]
FuncCall == [entry : Entries, flag : {"FTW_NS", "FTW_F", "FTW_D", "FTW_DNR"}, ret : {0, 1}]

\* func was called for the entry, for it as a directory.
Called(e) == \E i \in 1..Len(calls) : calls[i].entry = e /\ calls[i].flag # "FTW_DNR"
CalledDir(e) == \E i \in 1..Len(calls) : calls[i].entry = e /\ calls[i].flag = "FTW_D"

\* The entry is among the names to read, its directory is open.
Named(e) == \E i \in 1..Len(frames) : e \in frames[i].names
Reading(e) == \E i \in 1..Len(frames) : frames[i].dir = e

WalkTyped ==
  /\ kind \in [Entries -> Kinds] /\ steady \in SUBSET Entries
  /\ walker \in {"idle", "zftw", "zftw_nr"} /\ finished \in {"no", "yes", "stopped"}
  /\ frames \in Seq(Frame) /\ calls \in Seq(FuncCall)
  /\ next = <<>> \/ \E e \in Entries : next = <<e>> \/ next = <<e, e>>

TreeSteady ==
  /\ \A e \in Entries \ {Root} : kind[e] # "none" => kind[Dir(e)] = "dir"
  /\ \A e \in steady : kind[e] # "none"
  /\ \A e \in steady \ {Root} : Dir(e) \in steady

\* Before and after the walk.
AtRest ==
  /\ walker = "idle" => /\ next = <<>> /\ frames = <<>> /\ calls = <<>>
                        /\ finished = "no" /\ steady = {}
  /\ finished # "no" => next = <<>> /\ frames = <<>>

FramesInv ==
  /\ \A i \in 1..Len(frames) :
       /\ CalledDir(frames[i].dir)
       /\ \A e \in frames[i].names : e # Root /\ Dir(e) = frames[i].dir /\ ~Called(e)
  /\ \A i, j \in 1..Len(frames) : frames[i].dir = frames[j].dir => i = j

NextInv ==
  \A e \in Entries :
    /\ next = <<e>> => /\ ~Called(e) /\ ~Named(e)
                       /\ e = Root => frames = <<>>
                       /\ e # Root => CalledDir(Dir(e))
    /\ next = <<e, e>> => /\ Len(calls) # 0 /\ calls[Len(calls)].entry = e
                          /\ calls[Len(calls)].flag = "FTW_D"
                          /\ ~Reading(e)

CallsInv ==
  /\ \A i, j \in 1..Len(calls) :
       calls[i].entry = calls[j].entry /\ calls[i].flag # "FTW_DNR" /\ calls[j].flag # "FTW_DNR"
         => i = j
  /\ \A i \in 1..Len(calls) : calls[i].entry # Root =>
       \E j \in 1..i - 1 : calls[j].entry = Dir(calls[i].entry) /\ calls[j].flag = "FTW_D"
  /\ walker = "zftw" => /\ \A i \in 1..Len(calls) - 1 : calls[i].ret = 0
                        /\ finished # "stopped" => \A i \in 1..Len(calls) : calls[i].ret = 0
  /\ \A i \in 1..Len(calls) :
       calls[i].entry \in steady /\ calls[i].flag # "FTW_DNR"
         => calls[i].flag = FtwFlag(calls[i].entry)

\* Nothing is left out.
Progress ==
  walker # "idle" /\ finished # "stopped" =>
    /\ Root \in steady => Called(Root) \/ next = <<Root>>
    /\ \A e \in (steady \cap ToVisit) \ {Root} :
         Called(Dir(e)) /\ next # <<Dir(e), Dir(e)>> => Called(e) \/ next = <<e>> \/ Named(e)

WalkInv ==
  WalkTyped /\ TreeSteady /\ AtRest /\ FramesInv /\ NextInv /\ CallsInv /\ Progress

\* The tree.
LEMMA Inner ==
  ASSUME NEW d \in Entries, NEW e \in Inside(d)
  PROVE  e \in Entries /\ e # Root /\ Dir(e) = d
  BY DEF Inside

LEMMA BelowClosed ==
  ASSUME NEW d \in Entries
  PROVE  /\ d \in Below(d)
         /\ \A e \in Entries \ {Root} : Dir(e) \in Below(d) => e \in Below(d)
  <1> DEFINE Shut(set) == d \in set /\ \A e \in set : Inside(e) \subseteq set
  <1>1. Below(d) = {e \in Entries : \A set \in SUBSET Entries : Shut(set) => e \in set}
    BY DEF Below
  <1>2. \A set : Shut(set) => d \in set
    OBVIOUS
  <1>3. \A set : Shut(set) => \A e \in Entries \ {Root} : Dir(e) \in set => e \in set
    BY DEF Inside
  <1> HIDE DEF Shut
  <1> QED
    BY <1>1, <1>2, <1>3

\* What holds of the root and passes from a directory to what is in it holds of all.
LEMMA TreeInduction ==
  ASSUME NEW S \in SUBSET Entries, Root \in S,
         \A e \in Entries \ {Root} : Dir(e) \in S => e \in S
  PROVE  S = Entries
  <1>1. \A d \in S : Inside(d) \subseteq S
    BY DEF Inside
  <1>2. \A e \in Below(Root) : e \in S
    BY <1>1 DEF Below
  <1> QED
    BY <1>2, FilesAssumption

\* The paths to walk next.
LEMMA NextPaths ==
  /\ \A a, b : <<a>> = <<b>> => a = b
  /\ \A a, b : <<a, a>> = <<b, b>> => a = b
  /\ \A a, b : <<a>> # <<b, b>>
  /\ \A a : <<a>> # <<>> /\ <<a, a>> # <<>>
  <1>1. \A a, b : <<a>> = <<b>> => a = b
    OBVIOUS
  <1>2. \A a, b : <<a, a>> = <<b, b>> => a = b
    OBVIOUS
  <1>3. \A a, b : <<a>> # <<b, b>>
    <2>1. \A a, b : Len(<<a>>) = 1 /\ Len(<<b, b>>) = 2
      OBVIOUS
    <2> QED
      BY <2>1
  <1>4. \A a : <<a>> # <<>> /\ <<a, a>> # <<>>
    <2>1. \A a : Len(<<a>>) = 1 /\ Len(<<a, a>>) = 2 /\ Len(<<>>) = 0
      OBVIOUS
    <2> QED
      BY <2>1
  <1> QED
    BY <1>1, <1>2, <1>3, <1>4

\* The steps of a walk happen while it runs.
LEMMA Running ==
  ASSUME WalkInv, next # <<>> \/ frames # <<>>
  PROVE  finished = "no" /\ walker # "idle"
  BY DEF WalkInv, AtRest

\* A member of steady has a directory, which is there.
LEMMA SteadyDir ==
  ASSUME WalkInv, NEW e \in steady, e # Root
  PROVE  e \in Entries /\ Dir(e) \in Entries /\ kind[Dir(e)] = "dir" /\ kind[e] # "none"
  BY FilesAssumption DEF WalkInv, WalkTyped, TreeSteady

LEMMA DirsAreCalled ==
  ASSUME NEW e, CalledDir(e)
  PROVE  Called(e)
  <1>1. "FTW_D" # "FTW_DNR"
    OBVIOUS
  <1> QED
    BY <1>1 DEF Called, CalledDir

LEMMA WalkLengths ==
  ASSUME WalkTyped
  PROVE  /\ Len(frames) \in Nat /\ Len(calls) \in Nat
         /\ DOMAIN frames = 1..Len(frames) /\ DOMAIN calls = 1..Len(calls)
         /\ \A i \in 1..Len(frames) : frames[i] \in Frame
         /\ \A i \in 1..Len(calls) : calls[i] \in FuncCall
  BY LenProperties, ElementOfSeq DEF WalkTyped

LEMMA WalkFinished ==
  ASSUME WalkInv
  PROVE  WalkVisits
  <1>1. PICK n \in Nat : n = Len(calls) /\ DOMAIN calls = 1..n
    BY WalkLengths DEF WalkInv
  <1>2. \A e \in Entries : Cardinality(CallsFor(e)) <= 1
    <2> SUFFICES ASSUME NEW e \in Entries
                 PROVE  Cardinality(CallsFor(e)) <= 1
      OBVIOUS
    <2>1. \A i, j \in CallsFor(e) : i = j
      BY <1>1 DEF CallsFor, WalkInv, CallsInv
    <2>2. CASE CallsFor(e) = {}
      BY <2>2, FS_EmptySet
    <2>3. CASE CallsFor(e) # {}
      <3>1. PICK i : CallsFor(e) = {i}
        BY <2>1, <2>3
      <3>2. Cardinality(CallsFor(e)) = 1
        BY <3>1, FS_Singleton
      <3> QED
        BY <3>2
    <2> QED
      BY <2>2, <2>3
  <1>3. ASSUME finished = "yes", NEW e \in steady \cap ToVisit
        PROVE  \E i \in CallsFor(e) : calls[i].flag = FtwFlag(e)
    <2>1. next = <<>> /\ frames = <<>> /\ walker # "idle" /\ finished # "stopped"
      BY <1>3 DEF WalkInv, AtRest
    <2>2. /\ \A x \in Entries : ~Named(x)
          /\ \A x : next # <<x>> /\ next # <<x, x>>
      BY <2>1, NextPaths DEF Named
    <2>3. Root \in steady => Called(Root)
      BY <2>1, <2>2 DEF WalkInv, Progress
    <2>4. \A x \in (steady \cap ToVisit) \ {Root} : Called(Dir(x)) => Called(x)
      BY <2>1, <2>2 DEF WalkInv, WalkTyped, Progress
    <2>5. e \in Entries /\ \A x \in steady \ {Root} : Dir(x) \in steady
      BY DEF WalkInv, WalkTyped, TreeSteady
    <2>6. Called(e)
      <3>1. CASE walker = "zftw"
        <4> DEFINE S == {x \in Entries : x \in steady => Called(x)}
        <4>1. Root \in S
          BY <2>3, FilesAssumption
        <4>2. \A x \in Entries \ {Root} : Dir(x) \in S => x \in S
          BY <2>4, <2>5, <3>1 DEF ToVisit
        <4>3. S = Entries
          <5>1. S \in SUBSET Entries
            OBVIOUS
          <5> HIDE DEF S
          <5> QED
            BY <4>1, <4>2, <5>1, TreeInduction
        <4> QED
          BY <2>5, <4>3
      <3>2. CASE walker # "zftw"
        <4>1. e = Root \/ e \in Inside(Root)
          BY <3>2 DEF ToVisit
        <4>2. CASE e \in Inside(Root)
          <5>1. e # Root /\ Dir(e) = Root /\ Root \in steady
            BY <2>5, <4>2 DEF Inside
          <5> QED
            BY <2>3, <2>4, <5>1
        <4> QED
          BY <2>3, <4>1, <4>2
      <3> QED
        BY <3>1, <3>2
    <2>7. PICK i \in 1..n : calls[i].entry = e /\ calls[i].flag # "FTW_DNR"
      BY <1>1, <2>6 DEF Called
    <2>8. calls[i].flag = FtwFlag(e)
      BY <1>1, <2>7 DEF WalkInv, CallsInv
    <2> QED
      BY <1>1, <2>7, <2>8 DEF CallsFor
  <1> QED
    BY <1>1, <1>2, <1>3 DEF WalkVisits, WalkInv, CallsInv

-----------------------------------------------------------------------------
LEMMA WalkInit ==
  ASSUME FilesInit
  PROVE  WalkInv
  <1>1. /\ frames = <<>> /\ calls = <<>> /\ next = <<>> /\ steady = {} /\ walker = "idle"
        /\ finished = "no" /\ kind \in [Entries -> Kinds]
        /\ \A e \in Entries \ {Root} : kind[e] # "none" => kind[Dir(e)] = "dir"
    BY DEF FilesInit
  <1>2. Len(frames) = 0 /\ Len(calls) = 0 /\ 1..0 = {}
    BY <1>1
  <1>3. WalkTyped /\ TreeSteady /\ AtRest
    BY <1>1 DEF WalkTyped, TreeSteady, AtRest
  <1>4. FramesInv /\ CallsInv
    BY <1>1, <1>2 DEF FramesInv, CallsInv
  <1>5. NextInv /\ Progress
    BY <1>1, NextPaths DEF NextInv, Progress
  <1> QED
    BY <1>3, <1>4, <1>5 DEF WalkInv

\* A change of the tree.
LEMMA TreeChanged ==
  ASSUME WalkInv, NEW e \in Entries, NEW k \in Kinds, Change(e, k),
         \/ k # "none" /\ Creatable(e)
         \/ k = "none" /\ (Listed(e) = {} \/ kind[e] = "file")
  PROVE  WalkInv'
  <1>1. /\ kind' = [kind EXCEPT ![e] = k] /\ steady' = steady \ Below(e)
        /\ walker' = walker /\ frames' = frames /\ next' = next /\ calls' = calls
        /\ finished' = finished
    BY DEF Change, walkVars
  <1>2. /\ kind \in [Entries -> Kinds] /\ steady \in SUBSET Entries
        /\ kind'[e] = k /\ \A x \in Entries : x # e => kind'[x] = kind[x]
    BY <1>1 DEF WalkInv, WalkTyped
  <1>3. /\ e \notin steady' /\ steady' \subseteq steady
        /\ \A x \in steady' \ {Root} : Dir(x) \in steady => Dir(x) \in steady'
    BY <1>1, <1>2, BelowClosed
  <1>4. \A x \in steady' : x \in Entries /\ kind'[x] = kind[x] /\ FtwFlag(x)' = FtwFlag(x)
    BY <1>2, <1>3 DEF FtwFlag
  <1>5. WalkTyped'
    BY <1>1, <1>2 DEF WalkInv, WalkTyped
  <1>6. ASSUME NEW x \in Entries \ {Root}, kind'[x] # "none"
        PROVE  kind'[Dir(x)] = "dir"
    <2>1. Dir(x) \in Entries
      BY FilesAssumption
    <2>2. kind[x] # "none" => kind[Dir(x)] = "dir"
      BY DEF WalkInv, TreeSteady
    <2>3. CASE k # "none" /\ Creatable(e)
      <3>1. kind[e] = "none" /\ kind[Dir(e)] = "dir"
        BY <2>3 DEF Creatable
      <3>2. Dir(x) # e
        BY <1>2, <1>6, <2>2, <3>1
      <3> QED
        BY <1>2, <1>6, <2>1, <2>2, <3>1, <3>2
    <2>4. CASE k = "none" /\ (Listed(e) = {} \/ kind[e] = "file")
      <3>1. x # e /\ kind[x] # "none"
        BY <1>2, <1>6, <2>4
      <3>2. Dir(x) # e
        BY <2>2, <2>4, <3>1 DEF Listed, Inside
      <3> QED
        BY <1>2, <2>1, <2>2, <3>1, <3>2
    <2> QED
      BY <2>3, <2>4
  <1>7. TreeSteady'
    <2>1. \A x \in steady' : kind'[x] # "none"
      BY <1>3, <1>4 DEF WalkInv, TreeSteady
    <2>2. \A x \in steady' \ {Root} : Dir(x) \in steady'
      BY <1>3 DEF WalkInv, TreeSteady
    <2> QED
      BY <1>6, <2>1, <2>2 DEF TreeSteady
  <1>8. AtRest'
    BY <1>1, <1>3 DEF WalkInv, AtRest
  <1>9. \A x : (Called(x)' <=> Called(x)) /\ (CalledDir(x)' <=> CalledDir(x))
               /\ (Named(x)' <=> Named(x)) /\ (Reading(x)' <=> Reading(x))
    BY <1>1 DEF Called, CalledDir, Named, Reading
  <1>10. FramesInv'
    BY <1>1, <1>9 DEF WalkInv, FramesInv
  <1>11. NextInv'
    BY <1>1, <1>9 DEF WalkInv, NextInv
  <1>12. CallsInv'
    <2>1. \A i \in 1..Len(calls') :
            calls'[i].entry \in steady' /\ calls'[i].flag # "FTW_DNR"
              => calls'[i].flag = FtwFlag(calls[i].entry)'
      BY <1>1, <1>3, <1>4 DEF WalkInv, CallsInv, FtwFlag
    <2> QED
      BY <1>1, <2>1 DEF WalkInv, CallsInv
  <1>13. Progress'
    <2>1. ToVisit' = ToVisit
      BY <1>1 DEF ToVisit
    <2> QED
      BY <1>1, <1>3, <1>9, <2>1 DEF WalkInv, Progress
  <1> QED
    BY <1>5, <1>7, <1>8, <1>10, <1>11, <1>12, <1>13 DEF WalkInv

LEMMA WalkStarts ==
  ASSUME WalkInv, NEW w \in {"zftw", "zftw_nr"}, Start(w)
  PROVE  WalkInv'
  <1>1. /\ walker = "idle" /\ walker' = w /\ next' = <<Root>>
        /\ steady' = {e \in Entries : kind[e] # "none"}
        /\ kind' = kind /\ frames' = frames /\ calls' = calls /\ finished' = finished
    BY DEF Start
  <1>2. frames = <<>> /\ calls = <<>> /\ finished = "no"
    BY <1>1 DEF WalkInv, AtRest
  <1>3. Len(frames') = 0 /\ Len(calls') = 0 /\ 1..0 = {}
    BY <1>1, <1>2
  <1>4. WalkTyped'
    BY <1>1, FilesAssumption DEF WalkInv, WalkTyped
  <1>5. TreeSteady'
    BY <1>1, FilesAssumption DEF WalkInv, TreeSteady
  <1>6. AtRest'
    BY <1>1, <1>2 DEF AtRest
  <1>7. FramesInv' /\ CallsInv'
    BY <1>3 DEF FramesInv, CallsInv
  <1>8. \A e : ~Called(e)' /\ ~Named(e)' /\ ~Reading(e)'
    BY <1>3 DEF Called, Named, Reading
  <1>9. \A e \in Entries : (next' = <<e>> <=> e = Root) /\ next' # <<e, e>>
    BY <1>1, NextPaths
  <1>10. NextInv'
    BY <1>1, <1>2, <1>8, <1>9 DEF NextInv
  <1>11. Progress'
    BY <1>1, <1>8, FilesAssumption DEF Progress, WalkInv, WalkTyped
  <1> QED
    BY <1>4, <1>5, <1>6, <1>7, <1>10, <1>11 DEF WalkInv

LEMMA WalkReturns ==
  ASSUME WalkInv, Return
  PROVE  WalkInv'
  <1>1. /\ walker # "idle" /\ finished = "no" /\ next = <<>> /\ frames = <<>> /\ finished' = "yes"
        /\ kind' = kind /\ steady' = steady /\ walker' = walker /\ frames' = frames
        /\ next' = next /\ calls' = calls
    BY DEF Return, treeVars
  <1>2. \A x : (Called(x)' <=> Called(x)) /\ (CalledDir(x)' <=> CalledDir(x))
               /\ (Named(x)' <=> Named(x)) /\ (Reading(x)' <=> Reading(x))
    BY <1>1 DEF Called, CalledDir, Named, Reading
  <1>3. ToVisit' = ToVisit
    BY <1>1 DEF ToVisit
  <1>4. WalkTyped' /\ TreeSteady' /\ AtRest'
    BY <1>1 DEF WalkInv, WalkTyped, TreeSteady, AtRest
  <1>5. FramesInv' /\ NextInv'
    BY <1>1, <1>2 DEF WalkInv, FramesInv, NextInv
  <1>6. CallsInv'
    BY <1>1 DEF WalkInv, CallsInv, FtwFlag
  <1>7. Progress'
    BY <1>1, <1>2, <1>3 DEF WalkInv, Progress
  <1> QED
    BY <1>4, <1>5, <1>6, <1>7 DEF WalkInv

-----------------------------------------------------------------------------
(* Steps that call func.                                                   *)

\* One more call.
LEMMA OneMoreCall ==
  ASSUME WalkTyped, NEW c \in FuncCall, calls' = Append(calls, c)
  PROVE  /\ Len(calls') = Len(calls) + 1 /\ calls' \in Seq(FuncCall)
         /\ \A i \in 1..Len(calls) : calls'[i] = calls[i]
         /\ calls'[Len(calls) + 1] = c
         /\ \A i \in 1..Len(calls') : i \in 1..Len(calls) \/ i = Len(calls) + 1
         /\ \A x : Called(x)' <=> Called(x) \/ (x = c.entry /\ c.flag # "FTW_DNR")
         /\ \A x : CalledDir(x)' <=> CalledDir(x) \/ (x = c.entry /\ c.flag = "FTW_D")
  <1>1. PICK n \in Nat : n = Len(calls)
    BY WalkLengths
  <1>2. /\ Len(calls') = n + 1 /\ calls' \in Seq(FuncCall)
        /\ \A i \in 1..n : calls'[i] = calls[i]
        /\ calls'[n + 1] = c
    BY <1>1, AppendProperties DEF WalkTyped
  <1>3. \A i \in 1..n + 1 : i \in 1..n \/ i = n + 1
    OBVIOUS
  <1>4. \A i \in 1..n : i \in 1..n + 1
    OBVIOUS
  <1>5. n + 1 \in 1..n + 1
    OBVIOUS
  <1>6. \A x : Called(x)' <=> Called(x) \/ (x = c.entry /\ c.flag # "FTW_DNR")
    BY <1>1, <1>2, <1>3, <1>4, <1>5 DEF Called
  <1>7. \A x : CalledDir(x)' <=> CalledDir(x) \/ (x = c.entry /\ c.flag = "FTW_D")
    BY <1>1, <1>2, <1>3, <1>4, <1>5 DEF CalledDir
  <1> QED
    BY <1>1, <1>2, <1>3, <1>6, <1>7

\* What a call keeps of CallsInv.
LEMMA CallRecorded ==
  ASSUME WalkInv, NEW c \in FuncCall, calls' = Append(calls, c), finished = "no",
         c.flag # "FTW_DNR" => ~Called(c.entry),
         c.flag # "FTW_DNR" => c.flag = FtwFlag(c.entry),
         c.entry # Root => CalledDir(Dir(c.entry)),
         kind' = kind, steady' = steady, walker' = walker,
         walker = "zftw" /\ c.ret # 0 => finished' = "stopped"
  PROVE  CallsInv'
  <1>1. PICK n \in Nat : n = Len(calls)
    BY WalkLengths DEF WalkInv
  <1>2. /\ Len(calls') = n + 1 /\ \A i \in 1..n : calls'[i] = calls[i]
        /\ calls'[n + 1] = c
        /\ \A i \in 1..n + 1 : i \in 1..n \/ i = n + 1
    BY <1>1, OneMoreCall DEF WalkInv
  <1>3. \A i \in 1..n : c.flag # "FTW_DNR" /\ calls[i].flag # "FTW_DNR"
                        => calls[i].entry # c.entry
    BY <1>1 DEF Called
  <1>4. ASSUME NEW i \in 1..n + 1, NEW j \in 1..n + 1, calls'[i].entry = calls'[j].entry,
               calls'[i].flag # "FTW_DNR", calls'[j].flag # "FTW_DNR"
        PROVE  i = j
    <2>1. CASE i \in 1..n /\ j \in 1..n
      BY <1>1, <1>2, <1>4, <2>1 DEF WalkInv, CallsInv
    <2>2. CASE i \in 1..n /\ j = n + 1
      BY <1>2, <1>3, <1>4, <2>2
    <2>3. CASE i = n + 1 /\ j \in 1..n
      BY <1>2, <1>3, <1>4, <2>3
    <2> QED
      BY <1>2, <2>1, <2>2, <2>3
  <1>5. ASSUME NEW i \in 1..n + 1, calls'[i].entry # Root
        PROVE  \E j \in 1..i - 1 : /\ calls'[j].entry = Dir(calls'[i].entry)
                                   /\ calls'[j].flag = "FTW_D"
    <2>1. CASE i \in 1..n
      <3>1. PICK j \in 1..i - 1 : calls[j].entry = Dir(calls[i].entry) /\ calls[j].flag = "FTW_D"
        BY <1>1, <1>2, <1>5, <2>1 DEF WalkInv, CallsInv
      <3>2. j \in 1..n
        BY <2>1
      <3> QED
        BY <1>2, <2>1, <3>1, <3>2
    <2>2. CASE i = n + 1
      <3>1. PICK j \in 1..n : calls[j].entry = Dir(c.entry) /\ calls[j].flag = "FTW_D"
        BY <1>1, <1>2, <1>5, <2>2 DEF CalledDir
      <3>2. j \in 1..i - 1
        BY <2>2
      <3> QED
        BY <1>2, <2>2, <3>1, <3>2
    <2> QED
      BY <1>2, <2>1, <2>2
  <1>6. ASSUME walker' = "zftw"
        PROVE  /\ \A i \in 1..(n + 1) - 1 : calls'[i].ret = 0
               /\ finished' # "stopped" => \A i \in 1..n + 1 : calls'[i].ret = 0
    <2>1. \A i \in 1..n : calls[i].ret = 0
      BY <1>1, <1>6 DEF WalkInv, CallsInv
    <2>2. \A i \in 1..(n + 1) - 1 : i \in 1..n
      OBVIOUS
    <2>3. finished' # "stopped" => c.ret = 0
      BY <1>6
    <2> QED
      BY <1>2, <2>1, <2>2, <2>3
  <1>7. ASSUME NEW i \in 1..n + 1, calls'[i].entry \in steady', calls'[i].flag # "FTW_DNR"
        PROVE  calls'[i].flag = FtwFlag(calls[i].entry)'
    <2>1. CASE i \in 1..n
      <3>1. calls[i].flag = FtwFlag(calls[i].entry)
        BY <1>1, <1>2, <1>7, <2>1 DEF WalkInv, CallsInv
      <3> QED
        BY <1>2, <2>1, <3>1 DEF FtwFlag
    <2>2. CASE i = n + 1
      BY <1>2, <1>7, <2>2 DEF FtwFlag
    <2> QED
      BY <1>2, <2>1, <2>2
  <1> QED
    BY <1>2, <1>4, <1>5, <1>6, <1>7 DEF CallsInv

LEMMA WalkVisitsEntry ==
  ASSUME WalkInv, NEW e \in Entries, Visit(e)
  PROVE  WalkInv'
  <1>1. /\ next = <<e>>
        /\ kind' = kind /\ steady' = steady /\ walker' = walker
    BY DEF Visit, treeVars
  <1>2. PICK ret \in {0, 1} :
          /\ Call(e, FtwFlag(e), ret)
          /\ Outcome(ret, IF IsDir(e) /\ Descends THEN <<e, e>> ELSE <<>>)
    BY DEF Visit
  <1>3. PICK c : c = [entry |-> e, flag |-> FtwFlag(e), ret |-> ret]
    OBVIOUS
  <1>4. /\ c \in FuncCall /\ c.entry = e /\ c.flag = FtwFlag(e) /\ c.flag # "FTW_DNR"
        /\ c.ret = ret
        /\ IsDir(e) => c.flag = "FTW_D"
        /\ calls' = Append(calls, c)
    BY <1>2, <1>3 DEF FuncCall, FtwFlag, IsDir, Call
  <1>5. \/ Ends(ret) /\ frames' = <<>> /\ next' = <<>> /\ finished' = "stopped"
        \/ /\ ~Ends(ret) /\ frames' = frames /\ finished' = finished
           /\ \/ IsDir(e) /\ Descends /\ next' = <<e, e>>
              \/ ~(IsDir(e) /\ Descends) /\ next' = <<>>
    BY <1>2 DEF Outcome
  <1>6. finished = "no" /\ walker # "idle"
    BY <1>1, NextPaths, Running
  <1>7. /\ ~Called(e) /\ ~Named(e)
        /\ e = Root => frames = <<>>
        /\ e # Root => CalledDir(Dir(e))
    BY <1>1 DEF WalkInv, NextInv
  <1>8. /\ Len(calls') = Len(calls) + 1 /\ calls' \in Seq(FuncCall)
        /\ calls'[Len(calls) + 1] = c
        /\ \A x : Called(x)' <=> Called(x) \/ x = e
        /\ \A x : CalledDir(x) => CalledDir(x)'
    BY <1>4, OneMoreCall DEF WalkInv
  <1>9. ~Reading(e)
    BY <1>7, DirsAreCalled DEF Reading, WalkInv, FramesInv
  <1>10. CallsInv'
    <2>1. walker = "zftw" /\ c.ret # 0 => finished' = "stopped"
      BY <1>4, <1>5 DEF Ends
    <2> QED
      BY <1>1, <1>4, <1>6, <1>7, <2>1, CallRecorded
  <1>11. TreeSteady'
    BY <1>1 DEF WalkInv, TreeSteady
  <1>12. Len(calls) \in Nat
    BY WalkLengths DEF WalkInv
  <1>13. CASE Ends(ret) /\ frames' = <<>> /\ next' = <<>> /\ finished' = "stopped"
    <2>1. WalkTyped' /\ AtRest'
      BY <1>1, <1>6, <1>8, <1>13 DEF WalkInv, WalkTyped, AtRest
    <2>2. FramesInv'
      <3>1. Len(frames') = 0 /\ 1..0 = {}
        BY <1>13
      <3> QED
        BY <3>1 DEF FramesInv
    <2>3. NextInv'
      BY <1>13, NextPaths DEF NextInv
    <2>4. Progress'
      BY <1>13 DEF Progress
    <2> QED
      BY <1>10, <1>11, <2>1, <2>2, <2>3, <2>4 DEF WalkInv
  <1>14. CASE /\ ~Ends(ret) /\ frames' = frames /\ finished' = finished
              /\ \/ IsDir(e) /\ Descends /\ next' = <<e, e>>
                 \/ ~(IsDir(e) /\ Descends) /\ next' = <<>>
    <2>1. WalkTyped' /\ AtRest'
      BY <1>1, <1>6, <1>8, <1>14 DEF WalkInv, WalkTyped, AtRest
    <2>2. \A x : (Named(x)' <=> Named(x)) /\ (Reading(x)' <=> Reading(x))
      BY <1>14 DEF Named, Reading
    <2>3. FramesInv'
      <3>1. \A i \in 1..Len(frames) : \A x \in frames[i].names : x # e
        BY <1>7 DEF Named
      <3> QED
        BY <1>8, <1>14, <3>1 DEF WalkInv, FramesInv
    <2>4. NextInv'
      <3> SUFFICES ASSUME NEW x \in Entries
                   PROVE  /\ next' # <<x>>
                          /\ next' = <<x, x>> =>
                               /\ Len(calls') # 0 /\ calls'[Len(calls')].entry = x
                               /\ calls'[Len(calls')].flag = "FTW_D"
                               /\ ~Reading(x)'
        BY DEF NextInv
      <3>1. next' # <<x>> /\ (next' = <<x, x>> => x = e /\ IsDir(e))
        BY <1>14, NextPaths
      <3>2. Len(calls') # 0 /\ calls'[Len(calls')] = c
        BY <1>8, <1>12
      <3> QED
        BY <1>4, <1>9, <2>2, <3>1, <3>2
    <2>5. Progress'
      <3>1. ASSUME NEW x \in (steady \cap ToVisit) \ {Root}, Called(Dir(x))',
                   next' # <<Dir(x), Dir(x)>>
            PROVE  Called(x)' \/ Named(x)'
        <4>1. Dir(x) \in Entries /\ kind[Dir(x)] = "dir"
          BY SteadyDir
        <4>2. CASE Dir(x) = e
          <5>1. IsDir(e)
            BY <4>1, <4>2 DEF IsDir
          <5>2. walker # "zftw" /\ frames # <<>>
            BY <1>14, <3>1, <4>2, <5>1 DEF Descends
          <5>3. e = Root
            BY <4>2, <5>2 DEF ToVisit, Inside
          <5> QED
            BY <1>7, <5>2, <5>3
        <4>3. CASE Dir(x) # e
          <5>1. Called(Dir(x)) /\ next # <<Dir(x), Dir(x)>>
            BY <1>1, <1>8, <3>1, <4>3, NextPaths
          <5>2. Called(x) \/ next = <<x>> \/ Named(x)
            BY <1>6, <5>1 DEF WalkInv, Progress
          <5>3. next = <<x>> => x = e
            BY <1>1, NextPaths
          <5> QED
            BY <1>8, <2>2, <5>2, <5>3
        <4> QED
          BY <4>2, <4>3
      <3>2. Root \in steady => Called(Root)'
        <4>1. next = <<Root>> => Root = e
          BY <1>1, NextPaths
        <4> QED
          BY <1>6, <1>8, <4>1 DEF WalkInv, Progress
      <3>3. ToVisit' = ToVisit
        BY <1>1 DEF ToVisit
      <3> QED
        BY <1>1, <3>1, <3>2, <3>3 DEF Progress
    <2> QED
      BY <1>10, <1>11, <2>1, <2>3, <2>4, <2>5 DEF WalkInv
  <1> QED
    BY <1>5, <1>13, <1>14

LEMMA WalkFails ==
  ASSUME WalkInv, NEW e \in Entries, OpenDirFails(e)
  PROVE  WalkInv'
  <1>1. /\ next = <<e, e>> /\ kind[e] # "dir"
        /\ kind' = kind /\ steady' = steady /\ walker' = walker
    BY DEF OpenDirFails, treeVars
  <1>2. PICK ret \in {0, 1} : Call(e, "FTW_DNR", ret) /\ Outcome(ret, <<>>)
    BY DEF OpenDirFails
  <1>3. PICK c : c = [entry |-> e, flag |-> "FTW_DNR", ret |-> ret]
    OBVIOUS
  <1>4. /\ c \in FuncCall /\ c.entry = e /\ c.flag = "FTW_DNR" /\ c.ret = ret
        /\ calls' = Append(calls, c)
    BY <1>2, <1>3 DEF FuncCall, Call
  <1>5. /\ next' = <<>>
        /\ \/ Ends(ret) /\ frames' = <<>> /\ finished' = "stopped"
           \/ ~Ends(ret) /\ frames' = frames /\ finished' = finished
    BY <1>2 DEF Outcome
  <1>6. finished = "no" /\ walker # "idle"
    BY <1>1, NextPaths, Running
  <1>7. PICK n \in Nat : n = Len(calls) /\ n # 0 /\ calls[n].entry = e /\ calls[n].flag = "FTW_D"
    BY <1>1, WalkLengths DEF WalkInv, NextInv
  <1>8. e # Root => CalledDir(Dir(e))
    <2> SUFFICES ASSUME e # Root PROVE CalledDir(Dir(e))
      OBVIOUS
    <2>1. n \in 1..n
      BY <1>7
    <2>2. PICK j \in 1..n - 1 : calls[j].entry = Dir(e) /\ calls[j].flag = "FTW_D"
      BY <1>7, <2>1 DEF WalkInv, CallsInv
    <2>3. j \in 1..n
      OBVIOUS
    <2> QED
      BY <1>7, <2>2, <2>3 DEF CalledDir
  <1>9. /\ calls' \in Seq(FuncCall)
        /\ \A x : Called(x)' <=> Called(x)
        /\ \A x : CalledDir(x)' <=> CalledDir(x)
    BY <1>4, OneMoreCall DEF WalkInv
  <1>10. CallsInv'
    <2>1. walker = "zftw" /\ c.ret # 0 => finished' = "stopped"
      BY <1>4, <1>5 DEF Ends
    <2> QED
      BY <1>1, <1>4, <1>6, <1>8, <2>1, CallRecorded
  <1>11. TreeSteady' /\ NextInv'
    BY <1>1, <1>5, NextPaths DEF WalkInv, TreeSteady, NextInv
  <1>12. WalkTyped' /\ AtRest'
    <2>1. /\ finished' \in {"no", "yes", "stopped"} /\ frames' \in Seq(Frame)
          /\ finished' # "no" => frames' = <<>>
      <3>1. CASE frames' = <<>> /\ finished' = "stopped"
        BY <3>1
      <3>2. CASE frames' = frames /\ finished' = finished
        <4>1. frames \in Seq(Frame)
          BY DEF WalkInv, WalkTyped
        <4> QED
          BY <1>6, <3>2, <4>1
      <3> QED
        BY <1>5, <3>1, <3>2
    <2>2. WalkTyped'
      BY <1>1, <1>5, <1>9, <2>1 DEF WalkInv, WalkTyped
    <2>3. AtRest'
      BY <1>1, <1>5, <1>6, <2>1 DEF AtRest
    <2> QED
      BY <2>2, <2>3
  <1>13. FramesInv' /\ Progress'
    <2>1. CASE frames' = <<>> /\ finished' = "stopped"
      <3>1. Len(frames') = 0 /\ 1..0 = {}
        BY <2>1
      <3> QED
        BY <2>1, <3>1 DEF FramesInv, Progress
    <2>2. CASE frames' = frames /\ finished' = finished
      <3>1. FramesInv'
        BY <1>9, <2>2 DEF WalkInv, FramesInv
      <3>2. \A x : Named(x)' <=> Named(x)
        BY <2>2 DEF Named
      <3>3. ASSUME NEW x \in (steady \cap ToVisit) \ {Root}, Called(Dir(x))
            PROVE  Called(x) \/ Named(x)
        <4>1. Dir(x) \in Entries /\ kind[Dir(x)] = "dir"
          BY SteadyDir
        <4>2. Dir(x) # e
          BY <1>1, <4>1
        <4>3. next # <<Dir(x), Dir(x)>> /\ next # <<x>>
          BY <1>1, <4>2, NextPaths
        <4> QED
          BY <1>6, <3>3, <4>3 DEF WalkInv, Progress
      <3>4. Root \in steady => Called(Root)
        BY <1>1, <1>6, NextPaths DEF WalkInv, Progress
      <3>5. ToVisit' = ToVisit
        BY <1>1 DEF ToVisit
      <3> QED
        BY <1>1, <1>9, <3>1, <3>2, <3>3, <3>4, <3>5 DEF Progress
    <2> QED
      BY <1>5, <2>1, <2>2
  <1> QED
    BY <1>10, <1>11, <1>12, <1>13 DEF WalkInv

-----------------------------------------------------------------------------
(* Steps that read directories.                                            *)

LEMMA WalkOpens ==
  ASSUME WalkInv, NEW e \in Entries, OpenDir(e)
  PROVE  WalkInv'
  <1>1. /\ next = <<e, e>> /\ kind[e] = "dir" /\ next' = <<>>
        /\ frames' = Append(frames, [dir |-> e, names |-> Listed(e)])
        /\ kind' = kind /\ steady' = steady /\ walker' = walker /\ calls' = calls
        /\ finished' = finished
    BY DEF OpenDir, treeVars
  <1>2. finished = "no" /\ walker # "idle"
    BY <1>1, NextPaths, Running
  <1>3. PICK fr : fr = [dir |-> e, names |-> Listed(e)]
    OBVIOUS
  <1>4. fr \in Frame /\ fr.dir = e /\ fr.names = Listed(e) /\ frames' = Append(frames, fr)
    BY <1>1, <1>3 DEF Frame, Listed, Inside
  <1>5. PICK m \in Nat, n \in Nat : m = Len(frames) /\ n = Len(calls)
    BY WalkLengths DEF WalkInv
  <1>6. /\ frames' \in Seq(Frame) /\ Len(frames') = m + 1
        /\ \A i \in 1..m : frames'[i] = frames[i]
        /\ frames'[m + 1] = fr
        /\ \A i \in 1..m + 1 : i \in 1..m \/ i = m + 1
    BY <1>4, <1>5, AppendProperties DEF WalkInv, WalkTyped
  <1>7. /\ n # 0 /\ calls[n].entry = e /\ calls[n].flag = "FTW_D" /\ ~Reading(e)
    BY <1>1, <1>5 DEF WalkInv, NextInv
  <1>8. CalledDir(e)
    <2>1. n \in 1..n
      BY <1>7
    <2> QED
      BY <1>5, <1>7, <2>1 DEF CalledDir
  <1>9. ASSUME NEW x \in Listed(e)
        PROVE  x # Root /\ Dir(x) = e /\ ~Called(x)
    <2>1. x \in Entries /\ x # Root /\ Dir(x) = e
      BY DEF Listed, Inside
    <2>2. ~Called(x)
      <3> SUFFICES ASSUME Called(x) PROVE FALSE
        OBVIOUS
      <3>1. PICK i \in 1..n : calls[i].entry = x
        BY <1>5 DEF Called
      <3>2. PICK j \in 1..i - 1 : calls[j].entry = e /\ calls[j].flag = "FTW_D"
        BY <1>5, <2>1, <3>1 DEF WalkInv, CallsInv
      <3>3. j \in 1..n /\ n \in 1..n /\ j # n
        BY <1>7
      <3>4. "FTW_D" # "FTW_DNR"
        OBVIOUS
      <3> QED
        BY <1>5, <1>7, <3>2, <3>3, <3>4 DEF WalkInv, CallsInv
    <2> QED
      BY <2>1, <2>2
  <1>10. /\ \A x : (Called(x)' <=> Called(x)) /\ (CalledDir(x)' <=> CalledDir(x))
         /\ ToVisit' = ToVisit
    BY <1>1 DEF Called, CalledDir, ToVisit
  <1>11. \A x : Named(x) \/ x \in Listed(e) => Named(x)'
    <2>1. \A i \in 1..m : i \in 1..m + 1
      OBVIOUS
    <2>2. m + 1 \in 1..m + 1
      OBVIOUS
    <2> QED
      BY <1>4, <1>5, <1>6, <2>1, <2>2 DEF Named
  <1>12. WalkTyped' /\ TreeSteady' /\ AtRest'
    BY <1>1, <1>2, <1>6 DEF WalkInv, WalkTyped, TreeSteady, AtRest
  <1>13. FramesInv'
    <2>1. \A i \in 1..m : frames[i].dir # e
      BY <1>5, <1>7 DEF Reading
    <2>2. \A i \in 1..m + 1 :
            /\ CalledDir(frames'[i].dir)
            /\ \A x \in frames'[i].names : x # Root /\ Dir(x) = frames'[i].dir /\ ~Called(x)
      <3> SUFFICES ASSUME NEW i \in 1..m + 1
                   PROVE  /\ CalledDir(frames'[i].dir)
                          /\ \A x \in frames'[i].names :
                               x # Root /\ Dir(x) = frames'[i].dir /\ ~Called(x)
        OBVIOUS
      <3>1. CASE i \in 1..m
        BY <1>5, <1>6, <3>1 DEF WalkInv, FramesInv
      <3>2. CASE i = m + 1
        BY <1>4, <1>6, <1>8, <1>9, <3>2
      <3> QED
        BY <1>6, <3>1, <3>2
    <2>3. ASSUME NEW i \in 1..m + 1, NEW j \in 1..m + 1, frames'[i].dir = frames'[j].dir
          PROVE  i = j
      <3>1. CASE i \in 1..m /\ j \in 1..m
        BY <1>5, <1>6, <2>3, <3>1 DEF WalkInv, FramesInv
      <3>2. CASE i \in 1..m /\ j = m + 1
        BY <1>4, <1>6, <2>1, <2>3, <3>2
      <3>3. CASE i = m + 1 /\ j \in 1..m
        BY <1>4, <1>6, <2>1, <2>3, <3>3
      <3> QED
        BY <1>6, <3>1, <3>2, <3>3
    <2> QED
      BY <1>6, <1>10, <2>2, <2>3 DEF FramesInv
  <1>14. NextInv'
    BY <1>1, NextPaths DEF NextInv
  <1>15. CallsInv'
    BY <1>1 DEF WalkInv, CallsInv, FtwFlag
  <1>16. Progress'
    <2>1. ASSUME NEW x \in (steady \cap ToVisit) \ {Root}, Called(Dir(x))
          PROVE  Called(x) \/ Named(x)'
      <3>1. x \in Entries /\ kind[x] # "none" /\ Dir(x) \in Entries
        BY SteadyDir
      <3>2. CASE Dir(x) = e
        <4>1. x \in Listed(e)
          BY <3>1, <3>2 DEF Listed, Inside
        <4> QED
          BY <1>11, <4>1
      <3>3. CASE Dir(x) # e
        <4>1. next # <<Dir(x), Dir(x)>> /\ next # <<x>>
          BY <1>1, <3>3, NextPaths
        <4>2. Called(x) \/ Named(x)
          BY <1>2, <2>1, <4>1 DEF WalkInv, Progress
        <4> QED
          BY <1>11, <4>2
      <3> QED
        BY <3>2, <3>3
    <2>2. Root \in steady => Called(Root)
      BY <1>1, <1>2, NextPaths DEF WalkInv, Progress
    <2> QED
      BY <1>1, <1>10, <2>1, <2>2 DEF Progress
  <1> QED
    BY <1>12, <1>13, <1>14, <1>15, <1>16 DEF WalkInv

LEMMA WalkReads ==
  ASSUME WalkInv, ReadDir
  PROVE  WalkInv'
  <1>1. PICK e \in Top.names :
          /\ next' = <<e>>
          /\ frames' = [frames EXCEPT ![Len(frames)].names = @ \ {e}]
    BY DEF ReadDir
  <1>2. /\ next = <<>> /\ frames # <<>>
        /\ kind' = kind /\ steady' = steady /\ walker' = walker /\ calls' = calls
        /\ finished' = finished
    BY DEF ReadDir, treeVars
  <1>3. finished = "no" /\ walker # "idle"
    BY <1>2, Running
  <1>4. PICK m \in Nat : m = Len(frames) /\ frames \in Seq(Frame)
    BY WalkLengths DEF WalkInv, WalkTyped
  <1>5. m \in 1..m
    <2>1. m # 0
      BY <1>2, <1>4, EmptySeq
    <2> QED
      BY <2>1
  <1>6. frames[m] \in Frame /\ Top = frames[m]
    BY <1>4, <1>5, ElementOfSeq DEF Top, Last
  <1>7. PICK fr : fr = [frames[m] EXCEPT !.names = @ \ {e}]
    OBVIOUS
  <1>8. fr \in Frame /\ fr.dir = frames[m].dir /\ fr.names = frames[m].names \ {e}
    BY <1>6, <1>7 DEF Frame
  <1>9. /\ frames' \in Seq(Frame) /\ Len(frames') = m
        /\ \A i \in 1..m : frames'[i] = IF i = m THEN fr ELSE frames[i]
    <2>1. frames' = [frames EXCEPT ![m] = fr]
      BY <1>1, <1>4, <1>7
    <2> QED
      BY <1>4, <1>5, <1>8, <2>1, ExceptSeq
  <1>10. e \in Entries /\ e \in frames[m].names
    BY <1>1, <1>6 DEF Frame
  <1>11. e # Root /\ Dir(e) = frames[m].dir /\ ~Called(e) /\ CalledDir(frames[m].dir)
    BY <1>4, <1>5, <1>10 DEF WalkInv, FramesInv
  <1>12. \A i \in 1..m : /\ frames'[i].dir = frames[i].dir
                         /\ frames'[i].names \subseteq frames[i].names
    BY <1>8, <1>9
  <1>13. \A i \in 1..m : e \notin frames'[i].names
    <2> SUFFICES ASSUME NEW i \in 1..m, e \in frames'[i].names
                 PROVE  FALSE
      OBVIOUS
    <2>1. i # m
      BY <1>8, <1>9
    <2>2. Dir(e) = frames[i].dir
      BY <1>4, <1>12 DEF WalkInv, FramesInv
    <2> QED
      BY <1>4, <1>5, <1>11, <2>1, <2>2 DEF WalkInv, FramesInv
  <1>14. /\ \A x : (Called(x)' <=> Called(x)) /\ (CalledDir(x)' <=> CalledDir(x))
         /\ ToVisit' = ToVisit
    BY <1>2 DEF Called, CalledDir, ToVisit
  <1>15. ~Named(e)' /\ \A x : x # e /\ Named(x) => Named(x)'
    BY <1>4, <1>8, <1>9, <1>13 DEF Named
  <1>16. WalkTyped' /\ TreeSteady' /\ AtRest'
    BY <1>1, <1>2, <1>3, <1>9, <1>10 DEF WalkInv, WalkTyped, TreeSteady, AtRest
  <1>17. FramesInv'
    BY <1>4, <1>9, <1>12, <1>14 DEF WalkInv, FramesInv
  <1>18. NextInv'
    <2>1. \A x : next' # <<x, x>> /\ (next' = <<x>> => x = e)
      BY <1>1, NextPaths
    <2> QED
      BY <1>11, <1>14, <1>15, <2>1 DEF NextInv
  <1>19. CallsInv'
    BY <1>2 DEF WalkInv, CallsInv, FtwFlag
  <1>20. Progress'
    <2>1. \A x : next # <<x>> /\ next # <<x, x>>
      BY <1>2, NextPaths
    <2>2. \A x \in (steady \cap ToVisit) \ {Root} : Called(Dir(x)) => Called(x) \/ Named(x)
      BY <1>3, <2>1 DEF WalkInv, Progress
    <2>3. Root \in steady => Called(Root)
      BY <1>3, <2>1 DEF WalkInv, Progress
    <2> QED
      BY <1>1, <1>2, <1>14, <1>15, <2>2, <2>3 DEF Progress
  <1> QED
    BY <1>16, <1>17, <1>18, <1>19, <1>20 DEF WalkInv

LEMMA WalkCloses ==
  ASSUME WalkInv, CloseDir
  PROVE  WalkInv'
  <1>1. /\ next = <<>> /\ frames # <<>> /\ Top.names = {} /\ frames' = Front(frames)
        /\ kind' = kind /\ steady' = steady /\ walker' = walker /\ calls' = calls
        /\ finished' = finished /\ next' = next
    BY DEF CloseDir, treeVars
  <1>2. finished = "no" /\ walker # "idle"
    BY <1>1, Running
  <1>3. PICK m \in Nat : m = Len(frames) /\ frames \in Seq(Frame)
    BY WalkLengths DEF WalkInv, WalkTyped
  <1>4. m \in 1..m
    <2>1. m # 0
      BY <1>1, <1>3, EmptySeq
    <2> QED
      BY <2>1
  <1>5. frames[m].names = {}
    BY <1>1, <1>3 DEF Top, Last
  <1>6. /\ frames' \in Seq(Frame) /\ Len(frames') = m - 1
        /\ \A i \in 1..m - 1 : i \in 1..m /\ frames'[i] = frames[i]
    <2>1. frames' = SubSeq(frames, 1, m - 1)
      BY <1>1, <1>3 DEF Front
    <2>2. \A i \in 1..m - 1 : i \in 1..m /\ frames[i] \in Frame
      BY <1>3, ElementOfSeq
    <2> QED
      BY <1>4, <2>1, <2>2, SubSeqProperties
  <1>7. \A i \in 1..m : i # m => i \in 1..m - 1
    OBVIOUS
  <1>8. /\ \A x : (Called(x)' <=> Called(x)) /\ (CalledDir(x)' <=> CalledDir(x))
        /\ ToVisit' = ToVisit
    BY <1>1 DEF Called, CalledDir, ToVisit
  <1>9. \A x : Named(x) => Named(x)'
    BY <1>3, <1>5, <1>6, <1>7 DEF Named
  <1>10. WalkTyped' /\ TreeSteady' /\ AtRest'
    BY <1>1, <1>2, <1>6 DEF WalkInv, WalkTyped, TreeSteady, AtRest
  <1>11. FramesInv'
    BY <1>3, <1>6, <1>8 DEF WalkInv, FramesInv
  <1>12. NextInv'
    BY <1>1, NextPaths DEF NextInv
  <1>13. CallsInv'
    BY <1>1 DEF WalkInv, CallsInv, FtwFlag
  <1>14. Progress'
    BY <1>1, <1>8, <1>9 DEF WalkInv, Progress
  <1> QED
    BY <1>10, <1>11, <1>12, <1>13, <1>14 DEF WalkInv

LEMMA WalkUnchanged ==
  ASSUME WalkInv, UNCHANGED fileVars
  PROVE  WalkInv'
  <1>1. /\ kind' = kind /\ steady' = steady /\ walker' = walker /\ frames' = frames
        /\ next' = next /\ calls' = calls /\ finished' = finished
    BY DEF fileVars, treeVars, walkVars
  <1>2. \A x : (Called(x)' <=> Called(x)) /\ (CalledDir(x)' <=> CalledDir(x))
               /\ (Named(x)' <=> Named(x)) /\ (Reading(x)' <=> Reading(x))
    BY <1>1 DEF Called, CalledDir, Named, Reading
  <1>3. WalkTyped' /\ TreeSteady' /\ AtRest'
    BY <1>1 DEF WalkInv, WalkTyped, TreeSteady, AtRest
  <1>4. FramesInv' /\ NextInv'
    BY <1>1, <1>2 DEF WalkInv, FramesInv, NextInv
  <1>5. CallsInv'
    BY <1>1 DEF WalkInv, CallsInv, FtwFlag
  <1>6. Progress'
    <2>1. ToVisit' = ToVisit
      BY <1>1 DEF ToVisit
    <2> QED
      BY <1>1, <1>2, <2>1 DEF WalkInv, Progress
  <1> QED
    BY <1>3, <1>4, <1>5, <1>6 DEF WalkInv

LEMMA WalkNext ==
  ASSUME WalkInv, [FilesNext]_fileVars
  PROVE  WalkInv'
  <1>1. ASSUME NEW e \in Entries, Zmkdir(e) \/ Zfopen(e) \/ Zrmdir(e) \/ Zrmfile(e)
        PROVE  WalkInv'
    <2>1. "none" \in Kinds /\ "dir" \in Kinds /\ "file" \in Kinds
      BY DEF Kinds
    <2>2. "dir" # "none" /\ "file" # "none"
      OBVIOUS
    <2>3. CASE Zmkdir(e)
      BY <2>1, <2>2, <2>3, TreeChanged DEF Zmkdir
    <2>4. CASE Zfopen(e)
      BY <2>1, <2>2, <2>4, TreeChanged DEF Zfopen
    <2>5. CASE Zrmdir(e)
      BY <2>1, <2>5, TreeChanged DEF Zrmdir
    <2>6. CASE Zrmfile(e)
      BY <2>1, <2>6, TreeChanged DEF Zrmfile
    <2> QED
      BY <1>1, <2>3, <2>4, <2>5, <2>6
  <1>2. ASSUME NEW e \in Entries, Visit(e) \/ OpenDir(e) \/ OpenDirFails(e)
        PROVE  WalkInv'
    BY <1>2, WalkVisitsEntry, WalkOpens, WalkFails
  <1>3. ASSUME NEW w \in {"zftw", "zftw_nr"}, Start(w)
        PROVE  WalkInv'
    BY <1>3, WalkStarts
  <1>4. CASE ReadDir \/ CloseDir \/ Return
    BY <1>4, WalkReads, WalkCloses, WalkReturns
  <1>5. CASE UNCHANGED fileVars
    BY <1>5, WalkUnchanged
  <1> QED
    BY <1>1, <1>2, <1>3, <1>4, <1>5 DEF FilesNext

(***************************************************************************)
(* While the tree changes, a walk calls func at most once for a path, for  *)
(* a directory before what is in it, and one that ends by itself has       *)
(* called it for every entry that stayed as it was (filesys.c:421-460,     *)
(* 512-557).                                                               *)
(***************************************************************************)
THEOREM WalksVisitAll == FilesSpec => []WalkVisits
  <1>1. FilesInit => WalkInv
    BY WalkInit
  <1>2. WalkInv /\ [FilesNext]_fileVars => WalkInv'
    BY WalkNext
  <1>3. WalkInv => WalkVisits
    BY WalkFinished
  <1> QED
    BY <1>1, <1>2, <1>3, PTL DEF FilesSpec
=============================================================================
