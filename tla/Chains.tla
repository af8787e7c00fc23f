------------------------------- MODULE Chains -------------------------------
(***************************************************************************)
(* Facts that the proofs about chunked queues and lists share: arithmetic  *)
(* of positions, and sequences without repetition, by which those proofs   *)
(* name the nodes that links lead through.                                 *)
(***************************************************************************)
EXTENDS Integers, SequenceTheorems, WellFoundedInduction, TLAPS

In(q, e) == \E i \in 1..Len(q) : q[i] = e

Distinct(q) == \A i, j \in 1..Len(q) : q[i] = q[j] => i = j

(***************************************************************************)
(* Arithmetic.                                                             *)
(***************************************************************************)
\* Multiples of c, which the provers do not find by themselves.
LEMMA Products ==
  ASSUME NEW c \in Nat \ {0}, NEW i \in Nat, NEW j \in Nat
  PROVE  /\ i * c \in Nat
         /\ (i + j) * c = i * c + j * c
         /\ i < j => i * c + c <= j * c
<1>1. \A k \in Nat : k * c \in Nat
  OBVIOUS
<1>2. \A k, l \in Nat : (k + l) * c = k * c + l * c
  OBVIOUS
<1>3. ASSUME i < j PROVE i * c + c <= j * c
  <2>1. PICK d \in Nat : j = (i + 1) + d
    <3>1. j - i - 1 \in Nat /\ j = (i + 1) + (j - i - 1)
      BY <1>3
    <3> QED BY <3>1
  <2>2. j * c = (i + 1) * c + d * c /\ (i + 1) * c = i * c + 1 * c
    BY <2>1, <1>2, i + 1 \in Nat
  <2>3. d * c >= 0 /\ 1 * c = c /\ i * c \in Nat
    BY <1>1
  <2> QED BY <2>2, <2>3, d * c \in Nat, <1>1
<1> QED BY <1>1, <1>2, <1>3

\* Quotient and remainder.
LEMMA Division ==
  ASSUME NEW c \in Nat \ {0}, NEW a \in Nat
  PROVE  /\ a \div c \in Nat /\ a % c \in 0..c - 1
         /\ a = (a \div c) * c + (a % c)
  OBVIOUS

\* Quotient and remainder are determined.
LEMMA DivisionUnique ==
  ASSUME NEW c \in Nat \ {0}, NEW a \in Nat, NEW i \in Nat, NEW q \in 0..c - 1,
         a = i * c + q
  PROVE  a \div c = i /\ a % c = q
<1> DEFINE d == a \div c
           r == a % c
<1>1. d \in Nat /\ r \in 0..c - 1 /\ a = d * c + r
  BY Division
<1> HIDE DEF d, r
<1>2. i * c \in Nat /\ d * c \in Nat
  BY <1>1, Products
<1>3. i < d => i * c + c <= d * c
  BY <1>1, Products
<1>4. d < i => d * c + c <= i * c
  BY <1>1, Products
<1>5. ~(i < d) /\ ~(d < i)
  BY <1>1, <1>2, <1>3, <1>4
<1>6. d = i
  BY <1>5, <1>1
<1>7. r = q
  BY <1>6, <1>1, <1>2
<1> QED BY <1>6, <1>7 DEF d, r

\* A chunk further on is the next quotient and the same remainder.
LEMMA DivisionNext ==
  ASSUME NEW c \in Nat \ {0}, NEW a \in Nat
  PROVE  (a + c) \div c = (a \div c) + 1 /\ (a + c) % c = a % c
<1>1. a \div c \in Nat /\ a % c \in 0..c - 1 /\ a = (a \div c) * c + (a % c)
  BY Division
<1>2. PICK d \in Nat : d = a \div c
  BY <1>1
<1>3. PICK r \in 0..c - 1 : r = a % c
  BY <1>1
<1>4. (d + 1) * c = d * c + 1 * c /\ 1 * c = c /\ d * c \in Nat
  BY Products
<1>5. a = d * c + r
  BY <1>1, <1>2, <1>3
<1>6. a + c = (d + 1) * c + r
  BY <1>4, <1>5
<1>7. d + 1 \in Nat /\ a + c \in Nat
  OBVIOUS
<1>8. (a + c) \div c = d + 1 /\ (a + c) % c = r
  <2> DEFINE b == a + c
             e == d + 1
  <2>1. b \in Nat /\ e \in Nat /\ b = e * c + r
    BY <1>6, <1>7
  <2> HIDE DEF b, e
  <2>2. b \div c = e /\ b % c = r
    BY <2>1, DivisionUnique
  <2> QED BY <2>2 DEF b, e
<1> QED BY <1>8, <1>2, <1>3

\* A set of numbers that is not empty has a least one.
LEMMA Least ==
  ASSUME NEW T \in SUBSET Nat, T # {}
  PROVE  \E x \in T : \A y \in T : x <= y
<1> DEFINE R == OpToRel(<, Nat)
<1>1. IsWellFoundedOn(R, Nat)
  BY NatLessThanWellFounded
<1>2. \A y, x \in Nat : <<y, x>> \in R <=> y < x
  BY DEF OpToRel
<1> HIDE DEF R
<1>3. PICK x \in T : \A y \in T : ~ (<<y, x>> \in R)
  BY <1>1, WFMin
<1>4. \A y \in T : ~ (y < x) /\ x \in Nat /\ y \in Nat
  BY <1>2, <1>3
<1>5. \A y \in T : x <= y
  BY <1>4
<1> QED BY <1>5

(***************************************************************************)
(* Sequences without repetition.                                           *)
(***************************************************************************)
\* The empty sequence.
LEMMA EmptyDistinct ==
  /\ \A S : <<>> \in Seq(S)
  /\ Len(<<>>) = 0 /\ Distinct(<<>>)
  /\ \A b : ~In(<<>>, b)
<1>1. Len(<<>>) = 0 /\ \A S : <<>> \in Seq(S)
  BY EmptySeq
<1> QED BY <1>1 DEF Distinct, In

\* A new element at the end ...
LEMMA AppendDistinct ==
  ASSUME NEW S, NEW q \in Seq(S), Distinct(q), NEW e \in S, ~In(q, e)
  PROVE  /\ Append(q, e) \in Seq(S) /\ Append(q, e) # <<>>
         /\ Len(Append(q, e)) = Len(q) + 1
         /\ Distinct(Append(q, e))
         /\ \A b : In(Append(q, e), b) <=> (In(q, b) \/ b = e)
<1> DEFINE t == Append(q, e)
<1>1. /\ t \in Seq(S) /\ t # <<>> /\ Len(t) = Len(q) + 1
      /\ \A i \in 1..Len(q) : t[i] = q[i]
      /\ t[Len(q) + 1] = e
  BY AppendProperties
<1>2. Len(q) \in Nat
  BY LenProperties
<1> HIDE DEF t
<1>3. Distinct(t)
  <2> SUFFICES ASSUME NEW i \in 1..Len(q) + 1, NEW j \in 1..Len(q) + 1, t[i] = t[j]
               PROVE  i = j
    BY <1>1 DEF Distinct
  <2>1. \A k \in 1..Len(q) : t[k] # e
    BY <1>1 DEF In
  <2>2. i \in 1..Len(q) \/ i = Len(q) + 1
    BY <1>2
  <2>3. j \in 1..Len(q) \/ j = Len(q) + 1
    BY <1>2
  <2> QED BY <1>1, <2>1, <2>2, <2>3 DEF Distinct
<1>4. ASSUME NEW b PROVE In(t, b) <=> (In(q, b) \/ b = e)
  <2>1. ASSUME In(t, b) PROVE In(q, b) \/ b = e
    <3>1. PICK i \in 1..Len(q) + 1 : t[i] = b
      BY <2>1, <1>1 DEF In
    <3>2. i \in 1..Len(q) \/ i = Len(q) + 1
      BY <1>2
    <3> QED BY <1>1, <3>1, <3>2 DEF In
  <2>2. ASSUME In(q, b) PROVE In(t, b)
    <3>1. PICK i \in 1..Len(q) : q[i] = b
      BY <2>2 DEF In
    <3>2. i \in 1..Len(t) /\ t[i] = b
      BY <1>1, <1>2, <3>1
    <3> QED BY <3>2 DEF In
  <2>3. In(t, e)
    <3>1. Len(q) + 1 \in 1..Len(t)
      BY <1>1, <1>2
    <3> QED BY <1>1, <3>1 DEF In
  <2> QED BY <2>1, <2>2, <2>3
<1> QED BY <1>1, <1>3, <1>4 DEF t

\* ... or at the front.
LEMMA ConsDistinct ==
  ASSUME NEW S, NEW q \in Seq(S), Distinct(q), NEW e \in S, ~In(q, e)
  PROVE  /\ (<<e>> \o q) \in Seq(S) /\ (<<e>> \o q) # <<>>
         /\ Len((<<e>> \o q)) = Len(q) + 1
         /\ (<<e>> \o q)[1] = e /\ \A i \in 1..Len(q) : (<<e>> \o q)[i + 1] = q[i]
         /\ Distinct((<<e>> \o q))
         /\ \A b : In((<<e>> \o q), b) <=> (In(q, b) \/ b = e)
<1> DEFINE t == <<e>> \o q
<1>1. Len(q) \in Nat
  BY LenProperties
<1>2. <<e>> \in Seq(S) /\ Len(<<e>>) = 1 /\ <<e>>[1] = e
  OBVIOUS
<1>3. /\ t \in Seq(S) /\ Len(t) = Len(q) + 1
      /\ \A i \in 1..1 + Len(q) : t[i] = IF i <= 1 THEN <<e>>[i] ELSE q[i - 1]
  <2>1. /\ <<e>> \o q \in Seq(S)
        /\ Len(<<e>> \o q) = Len(<<e>>) + Len(q)
        /\ \A i \in 1..Len(<<e>>) + Len(q) : (<<e>> \o q)[i] =
             IF i <= Len(<<e>>) THEN <<e>>[i] ELSE q[i - Len(<<e>>)]
    BY <1>2, ConcatProperties
  <2> QED BY <1>1, <1>2, <2>1 DEF t
<1> HIDE DEF t
<1>4. t # <<>>
  BY <1>1, <1>3, EmptySeq
<1>5. t[1] = e
  BY <1>1, <1>2, <1>3
<1>6. ASSUME NEW i \in 1..Len(q) PROVE t[i + 1] = q[i]
  <2>1. i + 1 \in 1..1 + Len(q) /\ ~(i + 1 <= 1) /\ (i + 1) - 1 = i
    BY <1>1
  <2> QED BY <1>3, <2>1
<1>7. Distinct(t)
  <2> SUFFICES ASSUME NEW i \in 1..Len(q) + 1, NEW j \in 1..Len(q) + 1, t[i] = t[j]
               PROVE  i = j
    BY <1>3 DEF Distinct
  <2>1. \A k \in 1..Len(q) : t[k + 1] # e
    BY <1>6 DEF In
  <2>2. i = 1 \/ (i - 1 \in 1..Len(q) /\ i = (i - 1) + 1)
    BY <1>1
  <2>3. j = 1 \/ (j - 1 \in 1..Len(q) /\ j = (j - 1) + 1)
    BY <1>1
  <2>4. CASE i = 1 \/ j = 1
    BY <1>5, <2>1, <2>2, <2>3, <2>4
  <2>5. CASE i - 1 \in 1..Len(q) /\ j - 1 \in 1..Len(q)
    <3>1. t[i] = q[i - 1] /\ t[j] = q[j - 1]
      BY <1>6, <2>5, <2>2, <2>3, <1>1
    <3>2. i - 1 = j - 1
      BY <2>5, <3>1 DEF Distinct
    <3> QED BY <3>2
  <2> QED BY <1>1, <2>2, <2>3, <2>4, <2>5
<1>8. ASSUME NEW b PROVE In(t, b) <=> (In(q, b) \/ b = e)
  <2>1. ASSUME In(t, b) PROVE In(q, b) \/ b = e
    <3>1. PICK i \in 1..Len(q) + 1 : t[i] = b
      BY <2>1, <1>3 DEF In
    <3>2. i = 1 \/ (i - 1 \in 1..Len(q) /\ i = (i - 1) + 1)
      BY <1>1
    <3>3. CASE i = 1
      BY <1>5, <3>1, <3>3
    <3>4. CASE i - 1 \in 1..Len(q)
      <4>1. q[i - 1] = b
        BY <1>6, <3>1, <3>4
      <4> QED BY <3>4, <4>1 DEF In
    <3> QED BY <3>2, <3>3, <3>4
  <2>2. ASSUME In(q, b) PROVE In(t, b)
    <3>1. PICK i \in 1..Len(q) : q[i] = b
      BY <2>2 DEF In
    <3>2. i + 1 \in 1..Len(t) /\ t[i + 1] = b
      BY <1>1, <1>3, <1>6, <3>1
    <3> QED BY <3>2 DEF In
  <2>3. In(t, e)
    <3>1. 1 \in 1..Len(t)
      BY <1>1, <1>3
    <3> QED BY <1>5, <3>1 DEF In
  <2> QED BY <2>1, <2>2, <2>3
<1> QED BY <1>3, <1>4, <1>5, <1>6, <1>7, <1>8 DEF t

\* A sequence without its first element ...
LEMMA TailDistinct ==
  ASSUME NEW S, NEW q \in Seq(S), Distinct(q), q # <<>>
  PROVE  /\ Len(q) \in Nat \ {0} /\ q[1] \in S /\ In(q, q[1])
         /\ Tail(q) \in Seq(S)
         /\ Len(Tail(q)) = Len(q) - 1
         /\ \A i \in 1..Len(q) - 1 : Tail(q)[i] = q[i + 1]
         /\ Distinct(Tail(q))
         /\ \A b : In(Tail(q), b) <=> (In(q, b) /\ b # q[1])
<1> DEFINE t == Tail(q)
<1>1. Len(q) \in Nat \ {0}
  BY EmptySeq
<1>2. /\ t \in Seq(S) /\ Len(t) = Len(q) - 1
      /\ \A i \in 1..Len(t) : t[i] = q[i + 1]
  BY HeadTailProperties
<1> HIDE DEF t
<1>3. 1 \in 1..Len(q) /\ q[1] \in S
  BY <1>1, ElementOfSeq
<1>4. Distinct(t)
  <2> SUFFICES ASSUME NEW i \in 1..Len(q) - 1, NEW j \in 1..Len(q) - 1, t[i] = t[j]
               PROVE  i = j
    BY <1>2 DEF Distinct
  <2>1. i + 1 \in 1..Len(q) /\ j + 1 \in 1..Len(q) /\ q[i + 1] = q[j + 1]
    BY <1>1, <1>2
  <2>2. i + 1 = j + 1
    BY <2>1 DEF Distinct
  <2> QED BY <2>2
<1>5. ASSUME NEW b PROVE In(t, b) <=> (In(q, b) /\ b # q[1])
  <2>1. ASSUME In(t, b) PROVE In(q, b) /\ b # q[1]
    <3>1. PICK i \in 1..Len(q) - 1 : t[i] = b
      BY <2>1, <1>2 DEF In
    <3>2. i + 1 \in 1..Len(q) /\ q[i + 1] = b /\ i + 1 # 1
      BY <1>1, <1>2, <3>1
    <3> QED BY <1>3, <3>2 DEF In, Distinct
  <2>2. ASSUME In(q, b), b # q[1] PROVE In(t, b)
    <3>1. PICK i \in 1..Len(q) : q[i] = b
      BY <2>2 DEF In
    <3>2. i # 1
      BY <2>2, <3>1
    <3>3. i - 1 \in 1..Len(t) /\ (i - 1) + 1 = i
      BY <1>1, <1>2, <3>2
    <3>4. t[i - 1] = b
      BY <1>2, <3>1, <3>3
    <3> QED BY <3>3, <3>4 DEF In
  <2> QED BY <2>1, <2>2
<1>6. In(q, q[1])
  BY <1>3 DEF In
<1> QED BY <1>1, <1>2, <1>3, <1>4, <1>5, <1>6 DEF t

\* ... or without its last.
LEMMA FrontDistinct ==
  ASSUME NEW S, NEW q \in Seq(S), Distinct(q), q # <<>>
  PROVE  /\ Len(q) \in Nat \ {0} /\ q[Len(q)] \in S /\ In(q, q[Len(q)])
         /\ SubSeq(q, 1, Len(q) - 1) \in Seq(S)
         /\ Len(SubSeq(q, 1, Len(q) - 1)) = Len(q) - 1
         /\ \A i \in 1..Len(q) - 1 : SubSeq(q, 1, Len(q) - 1)[i] = q[i]
         /\ Distinct(SubSeq(q, 1, Len(q) - 1))
         /\ \A b : In(SubSeq(q, 1, Len(q) - 1), b) <=> (In(q, b) /\ b # q[Len(q)])
<1> DEFINE t == SubSeq(q, 1, Len(q) - 1)
           n == Len(q)
<1>1. n \in Nat \ {0}
  BY EmptySeq
<1>2. \A i \in 1..n : q[i] \in S
  BY ElementOfSeq
<1>3. /\ t \in Seq(S) /\ Len(t) = n - 1
      /\ \A i \in 1..n - 1 : t[i] = q[i]
  <2>1. 1 \in Int /\ n - 1 \in Int /\ \A i \in 1..n - 1 : q[i] \in S
    BY <1>1, <1>2
  <2>2. /\ SubSeq(q, 1, n - 1) \in Seq(S)
        /\ Len(SubSeq(q, 1, n - 1)) = IF 1 <= n - 1 THEN (n - 1) - 1 + 1 ELSE 0
        /\ \A i \in 1..(n - 1) - 1 + 1 : SubSeq(q, 1, n - 1)[i] = q[1 + i - 1]
    BY ONLY <2>1, SubSeqProperties
  <2>3. \A m \in Nat \ {0} :
           (m - 1) - 1 + 1 = m - 1 /\ (IF 1 <= m - 1 THEN (m - 1) - 1 + 1 ELSE 0) = m - 1
    OBVIOUS
  <2>4. t = SubSeq(q, 1, n - 1)
    OBVIOUS
  <2>5. \A i \in 1..n - 1 : 1 + i - 1 = i
    BY <1>1
  <2> HIDE DEF n, t
  <2> QED BY <1>1, <2>2, <2>3, <2>4, <2>5
<1> HIDE DEF t
<1>4. n \in 1..n
  BY <1>1
<1>5. Distinct(t)
  <2> SUFFICES ASSUME NEW i \in 1..n - 1, NEW j \in 1..n - 1, t[i] = t[j]
               PROVE  i = j
    BY <1>3 DEF Distinct
  <2>1. i \in 1..n /\ j \in 1..n /\ q[i] = q[j]
    BY <1>1, <1>3
  <2> QED BY <2>1 DEF Distinct
<1>6. ASSUME NEW b PROVE In(t, b) <=> (In(q, b) /\ b # q[n])
  <2>1. ASSUME In(t, b) PROVE In(q, b) /\ b # q[n]
    <3>1. PICK i \in 1..n - 1 : t[i] = b
      BY <2>1, <1>3 DEF In
    <3>2. i \in 1..n /\ q[i] = b /\ i # n
      BY <1>1, <1>3, <3>1
    <3> QED BY <1>4, <3>2 DEF In, Distinct
  <2>2. ASSUME In(q, b), b # q[n] PROVE In(t, b)
    <3>1. PICK i \in 1..n : q[i] = b
      BY <2>2 DEF In
    <3>2. i # n
      BY <2>2, <3>1
    <3>3. i \in 1..Len(t) /\ i \in 1..n - 1
      BY <1>1, <1>3, <3>2
    <3> QED BY <1>3, <3>1, <3>3 DEF In
  <2> QED BY <2>1, <2>2
<1>7. In(q, q[n])
  BY <1>4 DEF In
<1> QED BY <1>1, <1>2, <1>3, <1>4, <1>5, <1>6, <1>7 DEF t

\* A sequence from its end to its beginning.
Turned(q) == [i \in 1..Len(q) |-> q[(Len(q) - i) + 1]]

\* It holds the same elements.
LEMMA TurnedProperties ==
  ASSUME NEW S, NEW q \in Seq(S)
  PROVE  /\ Turned(q) \in Seq(S) /\ Len(Turned(q)) = Len(q)
         /\ \A i \in 1..Len(q) : Turned(q)[i] = q[(Len(q) - i) + 1]
<1> DEFINE e(i) == q[(Len(q) - i) + 1]
<1>1. Len(q) \in Nat
  BY LenProperties
<1>2. \A i \in 1..Len(q) : (Len(q) - i) + 1 \in 1..Len(q)
  BY <1>1
<1>3. \A i \in 1..Len(q) : e(i) \in S
  BY <1>2, ElementOfSeq
<1> HIDE DEF e
<1>4. [i \in 1..Len(q) |-> e(i)] \in Seq(S)
  BY <1>1, <1>3, IsASeq
<1>5. Turned(q) = [i \in 1..Len(q) |-> e(i)]
  BY DEF Turned, e
<1>6. Len(Turned(q)) = Len(q)
  <2>1. DOMAIN Turned(q) = 1..Len(q) /\ DOMAIN Turned(q) = 1..Len(Turned(q))
    BY <1>4, <1>5, LenProperties
  <2>2. Len(Turned(q)) \in Nat
    BY <1>4, <1>5, LenProperties
  <2> QED BY <1>1, <2>1, <2>2
<1> QED BY <1>4, <1>5, <1>6 DEF e
=============================================================================
