---------------------------- MODULE DequesProofs ----------------------------
(***************************************************************************)
(* Proofs about the two double-ended queues.                               *)
(*                                                                         *)
(* ZDeque, for any number and size of chunks.  The inductive invariant,    *)
(* DequeInv, says that some sequence c of chunks is linked in both         *)
(* directions from begin_chunk to end_chunk, that these chunks and the     *)
(* spare one are what is allocated, and that size is the distance of the   *)
(* two positions along c.  The values of the queue are those of the slots  *)
(* at the distances First, ..., First + size - 1 of c; each step of the    *)
(* queue adds or takes an end of c, or none, and moves these distances by  *)
(* as much.                                                                *)
(*                                                                         *)
(* ZList and its block allocator, for any number of threads, any chunk     *)
(* size and any limit: the memory is bounded, every block is in one place, *)
(* the links of both directions agree, and the list is a sequence for all  *)
(* its users together.  The invariant, ListInv, says that some sequence s  *)
(* of blocks is linked from head to tail and that, with the recycle queue  *)
(* and the blocks in users' hands, it makes up what was cut from the       *)
(* chunks.                                                                 *)
(***************************************************************************)
EXTENDS ZDeque, ZList, Chains, FiniteSetTheorems

-----------------------------------------------------------------------------
(* The inductive invariant.                                                *)

Typed ==
  /\ size \in Nat
  /\ begin_pos \in -1..ChunkSize - 1 /\ end_pos \in 0..ChunkSize
  /\ begin_pos = -1 => end_pos < ChunkSize
  /\ spare_chunk \in Chunks \cup {NULL}
  /\ live \subseteq Chunks
  /\ next \in [Chunks -> Chunks \cup {NULL}]
  /\ prev \in [Chunks -> Chunks \cup {NULL}]
  /\ value \in [Chunks -> [Slots -> Values \cup {NULL}]]

\* The two positions, as slots of their chunks also after a push that failed.
First == IF begin_pos < 0 THEN 0 ELSE begin_pos
End == IF end_pos = ChunkSize THEN ChunkSize - 1 ELSE end_pos

\* The chunks c are linked in both directions from begin_chunk to end_chunk.
Linked(c) ==
  /\ begin_chunk = c[1] /\ end_chunk = c[Len(c)]
  /\ \A i \in 1..Len(c) - 1 : next[c[i]] = c[i + 1] /\ prev[c[i + 1]] = c[i]
  /\ next[c[Len(c)]] = NULL /\ prev[c[1]] = NULL

\* They and the spare chunk are what is allocated.
Accounted(c) ==
  /\ \A k \in Chunks : k \in live <=> In(c, k) \/ k = spare_chunk
  /\ ~In(c, spare_chunk)

Kept(c) ==
  /\ c \in Seq(Chunks) /\ c # <<>> /\ Distinct(c)
  /\ Linked(c)
  /\ Accounted(c)
  /\ First + size = (Len(c) - 1) * ChunkSize + End

DequeInv == Typed /\ \E c : Kept(c)

\* The value at distance a from the first slot of the chunks c.
At(c, a) == value[c[(a \div ChunkSize) + 1]][a % ChunkSize]

\* The values of the queue, if its chunks are c.
Listed(c) == [k \in 1..size |-> At(c, First + k - 1)]

-----------------------------------------------------------------------------
(* Distances along a sequence of chunks.                                   *)

\* What the constants are to the provers.
LEMMA Constants ==
  /\ NULL \notin Chunks /\ NULL \notin Values
  /\ ChunkSize \in Nat /\ ChunkSize \in Nat \ {0} /\ ChunkSize > 0
  BY DequeAssumption

\* A distance below n chunks lies in one of the chunks 1..n.
LEMMA Within ==
  ASSUME NEW n \in Nat, NEW a \in Nat, a < n * ChunkSize
  PROVE  (a \div ChunkSize) + 1 \in 1..n /\ a % ChunkSize \in Slots
<1>1. PICK m \in Nat \ {0} : m = ChunkSize
  BY Constants
<1>2. PICK d \in Nat : d = a \div m
  BY <1>1, Division
<1>3. PICK r \in 0..m - 1 : r = a % m
  BY <1>1, Division
<1>4. a = d * m + r
  BY <1>1, <1>2, <1>3, Division
<1>5. ASSUME n <= d PROVE FALSE
  <2>1. n * m \in Nat /\ d * m \in Nat
    BY Products
  <2>2. CASE n = d
    BY <2>1, <2>2, <1>1, <1>4
  <2>3. CASE n < d
    <3>1. n * m + m <= d * m
      BY <2>3, Products
    <3> QED BY <2>1, <3>1, <1>1, <1>4
  <2> QED BY <2>2, <2>3, <1>5
<1>6. d + 1 \in 1..n
  BY <1>5
<1> QED BY <1>6, <1>1, <1>2, <1>3 DEF Slots

\* The distance of slot q of the i-th chunk.
LEMMA Place ==
  ASSUME NEW i \in Nat \ {0}, NEW q \in Slots, NEW a \in Nat, a = (i - 1) * ChunkSize + q
  PROVE  (a \div ChunkSize) + 1 = i /\ a % ChunkSize = q
<1>1. PICK j \in Nat : j = i - 1
  OBVIOUS
<1>2. ChunkSize \in Nat \ {0} /\ q \in 0..ChunkSize - 1
  BY Constants DEF Slots
<1>3. a \div ChunkSize = j /\ a % ChunkSize = q
  BY <1>1, <1>2, DivisionUnique
<1> QED BY <1>1, <1>3

\* Different distances are different slots.
LEMMA PlacesDiffer ==
  ASSUME NEW a \in Nat, NEW b \in Nat,
         a \div ChunkSize = b \div ChunkSize, a % ChunkSize = b % ChunkSize
  PROVE  a = b
<1>1. ChunkSize \in Nat \ {0}
  BY Constants
<1>2. a = (a \div ChunkSize) * ChunkSize + (a % ChunkSize)
  BY <1>1, Division
<1>3. b = (b \div ChunkSize) * ChunkSize + (b % ChunkSize)
  BY <1>1, Division
<1> QED BY <1>2, <1>3

\* One chunk further is the next chunk and the same slot.
LEMMA PlaceNext ==
  ASSUME NEW a \in Nat
  PROVE  /\ (a + ChunkSize) \div ChunkSize = (a \div ChunkSize) + 1
         /\ (a + ChunkSize) % ChunkSize = a % ChunkSize
  BY Constants, DivisionNext

-----------------------------------------------------------------------------
(* What the invariant says of the two ends.                                *)

\* n - 1 and n chunks, as numbers.
LEMMA ChunksOf ==
  ASSUME NEW n \in Nat \ {0}
  PROVE  (n - 1) * ChunkSize \in Nat /\ n * ChunkSize = (n - 1) * ChunkSize + ChunkSize
<1>1. PICK j \in Nat : n = j + 1
  <2>1. n - 1 \in Nat /\ n = (n - 1) + 1
    OBVIOUS
  <2> QED BY <2>1
<1>2. PICK m \in Nat \ {0} : m = ChunkSize
  BY Constants
<1>3. j * m \in Nat /\ (j + 1) * m = j * m + 1 * m /\ 1 * m = m
  BY Products
<1>4. n - 1 = j
  BY <1>1
<1> QED BY <1>1, <1>2, <1>3, <1>4

\* The last slot in use is in the chain, and the slot of the end position is the next one.
LEMMA EndsAt ==
  ASSUME Typed, NEW c, Kept(c)
  PROVE  /\ Len(c) \in Nat \ {0}
         /\ First \in Slots /\ End \in Slots
         /\ First + size \in Nat /\ First + size < Len(c) * ChunkSize
         /\ c[1] \in Chunks /\ c[Len(c)] \in Chunks
         /\ First + size = (Len(c) - 1) * ChunkSize + End
         /\ First + size + (ChunkSize - End) = Len(c) * ChunkSize
<1>1. Len(c) \in Nat \ {0} /\ c[1] \in Chunks /\ c[Len(c)] \in Chunks
  BY TailDistinct, FrontDistinct DEF Kept
<1>2. First \in Slots /\ End \in Slots /\ First \in Nat /\ End \in Nat /\ End < ChunkSize
  BY Constants DEF Typed, First, End, Slots
<1>3. PICK p \in Nat : p = (Len(c) - 1) * ChunkSize
  BY <1>1, ChunksOf
<1>4. Len(c) * ChunkSize = p + ChunkSize
  BY <1>1, <1>3, ChunksOf
<1>5. First + size = p + End
  BY <1>3 DEF Kept
<1>6. First + size \in Nat
  BY <1>2 DEF Typed
<1>7. \A a, e, l \in Nat : /\ a = p + e /\ e < ChunkSize /\ l = p + ChunkSize
                          => a < l /\ a + (ChunkSize - e) = l
  BY Constants
<1>8. p + ChunkSize \in Nat
  BY Constants
<1> QED BY ONLY <1>1, <1>2, <1>3, <1>4, <1>5, <1>6, <1>7, <1>8

\* The slot of the end position.
LEMMA AtEnd ==
  ASSUME Typed, NEW c, Kept(c)
  PROVE  /\ c[((First + size) \div ChunkSize) + 1] = end_chunk
         /\ (First + size) % ChunkSize = End
<1>1. PICK a \in Nat : a = First + size
  BY EndsAt
<1>2. Len(c) \in Nat \ {0} /\ End \in Slots /\ a = (Len(c) - 1) * ChunkSize + End
  BY <1>1, EndsAt
<1>3. (a \div ChunkSize) + 1 = Len(c) /\ a % ChunkSize = End
  BY <1>2, Place
<1> QED BY <1>1, <1>3 DEF Kept, Linked

\* The slot of the begin position.
LEMMA AtFirst ==
  ASSUME Typed, NEW c, Kept(c)
  PROVE  /\ (First \div ChunkSize) + 1 = 1 /\ First % ChunkSize = First
         /\ At(c, First) = value[begin_chunk][First]
<1>1. PICK a \in Slots : a = First
  BY EndsAt
<1>2. a \in Nat /\ a = (1 - 1) * ChunkSize + a
  BY Constants DEF Slots
<1>3. (a \div ChunkSize) + 1 = 1 /\ a % ChunkSize = a
  BY <1>2, Place
<1> QED BY <1>1, <1>3 DEF At, Kept, Linked
-----------------------------------------------------------------------------
(* Functions on 1..n as sequences.                                         *)

\* A function on 1..n is a sequence of n elements.
LEMMA AsSequence ==
  ASSUME NEW n \in Nat, NEW S, NEW p \in [1..n -> S]
  PROVE  p \in Seq(S) /\ Len(p) = n
<1> DEFINE e(i) == p[i]
<1>1. p = [i \in 1..n |-> e(i)]
  OBVIOUS
<1>2. \A i \in 1..n : e(i) \in S
  OBVIOUS
<1> HIDE DEF e
<1>3. p \in Seq(S)
  BY <1>1, <1>2, IsASeq
<1>4. Len(p) \in Nat /\ DOMAIN p = 1..Len(p)
  BY <1>3, LenProperties
<1> QED BY <1>3, <1>4

\* One element more at the end ...
LEMMA IsAppend ==
  ASSUME NEW n \in Nat, NEW S, NEW v \in S,
         NEW p \in [1..n -> S], NEW q \in [1..n + 1 -> S],
         \A k \in 1..n : q[k] = p[k], q[n + 1] = v
  PROVE  q = Append(p, v)
<1>1. p \in Seq(S) /\ Len(p) = n
  BY AsSequence
<1>3. q \in Seq(S) /\ Len(q) = n + 1
  BY AsSequence, n + 1 \in Nat
<1>4. /\ Append(p, v) \in Seq(S) /\ Len(Append(p, v)) = n + 1
      /\ \A k \in 1..n : Append(p, v)[k] = p[k]
      /\ Append(p, v)[n + 1] = v
  BY <1>1, AppendProperties
<1>5. \A k \in 1..n + 1 : q[k] = Append(p, v)[k]
  <2>1. \A k \in 1..n + 1 : k \in 1..n \/ k = n + 1
    OBVIOUS
  <2> QED BY <2>1, <1>4
<1>6. \A s, t \in Seq(S) : Len(s) = Len(t) /\ (\A i \in 1..Len(s) : s[i] = t[i]) => s = t
  BY SeqEqual
<1> QED BY <1>3, <1>4, <1>5, <1>6

\* ... or at the front,
LEMMA IsCons ==
  ASSUME NEW n \in Nat, NEW S, NEW v \in S,
         NEW p \in [1..n -> S], NEW q \in [1..n + 1 -> S],
         \A k \in 1..n : q[k + 1] = p[k], q[1] = v
  PROVE  q = <<v>> \o p
<1>1. p \in Seq(S) /\ Len(p) = n
  BY AsSequence
<1>2. \A k \in 1..n + 1 : k = 1 \/ (k - 1 \in 1..n /\ k = (k - 1) + 1)
  OBVIOUS
<1>4. q \in Seq(S) /\ Len(q) = n + 1
  BY AsSequence, n + 1 \in Nat
<1>5. <<v>> \in Seq(S) /\ Len(<<v>>) = 1 /\ <<v>>[1] = v
  OBVIOUS
<1>6. /\ <<v>> \o p \in Seq(S) /\ Len(<<v>> \o p) = n + 1
      /\ \A k \in 1..1 + n : (<<v>> \o p)[k] = IF k <= 1 THEN <<v>>[k] ELSE p[k - 1]
  <2>1. /\ <<v>> \o p \in Seq(S)
        /\ Len(<<v>> \o p) = Len(<<v>>) + Len(p)
        /\ \A k \in 1..Len(<<v>>) + Len(p) : (<<v>> \o p)[k] =
             IF k <= Len(<<v>>) THEN <<v>>[k] ELSE p[k - Len(<<v>>)]
    BY <1>1, <1>5, ConcatProperties
  <2> QED BY <1>1, <1>5, <2>1
<1>7. \A k \in 1..n + 1 : q[k] = (<<v>> \o p)[k]
  <2> SUFFICES ASSUME NEW k \in 1..n + 1 PROVE q[k] = (<<v>> \o p)[k]
    OBVIOUS
  <2>1. CASE k = 1
    BY <2>1, <1>5, <1>6
  <2>2. CASE k - 1 \in 1..n /\ k = (k - 1) + 1
    <3>1. q[k] = p[k - 1]
      BY <2>2
    <3>2. k \in 1..1 + n /\ ~(k <= 1)
      BY <2>2
    <3> QED BY <3>1, <3>2, <1>6
  <2> QED BY <2>1, <2>2, <1>2
<1>8. \A s, t \in Seq(S) : Len(s) = Len(t) /\ (\A i \in 1..Len(s) : s[i] = t[i]) => s = t
  BY SeqEqual
<1> QED BY <1>4, <1>6, <1>7, <1>8

\* and one less at the front ...
LEMMA IsTail ==
  ASSUME NEW n \in Nat \ {0}, NEW S,
         NEW p \in [1..n -> S], NEW q \in [1..n - 1 -> S],
         \A k \in 1..n - 1 : q[k] = p[k + 1]
  PROVE  q = Tail(p) /\ p # <<>> /\ Head(p) = p[1]
<1>1. p \in Seq(S) /\ Len(p) = n /\ p # <<>>
  BY AsSequence, EmptySeq
<1>4. q \in Seq(S) /\ Len(q) = n - 1
  BY AsSequence, n - 1 \in Nat
<1>5. /\ Tail(p) \in Seq(S) /\ Len(Tail(p)) = n - 1 /\ Head(p) = p[1]
      /\ \A k \in 1..n - 1 : Tail(p)[k] = p[k + 1]
  BY <1>1, HeadTailProperties
<1>6. \A s, t \in Seq(S) : Len(s) = Len(t) /\ (\A i \in 1..Len(s) : s[i] = t[i]) => s = t
  BY SeqEqual
<1> QED BY <1>1, <1>4, <1>5, <1>6

\* ... or at the end.
LEMMA IsFront ==
  ASSUME NEW n \in Nat \ {0}, NEW S,
         NEW p \in [1..n -> S], NEW q \in [1..n - 1 -> S],
         \A k \in 1..n - 1 : q[k] = p[k]
  PROVE  q = SubSeq(p, 1, Len(p) - 1) /\ p # <<>> /\ p[Len(p)] = p[n]
<1>1. p \in Seq(S) /\ Len(p) = n /\ p # <<>>
  BY AsSequence, EmptySeq
<1>2. PICK m \in Nat : n = m + 1 /\ n - 1 = m
  <2>1. n - 1 \in Nat /\ n = (n - 1) + 1
    OBVIOUS
  <2> QED BY <2>1
<1>3. q \in [1..m -> S]
  BY <1>2
<1>4. q \in Seq(S) /\ Len(q) = m
  BY <1>3, AsSequence
<1>5. \A k \in 1..m : p[k] \in S
  BY <1>2
<1>6. /\ SubSeq(p, 1, m) \in Seq(S)
      /\ Len(SubSeq(p, 1, m)) = IF 1 <= m THEN m - 1 + 1 ELSE 0
      /\ \A k \in 1..m - 1 + 1 : SubSeq(p, 1, m)[k] = p[1 + k - 1]
  BY ONLY <1>1, <1>5, SubSeqProperties, 1 \in Int, m \in Int, Len(p) \in Nat
<1>7. Len(SubSeq(p, 1, m)) = m /\ \A k \in 1..m : SubSeq(p, 1, m)[k] = p[k]
  <2>1. (IF 1 <= m THEN m - 1 + 1 ELSE 0) = m /\ m - 1 + 1 = m
    OBVIOUS
  <2>2. \A k \in 1..m : 1 + k - 1 = k
    OBVIOUS
  <2> QED BY <1>6, <2>1, <2>2
<1>8. \A s, t \in Seq(S) : Len(s) = Len(t) /\ (\A i \in 1..Len(s) : s[i] = t[i]) => s = t
  BY SeqEqual
<1>9. q = SubSeq(p, 1, m)
  BY <1>2, <1>4, <1>6, <1>7, <1>8
<1> QED BY <1>1, <1>2, <1>9

-----------------------------------------------------------------------------
(* The steps of the queue.                                                 *)

\* The value at a distance inside the chain.
LEMMA AtInside ==
  ASSUME Typed, NEW c, Kept(c), NEW a \in Nat, a < Len(c) * ChunkSize
  PROVE  /\ (a \div ChunkSize) + 1 \in 1..Len(c) /\ a % ChunkSize \in Slots
         /\ c[(a \div ChunkSize) + 1] \in Chunks /\ In(c, c[(a \div ChunkSize) + 1])
         /\ At(c, a) \in Values \cup {NULL}
<1>1. Len(c) \in Nat /\ c \in Seq(Chunks)
  BY EndsAt DEF Kept
<1>2. (a \div ChunkSize) + 1 \in 1..Len(c) /\ a % ChunkSize \in Slots
  BY <1>1, Within
<1>3. c[(a \div ChunkSize) + 1] \in Chunks
  BY <1>1, <1>2, ElementOfSeq
<1> QED BY <1>2, <1>3 DEF At, In, Typed

\* The slots of the values are inside the chain.
LEMMA Inside ==
  ASSUME Typed, NEW c, Kept(c)
  PROVE  \A k \in 1..size : First + k - 1 \in Nat /\ First + k - 1 < Len(c) * ChunkSize
                            /\ First + k - 1 < First + size
<1>1. First + size < Len(c) * ChunkSize /\ First \in Nat /\ size \in Nat
  BY EndsAt, Constants DEF Typed, First
<1>2. Len(c) * ChunkSize \in Nat
  BY EndsAt, ChunksOf, Constants
<1> QED BY <1>1, <1>2

\* What is listed are values, or slots that nothing was written to.
LEMMA ListedTyped ==
  ASSUME Typed, NEW c, Kept(c)
  PROVE  Listed(c) \in [1..size -> Values \cup {NULL}]
<1>1. \A k \in 1..size : At(c, First + k - 1) \in Values \cup {NULL}
  BY Inside, AtInside
<1> QED BY <1>1 DEF Listed

\* The end position is behind the slots of the values.
LEMMA EndIsFree ==
  ASSUME Typed, NEW c, Kept(c), NEW a \in Nat, a < First + size
  PROVE  c[(a \div ChunkSize) + 1] # end_chunk \/ a % ChunkSize # End
<1> SUFFICES ASSUME c[(a \div ChunkSize) + 1] = end_chunk, a % ChunkSize = End
             PROVE  FALSE
  OBVIOUS
<1>1. PICK b \in Nat : b = First + size
  BY EndsAt
<1>2. c[(b \div ChunkSize) + 1] = end_chunk /\ b % ChunkSize = End
  BY <1>1, AtEnd
<1>3. a < Len(c) * ChunkSize /\ b < Len(c) * ChunkSize
  <2>1. Len(c) * ChunkSize \in Nat
    BY EndsAt, ChunksOf, Constants
  <2> QED BY <2>1, <1>1, EndsAt
<1>4. (a \div ChunkSize) + 1 \in 1..Len(c) /\ (b \div ChunkSize) + 1 \in 1..Len(c)
  BY <1>3, AtInside
<1>5. (a \div ChunkSize) + 1 = (b \div ChunkSize) + 1
  BY <1>2, <1>4 DEF Kept, Distinct
<1>6. a \div ChunkSize = b \div ChunkSize
  BY <1>5, Constants, Division
<1> QED BY <1>1, <1>2, <1>6, PlacesDiffer

\* Steps that leave the chunks and their links alone, and write at most the end position.
LEMMA SameChunks ==
  ASSUME Typed, NEW c, Kept(c),
         UNCHANGED <<begin_chunk, end_chunk, spare_chunk, linkVars, live>>,
         (First + size = (Len(c) - 1) * ChunkSize + End)'
  PROVE  Kept(c)'
  BY DEF Kept, Linked, Accounted, linkVars

\* A chunk that was obtained is not in the chain; with it the chain is what is allocated.
LEMMA Obtained ==
  ASSUME Typed, NEW c, Kept(c), NEW k \in Chunks, Obtain(k)
  PROVE  /\ ~In(c, k)
         /\ \A d : (\A b : In(d, b) <=> In(c, b) \/ b = k) => Accounted(d)'
         /\ \A x \in Chunks : x # k => Memory(k)[x] = value[x]
         /\ Memory(k) \in [Chunks -> [Slots -> Values \cup {NULL}]]
<1>1. \A b : In(c, b) => b \in Chunks
  BY ElementOfSeq DEF Kept, In
<1>2. ~In(c, k)
  BY DEF Kept, Accounted, Obtain
<1>3. ASSUME NEW d, \A b : In(d, b) <=> In(c, b) \/ b = k PROVE Accounted(d)'
  <2>1. spare_chunk' = NULL /\ live' = live \cup {k}
    BY DEF Obtain
  <2>2. \A x \in Chunks : x \in live <=> In(c, x) \/ x = spare_chunk
    BY DEF Kept, Accounted
  <2>3. spare_chunk # NULL => k = spare_chunk
    BY DEF Obtain
  <2>4. \A x \in Chunks : x \in live' <=> In(d, x) \/ x = spare_chunk'
    BY <1>3, <2>1, <2>2, <2>3, Constants
  <2>5. ~In(d, spare_chunk')
    BY <1>1, <1>3, <2>1, Constants
  <2> QED BY <2>4, <2>5 DEF Accounted, In
<1>4. \A x \in Chunks : x # k => Memory(k)[x] = value[x]
  BY DEF Memory, Typed
<1>5. Memory(k) \in [Chunks -> [Slots -> Values \cup {NULL}]]
  BY DEF Memory, Typed, Zeroed
<1> QED BY <1>2, <1>3, <1>4, <1>5

\* One value more behind the others ...
LEMMA ValueAppended ==
  ASSUME Typed, NEW c, Kept(c), NEW d, NEW v \in Values, size' = size + 1, First' = First,
         \A a \in Nat : a < First + size => At(d, a)' = At(c, a),
         \A a \in Nat : a = First + size => At(d, a)' = v
  PROVE  Listed(d)' = Append(Listed(c), v)
<1> PICK q : q = Listed(d)'
  OBVIOUS
<1>1. size \in Nat /\ First \in Nat
  BY Constants DEF Typed, First
<1>2. /\ DOMAIN q = 1..size + 1 /\ q = [k \in 1..size + 1 |-> q[k]]
      /\ \A k \in 1..size + 1 : \A a : a = First + k - 1 => q[k] = At(d, a)'
  BY DEF Listed, At
<1>3. ASSUME NEW k \in 1..size PROVE q[k] = Listed(c)[k]
  <2>1. PICK a \in Nat : a = First + k - 1 /\ a < First + size
    BY <1>1
  <2>2. k \in 1..size + 1
    BY <1>1
  <2>3. q[k] = At(d, a)' /\ At(d, a)' = At(c, a)
    BY <1>2, <2>1, <2>2
  <2>4. Listed(c)[k] = At(c, a)
    BY <2>1 DEF Listed
  <2> QED BY <2>3, <2>4
<1>4. q[size + 1] = v
  <2>1. PICK a \in Nat : a = First + size
    BY <1>1
  <2>2. size + 1 \in 1..size + 1 /\ First + (size + 1) - 1 = a
    BY <1>1, <2>1
  <2> QED BY <1>2, <2>1, <2>2
<1>5. q \in [1..size + 1 -> Values \cup {NULL}]
  <2>1. \A k \in 1..size + 1 : k \in 1..size \/ k = size + 1
    BY <1>1
  <2>2. \A k \in 1..size + 1 : q[k] \in Values \cup {NULL}
    BY <1>3, <1>4, <2>1, ListedTyped
  <2> QED BY <1>2, <2>2
<1>6. Listed(c) \in [1..size -> Values \cup {NULL}] /\ v \in Values \cup {NULL}
  BY ListedTyped
<1>7. PICK p, n, S : p = Listed(c) /\ n = size /\ S = Values \cup {NULL}
  OBVIOUS
<1>8. /\ n \in Nat /\ v \in S /\ p \in [1..n -> S] /\ q \in [1..n + 1 -> S]
      /\ (\A k \in 1..n : q[k] = p[k]) /\ q[n + 1] = v
  BY <1>1, <1>3, <1>4, <1>5, <1>6, <1>7
<1>9. q = Append(p, v)
  BY ONLY <1>8, IsAppend
<1> QED BY <1>7, <1>9

\* ... one more before them ...
LEMMA ValuePrepended ==
  ASSUME Typed, NEW c, Kept(c), NEW d, NEW v \in Values, size' = size + 1, NEW f \in Nat,
         First' = f,
         \A j, a, b \in Nat : j < size /\ b = First + j /\ a = f + j + 1
                              => At(d, a)' = At(c, b),
         \A a \in Nat : a = f => At(d, a)' = v
  PROVE  Listed(d)' = <<v>> \o Listed(c)
<1> PICK q : q = Listed(d)'
  OBVIOUS
<1>1. size \in Nat /\ First \in Nat
  BY Constants DEF Typed, First
<1>2. /\ DOMAIN q = 1..size + 1 /\ q = [k \in 1..size + 1 |-> q[k]]
      /\ \A k \in 1..size + 1 : \A a : a = f + k - 1 => q[k] = At(d, a)'
  BY DEF Listed, At
<1>3. ASSUME NEW k \in 1..size PROVE q[k + 1] = Listed(c)[k]
  <2>1. PICK j \in Nat : k = j + 1 /\ j < size
    <3>1. k - 1 \in Nat /\ k = (k - 1) + 1 /\ k - 1 < size
      BY <1>1
    <3> QED BY <3>1
  <2>2. PICK a \in Nat : a = f + j + 1 /\ a = f + (k + 1) - 1
    BY <2>1
  <2>3. PICK b \in Nat : b = First + j /\ b = First + k - 1
    BY <1>1, <2>1
  <2>4. k + 1 \in 1..size + 1
    BY <1>1
  <2>5. q[k + 1] = At(d, a)' /\ At(d, a)' = At(c, b)
    BY <1>2, <2>1, <2>2, <2>3, <2>4
  <2>6. Listed(c)[k] = At(c, b)
    BY <2>3 DEF Listed
  <2> QED BY <2>5, <2>6
<1>4. q[1] = v
  <2>1. PICK a \in Nat : a = f /\ a = f + 1 - 1
    OBVIOUS
  <2>2. 1 \in 1..size + 1
    BY <1>1
  <2> QED BY <1>2, <2>1, <2>2
<1>5. q \in [1..size + 1 -> Values \cup {NULL}]
  <2>1. \A k \in 1..size + 1 : k = 1 \/ (k - 1 \in 1..size /\ k = (k - 1) + 1)
    BY <1>1
  <2>2. \A k \in 1..size + 1 : q[k] \in Values \cup {NULL}
    <3>1. \A k \in 1..size : Listed(c)[k] \in Values \cup {NULL}
      BY ListedTyped
    <3> QED BY <1>3, <1>4, <2>1, <3>1
  <2> QED BY <1>2, <2>2
<1>6. Listed(c) \in [1..size -> Values \cup {NULL}] /\ v \in Values \cup {NULL}
  BY ListedTyped
<1>7. PICK p, n, S : p = Listed(c) /\ n = size /\ S = Values \cup {NULL}
  OBVIOUS
<1>8. /\ n \in Nat /\ v \in S /\ p \in [1..n -> S] /\ q \in [1..n + 1 -> S]
      /\ (\A k \in 1..n : q[k + 1] = p[k]) /\ q[1] = v
  BY <1>1, <1>3, <1>4, <1>5, <1>6, <1>7
<1>9. q = <<v>> \o p
  BY ONLY <1>8, IsCons
<1> QED BY <1>7, <1>9

\* ... the first one less ...
LEMMA FirstTaken ==
  ASSUME Typed, NEW c, Kept(c), NEW d, size > 0, size' = size - 1, NEW f \in Nat, First' = f,
         \A j, a, b \in Nat : j + 1 < size /\ b = First + j + 1 /\ a = f + j
                              => At(d, a)' = At(c, b)
  PROVE  Listed(d)' = Tail(Listed(c))
<1> PICK q : q = Listed(d)'
  OBVIOUS
<1>1. size \in Nat \ {0} /\ First \in Nat
  BY Constants DEF Typed, First
<1>2. /\ DOMAIN q = 1..size - 1 /\ q = [k \in 1..size - 1 |-> q[k]]
      /\ \A k \in 1..size - 1 : \A a : a = f + k - 1 => q[k] = At(d, a)'
  BY DEF Listed, At
<1>3. ASSUME NEW k \in 1..size - 1 PROVE q[k] = Listed(c)[k + 1] /\ k + 1 \in 1..size
  <2>1. PICK j \in Nat : k = j + 1 /\ j + 1 < size
    <3>1. k - 1 \in Nat /\ k = (k - 1) + 1 /\ (k - 1) + 1 < size
      BY <1>1
    <3> QED BY <3>1
  <2>2. PICK a \in Nat : a = f + j /\ a = f + k - 1
    BY <2>1
  <2>3. PICK b \in Nat : b = First + j + 1 /\ b = First + (k + 1) - 1
    BY <1>1, <2>1
  <2>4. k + 1 \in 1..size
    BY <1>1
  <2>5. q[k] = At(d, a)' /\ At(d, a)' = At(c, b)
    BY <1>2, <2>1, <2>2, <2>3
  <2>6. Listed(c)[k + 1] = At(c, b)
    BY <2>3, <2>4 DEF Listed
  <2> QED BY <2>4, <2>5, <2>6
<1>4. Listed(c) \in [1..size -> Values \cup {NULL}]
  BY ListedTyped
<1>5. q \in [1..size - 1 -> Values \cup {NULL}]
  <2>1. \A k \in 1..size - 1 : q[k] \in Values \cup {NULL}
    BY <1>3, <1>4
  <2> QED BY <1>2, <2>1
<1>6. PICK p, n, S : p = Listed(c) /\ n = size /\ S = Values \cup {NULL}
  OBVIOUS
<1>7. /\ n \in Nat \ {0} /\ p \in [1..n -> S] /\ q \in [1..n - 1 -> S]
      /\ \A k \in 1..n - 1 : q[k] = p[k + 1]
  BY <1>1, <1>3, <1>4, <1>5, <1>6
<1>8. q = Tail(p)
  BY ONLY <1>7, IsTail
<1> QED BY <1>6, <1>8

\* The value at the begin position is the first one.
LEMMA FirstListed ==
  ASSUME Typed, NEW c, Kept(c), size > 0
  PROVE  Listed(c) # <<>> /\ Head(Listed(c)) = value[begin_chunk][First]
<1>1. size \in Nat \ {0} /\ First \in Nat
  BY Constants DEF Typed, First
<1>2. Listed(c)[1] = value[begin_chunk][First]
  <2>1. PICK a \in Nat : a = First /\ a = First + 1 - 1
    BY <1>1
  <2>2. 1 \in 1..size
    BY <1>1
  <2>3. Listed(c)[1] = At(c, a)
    BY <2>1, <2>2 DEF Listed
  <2> QED BY <2>1, <2>3, AtFirst
<1>3. PICK p, n, S : p = Listed(c) /\ n = size /\ S = Values \cup {NULL}
  OBVIOUS
<1>4. n \in Nat \ {0} /\ p \in [1..n -> S]
  BY <1>1, <1>3, ListedTyped
<1>5. p \in Seq(S) /\ Len(p) = n
  BY <1>4, AsSequence
<1>6. p # <<>> /\ Head(p) = p[1]
  BY <1>4, <1>5, EmptySeq, HeadTailProperties
<1> QED BY <1>2, <1>3, <1>6

\* ... the last one less ...
LEMMA LastTaken ==
  ASSUME Typed, NEW c, Kept(c), NEW d, size > 0, size' = size - 1, First' = First,
         \A a \in Nat : a + 1 < First + size => At(d, a)' = At(c, a)
  PROVE  /\ Listed(d)' = SubSeq(Listed(c), 1, Len(Listed(c)) - 1) /\ Listed(c) # <<>>
         /\ \A a \in Nat : a + 1 = First + size => Listed(c)[Len(Listed(c))] = At(c, a)
<1> PICK q : q = Listed(d)'
  OBVIOUS
<1>1. size \in Nat \ {0} /\ First \in Nat
  BY Constants DEF Typed, First
<1>2. /\ DOMAIN q = 1..size - 1 /\ q = [k \in 1..size - 1 |-> q[k]]
      /\ \A k \in 1..size - 1 : \A a : a = First + k - 1 => q[k] = At(d, a)'
  BY DEF Listed, At
<1>3. ASSUME NEW k \in 1..size - 1 PROVE q[k] = Listed(c)[k] /\ k \in 1..size
  <2>1. PICK a \in Nat : a = First + k - 1 /\ a + 1 < First + size
    <3>1. First + k - 1 \in Nat /\ (First + k - 1) + 1 < First + size
      BY <1>1
    <3> QED BY <3>1
  <2>2. k \in 1..size
    BY <1>1
  <2>3. q[k] = At(d, a)' /\ At(d, a)' = At(c, a)
    BY <1>2, <2>1
  <2>4. Listed(c)[k] = At(c, a)
    BY <2>1, <2>2 DEF Listed
  <2> QED BY <2>2, <2>3, <2>4
<1>4. Listed(c) \in [1..size -> Values \cup {NULL}]
  BY ListedTyped
<1>5. q \in [1..size - 1 -> Values \cup {NULL}]
  <2>1. \A k \in 1..size - 1 : q[k] \in Values \cup {NULL}
    BY <1>3, <1>4
  <2> QED BY <1>2, <2>1
<1>6. ASSUME NEW a \in Nat, a + 1 = First + size PROVE Listed(c)[size] = At(c, a)
  <2>1. size \in 1..size /\ a = First + size - 1
    BY <1>1, <1>6
  <2> QED BY <2>1 DEF Listed
<1>7. PICK p, n, S : p = Listed(c) /\ n = size /\ S = Values \cup {NULL}
  OBVIOUS
<1>8. /\ n \in Nat \ {0} /\ p \in [1..n -> S] /\ q \in [1..n - 1 -> S]
      /\ \A k \in 1..n - 1 : q[k] = p[k]
  BY <1>1, <1>3, <1>4, <1>5, <1>7
<1>9. q = SubSeq(p, 1, Len(p) - 1) /\ p # <<>> /\ p[Len(p)] = p[n]
  BY ONLY <1>8, IsFront
<1> QED BY <1>6, <1>7, <1>9

\* ... or the same ones.
LEMMA ValuesStay ==
  ASSUME Typed, NEW c, Kept(c), size' = size, First' = First,
         \A a \in Nat : a < First + size => At(c, a)' = At(c, a)
  PROVE  Listed(c)' = Listed(c)
<1>1. size \in Nat /\ First \in Nat
  BY Constants DEF Typed, First
<1>2. \A k \in 1..size : \A a : a = First + k - 1
        => Listed(c)'[k] = At(c, a)' /\ Listed(c)[k] = At(c, a)
  BY DEF Listed, At
<1>3. ASSUME NEW k \in 1..size PROVE Listed(c)'[k] = Listed(c)[k]
  <2>1. PICK a \in Nat : a = First + k - 1 /\ a < First + size
    BY <1>1
  <2> QED BY <1>2, <2>1
<1>4. /\ Listed(c)' = [k \in 1..size |-> Listed(c)'[k]]
      /\ Listed(c) = [k \in 1..size |-> Listed(c)[k]]
  BY DEF Listed
<1> QED BY <1>3, <1>4

\* A push into the end chunk.
LEMMA PushWithin ==
  ASSUME Typed, NEW c, Kept(c), NEW v \in Values, Push(v), end_pos + 1 < ChunkSize
  PROVE  Kept(c)' /\ Listed(c)' = Append(Listed(c), v)
<1>1. /\ size' = size + 1 /\ begin_chunk' = begin_chunk /\ begin_pos' = begin_pos
      /\ end_pos' = end_pos + 1
      /\ value' = [value EXCEPT ![end_chunk][end_pos] = v]
      /\ UNCHANGED <<begin_chunk, end_chunk, spare_chunk, linkVars, live>>
  BY DEF Push, beginVars, Typed
<1>2. First' = First /\ End = end_pos /\ End' = End + 1
  BY <1>1, Constants DEF First, End, Typed
<1>3. Kept(c)'
  <2>1. First + (size + 1) = (Len(c) - 1) * ChunkSize + (End + 1)
    <3>1. PICK p \in Nat : p = (Len(c) - 1) * ChunkSize
      BY EndsAt, ChunksOf
    <3>2. First \in Nat /\ End \in Nat /\ size \in Nat /\ First + size = p + End
      BY <3>1, EndsAt, Constants DEF Slots, Typed
    <3> QED BY <3>1, <3>2
  <2> QED BY <2>1, <1>1, <1>2, SameChunks
<1>4. ASSUME NEW a \in Nat, a < First + size PROVE At(c, a)' = At(c, a)
  <2>1. a < Len(c) * ChunkSize
    BY <1>4, EndsAt, ChunksOf, Constants
  <2>2. c[(a \div ChunkSize) + 1] # end_chunk \/ a % ChunkSize # End
    BY <1>4, EndIsFree
  <2> QED BY <1>1, <1>2, <2>1, <2>2, AtInside DEF At, Typed
<1>5. ASSUME NEW a \in Nat, a = First + size PROVE At(c, a)' = v
  <2>1. c[(a \div ChunkSize) + 1] = end_chunk /\ a % ChunkSize = end_pos
    BY <1>2, <1>5, AtEnd
  <2>2. end_chunk \in Chunks /\ end_pos \in Slots
    BY <1>2, EndsAt DEF Kept, Linked
  <2> QED BY <1>1, <2>1, <2>2 DEF At, Typed
<1>6. Listed(c)' = Append(Listed(c), v)
  BY <1>1, <1>2, <1>4, <1>5, ValueAppended
<1> QED BY <1>3, <1>6

\* A push that fills the end chunk and links the next one.
LEMMA PushBeyond ==
  ASSUME Typed, NEW c, Kept(c), NEW v \in Values, Push(v), end_pos + 1 = ChunkSize
  PROVE  \E d : Kept(d)' /\ Listed(d)' = Append(Listed(c), v)
<1>1. PICK k \in Chunks :
        /\ Obtain(k)
        /\ value' = [Memory(k) EXCEPT ![end_chunk][end_pos] = v]
        /\ LinkAfter(k)
        /\ end_chunk' = k
  BY Constants DEF Push, Typed
<1>2. /\ size' = size + 1 /\ begin_chunk' = begin_chunk /\ begin_pos' = begin_pos
      /\ end_pos' = 0
  BY Constants DEF Push, beginVars, Typed
<1>3. First' = First /\ End = end_pos /\ End' = 0 /\ ChunkSize - End = 1
  BY <1>2, Constants DEF First, End, Typed
<1>4. PICK d : d = Append(c, k)
  OBVIOUS
<1>5. PICK n \in Nat \ {0} : n = Len(c)
  BY EndsAt
<1>6. ~In(c, k) /\ c \in Seq(Chunks) /\ Distinct(c)
  BY <1>1, Obtained DEF Kept
<1>7. /\ d \in Seq(Chunks) /\ d # <<>> /\ Len(d) = n + 1 /\ Distinct(d)
      /\ \A b : In(d, b) <=> (In(c, b) \/ b = k)
  BY <1>4, <1>5, <1>6, AppendDistinct
<1>8. d[n + 1] = k /\ \A i \in 1..n : d[i] = c[i] /\ d[i] \in Chunks /\ d[i] # k
  <2>1. d[n + 1] = k /\ \A i \in 1..n : d[i] = c[i]
    BY <1>4, <1>5, <1>6, AppendProperties
  <2>2. \A i \in 1..n : c[i] \in Chunks /\ c[i] # k
    BY <1>5, <1>6, ElementOfSeq DEF In
  <2> QED BY <2>1, <2>2
<1>9. /\ next' = [next EXCEPT ![k] = NULL, ![end_chunk] = k]
      /\ prev' = [prev EXCEPT ![k] = end_chunk]
  BY <1>1 DEF LinkAfter
<1>10. end_chunk = c[n] /\ end_chunk \in Chunks /\ end_chunk # k
  BY <1>5, <1>8, n \in 1..n DEF Kept, Linked
<1>11. Linked(d)'
  <2>1. begin_chunk' = d[1] /\ end_chunk' = d[Len(d)]
    BY <1>1, <1>2, <1>5, <1>7, <1>8, 1 \in 1..n DEF Kept, Linked
  <2>2. next'[d[Len(d)]] = NULL
    BY <1>7, <1>8, <1>9, <1>10 DEF Typed
  <2>3. prev'[d[1]] = NULL
    BY <1>5, <1>8, <1>9, 1 \in 1..n DEF Typed, Kept, Linked
  <2>4. ASSUME NEW i \in 1..n PROVE next'[d[i]] = d[i + 1] /\ prev'[d[i + 1]] = d[i]
    <3>1. CASE i = n
      BY <3>1, <1>8, <1>9, <1>10 DEF Typed
    <3>2. CASE i # n
      <4>1. i \in 1..n - 1 /\ i + 1 \in 1..n /\ n \in 1..n
        BY <3>2
      <4>2. next[c[i]] = c[i + 1] /\ prev[c[i + 1]] = c[i] /\ c[i] # c[n]
        BY <4>1, <3>2, <1>5, <1>6 DEF Kept, Linked, Distinct
      <4> QED BY <4>1, <4>2, <1>8, <1>9, <1>10 DEF Typed
    <3> QED BY <3>1, <3>2
  <2>5. Len(d) - 1 = n
    BY <1>7
  <2> QED BY <2>1, <2>2, <2>3, <2>4, <2>5 DEF Linked
<1>12. Accounted(d)'
  BY <1>1, <1>7, Obtained
<1>13. (First + size = (Len(d) - 1) * ChunkSize + End)'
  <2>1. First + size + (ChunkSize - End) = n * ChunkSize
    BY <1>5, EndsAt
  <2>2. First + (size + 1) = First + size + 1
    BY Constants DEF Typed, First
  <2>3. n * ChunkSize \in Nat /\ Len(d) - 1 = n
    BY <1>7, Constants
  <2> QED BY <1>2, <1>3, <2>1, <2>2, <2>3
<1>14. Kept(d)'
  BY <1>7, <1>11, <1>12, <1>13 DEF Kept
<1>15. ASSUME NEW a \in Nat, a < Len(c) * ChunkSize
       PROVE  d[(a \div ChunkSize) + 1] = c[(a \div ChunkSize) + 1]
  BY <1>5, <1>8, <1>15, AtInside
<1>16. ASSUME NEW a \in Nat, a < First + size PROVE At(d, a)' = At(c, a)
  <2>1. a < Len(c) * ChunkSize
    BY <1>16, EndsAt, ChunksOf, Constants
  <2>2. c[(a \div ChunkSize) + 1] # end_chunk \/ a % ChunkSize # End
    BY <1>16, EndIsFree
  <2>3. /\ d[(a \div ChunkSize) + 1] = c[(a \div ChunkSize) + 1]
        /\ c[(a \div ChunkSize) + 1] \in Chunks /\ c[(a \div ChunkSize) + 1] # k
        /\ a % ChunkSize \in Slots
    BY <2>1, <1>6, <1>15, AtInside
  <2> QED BY <1>1, <1>3, <2>2, <2>3, Obtained DEF At
<1>17. ASSUME NEW a \in Nat, a = First + size PROVE At(d, a)' = v
  <2>1. d[(a \div ChunkSize) + 1] = end_chunk /\ a % ChunkSize = end_pos
    BY <1>3, <1>15, <1>17, AtEnd, EndsAt
  <2> QED BY <1>1, <1>3, <1>10, <2>1, Obtained, EndsAt DEF At
<1>18. Listed(d)' = Append(Listed(c), v)
  BY <1>2, <1>3, <1>16, <1>17, ValueAppended
<1> QED BY <1>14, <1>18

\* A failed push at the end.
LEMMA PushFailsStep ==
  ASSUME Typed, NEW c, Kept(c), NEW v \in Values, PushFails(v)
  PROVE  Kept(c)' /\ Listed(c)' = Listed(c)
<1>1. /\ size' = size /\ begin_pos' = begin_pos /\ end_pos' = ChunkSize
      /\ value' = [value EXCEPT ![end_chunk][end_pos] = v]
      /\ UNCHANGED <<begin_chunk, end_chunk, spare_chunk, linkVars, live>>
  BY DEF PushFails, beginVars
<1>2. First' = First /\ End = end_pos /\ End' = End
  BY <1>1, Constants DEF First, End, Typed, PushFails
<1>3. Kept(c)'
  <2>1. First + size = (Len(c) - 1) * ChunkSize + End
    BY EndsAt
  <2> QED BY <1>1, <1>2, <2>1, SameChunks
<1>4. ASSUME NEW a \in Nat, a < First + size PROVE At(c, a)' = At(c, a)
  <2>1. a < Len(c) * ChunkSize
    BY <1>4, EndsAt, ChunksOf, Constants
  <2>2. c[(a \div ChunkSize) + 1] # end_chunk \/ a % ChunkSize # End
    BY <1>4, EndIsFree
  <2> QED BY <1>1, <1>2, <2>1, <2>2, AtInside DEF At, Typed
<1> QED BY <1>1, <1>2, <1>3, <1>4, ValuesStay

\* A failed push at the front.
LEMMA PushFrontFailsStep ==
  ASSUME Typed, NEW c, Kept(c), PushFrontFails
  PROVE  Kept(c)' /\ Listed(c)' = Listed(c)
<1>1. /\ size' = size /\ begin_pos = 0 /\ begin_pos' = -1 /\ end_pos' = end_pos
      /\ value' = value
      /\ UNCHANGED <<begin_chunk, end_chunk, spare_chunk, linkVars, live>>
  BY DEF PushFrontFails, endVars
<1>2. First' = First /\ End' = End
  BY <1>1 DEF First, End
<1>3. Kept(c)'
  <2>1. First + size = (Len(c) - 1) * ChunkSize + End
    BY EndsAt
  <2> QED BY <1>1, <1>2, <2>1, SameChunks
<1>4. \A a \in Nat : At(c, a)' = At(c, a)
  BY <1>1 DEF At
<1> QED BY <1>1, <1>2, <1>3, <1>4, ValuesStay

\* A step that changes nothing.
LEMMA QuietStep ==
  ASSUME Typed, NEW c, Kept(c), UNCHANGED vars
  PROVE  Kept(c)' /\ Listed(c)' = Listed(c)
<1>1. /\ size' = size /\ begin_pos' = begin_pos /\ end_pos' = end_pos /\ value' = value
      /\ UNCHANGED <<begin_chunk, end_chunk, spare_chunk, linkVars, live>>
  BY DEF vars, beginVars, endVars
<1>2. First' = First /\ End' = End
  BY <1>1 DEF First, End
<1>3. Kept(c)'
  <2>1. First + size = (Len(c) - 1) * ChunkSize + End
    BY EndsAt
  <2> QED BY <1>1, <1>2, <2>1, SameChunks
<1>4. \A a \in Nat : At(c, a)' = At(c, a)
  BY <1>1 DEF At
<1> QED BY <1>1, <1>2, <1>3, <1>4, ValuesStay

\* A push into the begin chunk.
LEMMA PushFrontWithin ==
  ASSUME Typed, NEW c, Kept(c), NEW v \in Values, PushFront(v), begin_pos > 0
  PROVE  Kept(c)' /\ Listed(c)' = <<v>> \o Listed(c)
<1>1. /\ size' = size + 1 /\ end_pos' = end_pos /\ begin_pos' = begin_pos - 1
      /\ value' = [value EXCEPT ![begin_chunk][begin_pos - 1] = v]
      /\ UNCHANGED <<begin_chunk, end_chunk, spare_chunk, linkVars, live>>
  BY DEF PushFront, endVars
<1>2. PICK f \in Nat : f = begin_pos - 1 /\ f \in Slots /\ begin_pos = f + 1
  <2>1. begin_pos - 1 \in Nat /\ begin_pos - 1 \in Slots /\ begin_pos = (begin_pos - 1) + 1
    BY Constants DEF Typed, Slots
  <2> QED BY <2>1
<1>3. First' = f /\ First = f + 1 /\ End' = End
  BY <1>1, <1>2 DEF First, End
<1>4. Kept(c)'
  <2>1. First + size = (Len(c) - 1) * ChunkSize + End
    BY EndsAt
  <2>2. f + (size + 1) = First + size
    BY <1>3 DEF Typed
  <2>3. (First + size = (Len(c) - 1) * ChunkSize + End)'
    BY <1>1, <1>3, <2>1, <2>2
  <2> QED BY <1>1, <2>3, SameChunks
<1>5. begin_chunk = c[1] /\ begin_chunk \in Chunks
  BY EndsAt DEF Kept, Linked
<1>6. (f \div ChunkSize) + 1 = 1 /\ f % ChunkSize = f
  <2>1. f = (1 - 1) * ChunkSize + f
    BY Constants
  <2> QED BY <1>2, <2>1, Place
<1>7. ASSUME NEW j \in Nat, NEW a \in Nat, NEW b \in Nat,
             j < size, b = First + j, a = f + j + 1
      PROVE  At(c, a)' = At(c, b)
  <2>1. a = b /\ a # f /\ a < First + size
    BY <1>3, <1>7 DEF Typed
  <2>2. a < Len(c) * ChunkSize
    BY <2>1, EndsAt, ChunksOf, Constants
  <2>3. c[(a \div ChunkSize) + 1] # begin_chunk \/ a % ChunkSize # f
    <3> SUFFICES ASSUME c[(a \div ChunkSize) + 1] = begin_chunk, a % ChunkSize = f
                 PROVE  FALSE
      OBVIOUS
    <3>1. (a \div ChunkSize) + 1 \in 1..Len(c) /\ 1 \in 1..Len(c)
      BY <2>2, AtInside, EndsAt
    <3>2. (a \div ChunkSize) + 1 = (f \div ChunkSize) + 1
      BY <1>5, <1>6, <3>1 DEF Kept, Distinct
    <3>3. a \div ChunkSize = f \div ChunkSize
      BY <3>2, Constants, Division
    <3> QED BY <1>6, <2>1, <3>3, PlacesDiffer
  <2> QED BY <1>1, <1>2, <1>5, <2>1, <2>2, <2>3, AtInside DEF At, Typed
<1>8. ASSUME NEW a \in Nat, a = f PROVE At(c, a)' = v
  BY <1>1, <1>2, <1>5, <1>6, <1>8 DEF At, Typed
<1> QED BY <1>1, <1>3, <1>4, <1>7, <1>8, ValuePrepended

\* A push that links a chunk before the begin chunk.
LEMMA PushFrontBeyond ==
  ASSUME Typed, NEW c, Kept(c), NEW v \in Values, PushFront(v), begin_pos = 0
  PROVE  \E d : Kept(d)' /\ Listed(d)' = <<v>> \o Listed(c)
<1>1. PICK k \in Chunks :
        /\ Obtain(k)
        /\ value' = [Memory(k) EXCEPT ![k][ChunkSize - 1] = v]
        /\ LinkBefore(k)
        /\ begin_chunk' = k
  BY DEF PushFront
<1>2. /\ size' = size + 1 /\ end_chunk' = end_chunk /\ end_pos' = end_pos
      /\ begin_pos' = ChunkSize - 1
  BY DEF PushFront, endVars
<1>3. PICK f \in Nat : f = ChunkSize - 1 /\ f \in Slots /\ f + 1 = ChunkSize
  <2>1. ChunkSize - 1 \in Nat /\ ChunkSize - 1 \in Slots /\ (ChunkSize - 1) + 1 = ChunkSize
    BY Constants DEF Slots
  <2> QED BY <2>1
<1>4. First' = f /\ First = 0 /\ End' = End
  BY <1>2, <1>3 DEF First, End
<1>5. PICK d : d = <<k>> \o c
  OBVIOUS
<1>6. PICK n \in Nat \ {0} : n = Len(c)
  BY EndsAt
<1>7. ~In(c, k) /\ c \in Seq(Chunks) /\ Distinct(c)
  BY <1>1, Obtained DEF Kept
<1>8. /\ d \in Seq(Chunks) /\ d # <<>> /\ Len(d) = n + 1 /\ Distinct(d)
      /\ d[1] = k /\ \A i \in 1..n : d[i + 1] = c[i]
      /\ \A b : In(d, b) <=> (In(c, b) \/ b = k)
  BY <1>5, <1>6, <1>7, ConsDistinct
<1>9. \A i \in 1..n : c[i] \in Chunks /\ c[i] # k
  BY <1>6, <1>7, ElementOfSeq DEF In
<1>10. /\ next' = [next EXCEPT ![k] = begin_chunk]
       /\ prev' = [prev EXCEPT ![k] = NULL, ![begin_chunk] = k]
  BY <1>1 DEF LinkBefore
<1>11. begin_chunk = c[1] /\ begin_chunk \in Chunks /\ begin_chunk # k
  BY <1>6, <1>9, 1 \in 1..n DEF Kept, Linked
<1>12. Linked(d)'
  <2>1. begin_chunk' = d[1] /\ end_chunk' = d[Len(d)]
    BY <1>1, <1>2, <1>6, <1>8, n \in 1..n DEF Kept, Linked
  <2>2. next'[d[Len(d)]] = NULL
    BY <1>6, <1>8, <1>9, <1>10, n \in 1..n DEF Typed, Kept, Linked
  <2>3. prev'[d[1]] = NULL
    BY <1>8, <1>10, <1>11 DEF Typed
  <2>4. ASSUME NEW i \in 1..n PROVE next'[d[i]] = d[i + 1] /\ prev'[d[i + 1]] = d[i]
    <3>1. CASE i = 1
      BY <3>1, <1>8, <1>10, <1>11, 1 \in 1..n DEF Typed
    <3>2. CASE i # 1
      <4>1. PICK j \in 1..n : i = j + 1 /\ j \in 1..n - 1
        <5>1. i - 1 \in 1..n /\ i = (i - 1) + 1 /\ i - 1 \in 1..n - 1
          BY <3>2
        <5> QED BY <5>1
      <4>2. next[c[j]] = c[i] /\ prev[c[i]] = c[j] /\ c[i] # c[1]
        BY <4>1, <3>2, <1>6, <1>7, 1 \in 1..n DEF Kept, Linked, Distinct
      <4>3. d[i] = c[j] /\ d[i + 1] = c[i]
        BY <1>8, <4>1
      <4> QED BY <4>1, <4>2, <4>3, <1>9, <1>10, <1>11 DEF Typed
    <3> QED BY <3>1, <3>2
  <2>5. Len(d) - 1 = n
    BY <1>8
  <2> QED BY <2>1, <2>2, <2>3, <2>4, <2>5 DEF Linked
<1>13. Accounted(d)'
  BY <1>1, <1>8, Obtained
<1>14. (First + size = (Len(d) - 1) * ChunkSize + End)'
  <2>1. 0 + size = (n - 1) * ChunkSize + End
    BY <1>4, <1>6, EndsAt
  <2>2. n * ChunkSize = (n - 1) * ChunkSize + ChunkSize /\ (n - 1) * ChunkSize \in Nat
    BY ChunksOf
  <2>3. Len(d) - 1 = n /\ End \in Nat /\ size \in Nat
    BY <1>8, EndsAt, Constants DEF Slots, Typed
  <2>4. f + (size + 1) = n * ChunkSize + End
    BY <1>3, <2>1, <2>2, <2>3, Constants
  <2> QED BY <1>2, <1>4, <2>3, <2>4
<1>15. Kept(d)'
  BY <1>8, <1>12, <1>13, <1>14 DEF Kept
<1>16. ASSUME NEW j \in Nat, NEW a \in Nat, NEW b \in Nat,
              j < size, b = First + j, a = f + j + 1
       PROVE  At(d, a)' = At(c, b)
  <2>1. a = b + ChunkSize /\ b < First + size
    BY <1>3, <1>4, <1>16 DEF Typed
  <2>2. b < Len(c) * ChunkSize
    BY <2>1, EndsAt, ChunksOf, Constants
  <2>3. PICK i \in 1..n : i = (b \div ChunkSize) + 1
    BY <1>6, <2>2, AtInside
  <2>4. (a \div ChunkSize) + 1 = i + 1 /\ a % ChunkSize = b % ChunkSize
    BY <2>1, <2>3, PlaceNext
  <2>5. d[(a \div ChunkSize) + 1] = c[(b \div ChunkSize) + 1]
    BY <1>8, <2>3, <2>4
  <2>6. c[(b \div ChunkSize) + 1] \in Chunks /\ c[(b \div ChunkSize) + 1] # k
    BY <1>9, <2>3
  <2> QED BY <1>1, <2>4, <2>5, <2>6, Obtained DEF At
<1>17. ASSUME NEW a \in Nat, a = f PROVE At(d, a)' = v
  <2>1. f = (1 - 1) * ChunkSize + f
    BY Constants
  <2>2. (f \div ChunkSize) + 1 = 1 /\ f % ChunkSize = f
    BY <1>3, <2>1, Place
  <2>3. PICK m : m = Memory(k)
    OBVIOUS
  <2>4. m \in [Chunks -> [Slots -> Values \cup {NULL}]] /\ value' = [m EXCEPT ![k][f] = v]
    BY <1>1, <1>3, <2>3, Obtained
  <2>5. value'[k][f] = v
    BY <1>3, <2>4
  <2> QED BY <1>8, <1>17, <2>2, <2>5 DEF At
<1> QED BY <1>2, <1>4, <1>15, <1>16, <1>17, ValuePrepended

\* A chunk that was recycled left the chain and is spare; the spare one before is freed.
LEMMA Recycled ==
  ASSUME Typed, NEW c, Kept(c), NEW k, In(c, k), Recycle(k),
         NEW d, \A b : In(d, b) <=> In(c, b) /\ b # k
  PROVE  Accounted(d)'
<1>1. spare_chunk' = k /\ live' = live \ {spare_chunk}
  BY DEF Recycle
<1>2. \A x \in Chunks : x \in live <=> In(c, x) \/ x = spare_chunk
  BY DEF Kept, Accounted
<1>3. ~In(c, spare_chunk)
  BY DEF Kept, Accounted
<1>4. \A x \in Chunks : x \in live' <=> In(d, x) \/ x = spare_chunk'
  BY <1>1, <1>2, <1>3
<1>5. ~In(d, spare_chunk')
  BY <1>1
<1> QED BY <1>4, <1>5 DEF Accounted, In

\* A pop inside the begin chunk.
LEMMA PopWithin ==
  ASSUME Typed, NEW c, Kept(c), Pop, begin_pos + 1 < ChunkSize
  PROVE  /\ Kept(c)'
         /\ Listed(c)' = Tail(Listed(c)) /\ Listed(c) # <<>> /\ got' = Head(Listed(c))
<1>1. /\ size > 0 /\ size' = size - 1 /\ end_pos' = end_pos /\ begin_pos' = begin_pos + 1
      /\ value' = value /\ got' = value[begin_chunk][begin_pos] /\ begin_pos >= 0
      /\ UNCHANGED <<begin_chunk, end_chunk, spare_chunk, linkVars, live>>
  BY DEF Pop, endVars, Usable, NonEmpty, Typed
<1>2. PICK f \in Nat : f = begin_pos + 1
  BY <1>1 DEF Typed
<1>3. First' = f /\ f = First + 1 /\ First = begin_pos /\ First \in Nat /\ End' = End
  BY <1>1, <1>2 DEF First, End, Typed
<1>4. Kept(c)'
  <2>1. First + size = (Len(c) - 1) * ChunkSize + End
    BY EndsAt
  <2>2. f + (size - 1) = First + size
    BY <1>3 DEF Typed
  <2>3. (First + size = (Len(c) - 1) * ChunkSize + End)'
    BY <1>1, <1>3, <2>1, <2>2
  <2> QED BY <1>1, <2>3, SameChunks
<1>5. ASSUME NEW j \in Nat, NEW a \in Nat, NEW b \in Nat,
             j + 1 < size, b = First + j + 1, a = f + j
      PROVE  At(c, a)' = At(c, b)
  <2>1. a = b
    BY <1>3, <1>5
  <2> QED BY <1>1, <2>1 DEF At
<1>6. Listed(c)' = Tail(Listed(c))
  <2>1. \A j, a, b \in Nat : j + 1 < size /\ b = First + j + 1 /\ a = f + j
                             => At(c, a)' = At(c, b)
    BY <1>5
  <2>2. size > 0 /\ size' = size - 1 /\ f \in Nat /\ First' = f
    BY <1>1, <1>3
  <2> QED BY ONLY Typed, Kept(c), <2>1, <2>2, FirstTaken
<1>7. Listed(c) # <<>> /\ Head(Listed(c)) = value[begin_chunk][First]
  BY <1>1, FirstListed
<1> QED BY <1>1, <1>3, <1>4, <1>6, <1>7

\* A pop that leaves the begin chunk behind.
LEMMA PopBeyond ==
  ASSUME Typed, NEW c, Kept(c), Pop, begin_pos + 1 = ChunkSize
  PROVE  \E d : /\ Kept(d)'
                /\ Listed(d)' = Tail(Listed(c)) /\ Listed(c) # <<>>
                /\ got' = Head(Listed(c))
<1>1. /\ size > 0 /\ size' = size - 1 /\ end_pos' = end_pos /\ begin_pos' = 0
      /\ end_chunk' = end_chunk /\ begin_chunk' = next[begin_chunk]
      /\ prev' = [prev EXCEPT ![next[begin_chunk]] = NULL] /\ next' = next
      /\ Recycle(begin_chunk)
      /\ value' = value /\ got' = value[begin_chunk][begin_pos]
  BY Constants DEF Pop, endVars, NonEmpty, Typed
<1>2. First' = 0 /\ First = begin_pos /\ First \in Nat /\ First + 1 = ChunkSize /\ End' = End
  BY <1>1, Constants DEF First, End, Typed
<1>3. PICK n \in Nat \ {0} : n = Len(c)
  BY EndsAt
<1>4. n * ChunkSize = (n - 1) * ChunkSize + ChunkSize /\ (n - 1) * ChunkSize \in Nat
  BY ChunksOf
<1>5. First + size = (n - 1) * ChunkSize + End /\ End \in Nat /\ End < ChunkSize
  BY <1>3, EndsAt, Constants DEF Slots
<1>6. n # 1
  <2> SUFFICES ASSUME n = 1 PROVE FALSE
    OBVIOUS
  <2>1. (n - 1) * ChunkSize = 0
    BY Constants
  <2> QED BY <1>1, <1>2, <1>5, <2>1 DEF Typed
<1>7. PICK m \in Nat \ {0} : n = m + 1 /\ m = n - 1
  <2>1. n - 1 \in Nat \ {0} /\ n = (n - 1) + 1
    BY <1>6
  <2> QED BY <2>1
<1>8. PICK d : d = Tail(c)
  OBVIOUS
<1>9. /\ d \in Seq(Chunks) /\ Len(d) = m /\ Distinct(d)
      /\ \A i \in 1..m : d[i] = c[i + 1]
      /\ \A b : In(d, b) <=> (In(c, b) /\ b # c[1])
      /\ In(c, c[1])
  <2>1. c \in Seq(Chunks) /\ c # <<>> /\ Distinct(c)
    BY DEF Kept
  <2>2. /\ d \in Seq(Chunks) /\ Len(d) = Len(c) - 1 /\ Distinct(d)
        /\ \A i \in 1..Len(c) - 1 : d[i] = c[i + 1]
        /\ \A b : In(d, b) <=> (In(c, b) /\ b # c[1])
        /\ In(c, c[1])
    BY ONLY <1>8, <2>1, TailDistinct
  <2> QED BY <1>3, <1>7, <2>2
<1>10. d # <<>>
  BY <1>7, <1>9, EmptySeq
<1>11. /\ begin_chunk = c[1] /\ end_chunk = c[n]
       /\ \A i \in 1..m : next[c[i]] = c[i + 1] /\ prev[c[i + 1]] = c[i]
       /\ next[c[n]] = NULL
  BY <1>3, <1>7 DEF Kept, Linked
<1>12. next[begin_chunk] = d[1]
  BY <1>9, <1>11, 1 \in 1..m
<1>13. \A i \in 1..m : d[i] \in Chunks
  BY <1>9, ElementOfSeq
<1>14. Linked(d)'
  <2>1. begin_chunk' = d[1] /\ end_chunk' = d[m]
    BY <1>1, <1>7, <1>9, <1>11, <1>12, m \in 1..m
  <2>2. next'[d[m]] = NULL
    BY <1>1, <1>7, <1>9, <1>11, m \in 1..m
  <2>3. prev'[d[1]] = NULL
    BY <1>1, <1>12, <1>13, 1 \in 1..m DEF Typed
  <2>4. ASSUME NEW i \in 1..m - 1 PROVE next'[d[i]] = d[i + 1] /\ prev'[d[i + 1]] = d[i]
    <3>1. i \in 1..m /\ i + 1 \in 1..m /\ 1 \in 1..m /\ i + 1 # 1
      OBVIOUS
    <3>2. d[i] = c[i + 1] /\ d[i + 1] = c[(i + 1) + 1]
      BY <1>9, <3>1
    <3>3. next[d[i]] = d[i + 1] /\ prev[d[i + 1]] = d[i]
      BY <1>11, <3>1, <3>2
    <3>4. d[i + 1] # d[1] /\ d[i + 1] \in Chunks
      BY <1>9, <1>13, <3>1 DEF Distinct
    <3> QED BY <1>1, <1>12, <3>3, <3>4 DEF Typed
  <2> QED BY <1>9, <2>1, <2>2, <2>3, <2>4 DEF Linked
<1>15. Accounted(d)'
  BY <1>1, <1>9, <1>11, Recycled
<1>16. (First + size = (Len(d) - 1) * ChunkSize + End)'
  <2>1. m * ChunkSize = (m - 1) * ChunkSize + ChunkSize /\ (m - 1) * ChunkSize \in Nat
    BY ChunksOf
  <2>2. First + size = m * ChunkSize + End
    BY <1>5, <1>7
  <2>3. 0 + (size - 1) = (m - 1) * ChunkSize + End
    BY <1>2, <1>5, <2>1, <2>2, Constants DEF Typed
  <2> QED BY <1>1, <1>2, <1>9, <2>3
<1>17. Kept(d)'
  BY <1>9, <1>10, <1>14, <1>15, <1>16 DEF Kept
<1>18. ASSUME NEW j \in Nat, NEW a \in Nat, NEW b \in Nat,
              j + 1 < size, b = First + j + 1, a = 0 + j
       PROVE  At(d, a)' = At(c, b)
  <2>1. b = a + ChunkSize /\ b < First + size
    BY <1>2, <1>18, Constants DEF Typed
  <2>2. b < Len(c) * ChunkSize
    BY <2>1, EndsAt, ChunksOf, Constants
  <2>3. (b \div ChunkSize) + 1 \in 1..n
    BY <1>3, <2>2, AtInside
  <2>4. PICK i \in Nat : i = a \div ChunkSize
    BY Constants, Division
  <2>5. b \div ChunkSize = i + 1 /\ b % ChunkSize = a % ChunkSize
    BY <2>1, <2>4, PlaceNext
  <2>6. i + 1 \in 1..m
    BY <1>7, <2>3, <2>4, <2>5
  <2>7. d[(a \div ChunkSize) + 1] = c[(b \div ChunkSize) + 1]
    BY <1>9, <2>4, <2>5, <2>6
  <2> QED BY <1>1, <2>5, <2>7 DEF At
<1>19. Listed(d)' = Tail(Listed(c))
  BY <1>1, <1>2, <1>18, FirstTaken
<1>20. Listed(c) # <<>> /\ Head(Listed(c)) = value[begin_chunk][First]
  BY <1>1, FirstListed
<1> QED BY <1>1, <1>2, <1>17, <1>19, <1>20

\* The slot before the end position is the last one in use.
LEMMA LastSlotIs ==
  ASSUME Typed, NEW c, Kept(c), end_pos < ChunkSize, size > 0, NEW a \in Nat,
         a + 1 = First + size
  PROVE  /\ LastSlot = <<c[(a \div ChunkSize) + 1], a % ChunkSize>>
         /\ Content(LastSlot) = At(c, a)
         /\ end_pos = 0 => Len(c) # 1
<1>1. PICK n \in Nat \ {0} : n = Len(c)
  BY EndsAt
<1>2. End = end_pos /\ end_pos \in Nat /\ First \in Nat /\ size \in Nat
  BY Constants DEF End, First, Typed
<1>3. First + size = (n - 1) * ChunkSize + end_pos
  BY <1>1, <1>2, EndsAt
<1>4. n * ChunkSize = (n - 1) * ChunkSize + ChunkSize /\ (n - 1) * ChunkSize \in Nat
  BY ChunksOf
<1>5. end_pos = 0 => n # 1
  <2> SUFFICES ASSUME end_pos = 0, n = 1 PROVE FALSE
    OBVIOUS
  <2>1. (n - 1) * ChunkSize = 0
    BY Constants
  <2> QED BY <1>2, <1>3, <2>1
<1>6. /\ end_chunk = c[n]
      /\ \A i \in 1..n - 1 : prev[c[i + 1]] = c[i]
  BY <1>1 DEF Kept, Linked
<1>7. LastSlot = <<c[(a \div ChunkSize) + 1], a % ChunkSize>>
  <2>1. CASE end_pos > 0
    <3>1. PICK q \in Slots : q = end_pos - 1
      <4>1. end_pos - 1 \in Slots
        BY <1>2, <2>1, Constants DEF Slots
      <4> QED BY <4>1
    <3>2. a = (n - 1) * ChunkSize + q
      BY <1>2, <1>3, <1>4, <3>1
    <3>3. (a \div ChunkSize) + 1 = n /\ a % ChunkSize = q
      BY <3>2, Place
    <3> QED BY <1>6, <2>1, <3>1, <3>3 DEF LastSlot
  <2>2. CASE end_pos = 0
    <3>1. PICK m \in Nat \ {0} : n = m + 1 /\ m = n - 1
      <4>1. n - 1 \in Nat \ {0} /\ n = (n - 1) + 1
        BY <1>5, <2>2
      <4> QED BY <4>1
    <3>2. m * ChunkSize = (m - 1) * ChunkSize + ChunkSize /\ (m - 1) * ChunkSize \in Nat
      BY ChunksOf
    <3>3. PICK q \in Slots : q = ChunkSize - 1
      BY Constants DEF Slots
    <3>4. a = (m - 1) * ChunkSize + q
      BY <1>2, <1>3, <2>2, <3>1, <3>2, <3>3, Constants
    <3>5. (a \div ChunkSize) + 1 = m /\ a % ChunkSize = q
      BY <3>4, Place
    <3>6. prev[end_chunk] = c[m]
      BY <1>6, <3>1, m \in 1..n - 1
    <3> QED BY <2>2, <3>3, <3>5, <3>6 DEF LastSlot
  <2> QED BY <1>2, <2>1, <2>2
<1>8. a < Len(c) * ChunkSize
  BY EndsAt, ChunksOf, Constants
<1>9. c[(a \div ChunkSize) + 1] # NULL
  BY <1>8, AtInside, Constants
<1> QED BY <1>1, <1>5, <1>7, <1>9 DEF Content, At

\* A pop_back inside the end chunk.
LEMMA PopBackWithin ==
  ASSUME Typed, NEW c, Kept(c), PopBack, end_pos > 0
  PROVE  /\ Kept(c)'
         /\ Listed(c)' = SubSeq(Listed(c), 1, Len(Listed(c)) - 1) /\ Listed(c) # <<>>
         /\ got' = Listed(c)[Len(Listed(c))]
<1>1. /\ size > 0 /\ size' = size - 1 /\ end_pos' = end_pos - 1 /\ begin_pos' = begin_pos
      /\ value' = value /\ got' = Content(LastSlot) /\ end_pos < ChunkSize
      /\ UNCHANGED <<begin_chunk, end_chunk, spare_chunk, linkVars, live>>
  BY DEF PopBack, beginVars, Usable, NonEmpty, Typed
<1>2. First' = First /\ First \in Nat /\ End' = End - 1 /\ End \in Nat /\ size \in Nat
  BY <1>1, Constants DEF First, End, Typed
<1>3. Kept(c)'
  <2>1. PICK p \in Nat : p = (Len(c) - 1) * ChunkSize
    BY EndsAt, ChunksOf
  <2>2. First + size = p + End
    BY <2>1, EndsAt
  <2>3. First + (size - 1) = p + (End - 1)
    BY <1>2, <2>2
  <2>4. (First + size = (Len(c) - 1) * ChunkSize + End)'
    BY <1>1, <1>2, <2>1, <2>3
  <2> QED BY <1>1, <2>4, SameChunks
<1>4. \A a \in Nat : At(c, a)' = At(c, a)
  BY <1>1 DEF At
<1>5. PICK a \in Nat : a + 1 = First + size
  <2>1. First + size - 1 \in Nat /\ (First + size - 1) + 1 = First + size
    BY <1>1, <1>2
  <2> QED BY <2>1
<1>6. got' = At(c, a)
  BY <1>1, <1>5, LastSlotIs
<1> QED BY <1>1, <1>2, <1>3, <1>4, <1>5, <1>6, LastTaken

\* A pop_back that gives up an end chunk without values.
LEMMA PopBackBeyond ==
  ASSUME Typed, NEW c, Kept(c), PopBack, end_pos = 0
  PROVE  \E d : /\ Kept(d)'
                /\ Listed(d)' = SubSeq(Listed(c), 1, Len(Listed(c)) - 1) /\ Listed(c) # <<>>
                /\ got' = Listed(c)[Len(Listed(c))]
<1>1. /\ size > 0 /\ size' = size - 1 /\ end_pos' = ChunkSize - 1 /\ begin_pos' = begin_pos
      /\ begin_chunk' = begin_chunk /\ end_chunk' = prev[end_chunk]
      /\ next' = [next EXCEPT ![prev[end_chunk]] = NULL] /\ prev' = prev
      /\ Recycle(end_chunk)
      /\ value' = value /\ got' = Content(LastSlot) /\ end_pos < ChunkSize
  BY DEF PopBack, beginVars, Usable, NonEmpty, Typed, CutAfter
<1>2. /\ First' = First /\ First \in Nat /\ End = 0 /\ size \in Nat
      /\ End' = ChunkSize - 1
  BY <1>1, Constants DEF First, End, Typed
<1>3. PICK n \in Nat \ {0} : n = Len(c)
  BY EndsAt
<1>4. PICK a \in Nat : a + 1 = First + size
  <2>1. First + size - 1 \in Nat /\ (First + size - 1) + 1 = First + size
    BY <1>1, <1>2
  <2> QED BY <2>1
<1>5. got' = At(c, a) /\ n # 1
  BY <1>1, <1>3, <1>4, LastSlotIs
<1>6. PICK m \in Nat \ {0} : n = m + 1 /\ m = n - 1
  <2>1. n - 1 \in Nat \ {0} /\ n = (n - 1) + 1
    BY <1>5
  <2> QED BY <2>1
<1>7. PICK d : d = SubSeq(c, 1, Len(c) - 1)
  OBVIOUS
<1>8. /\ d \in Seq(Chunks) /\ Len(d) = m /\ Distinct(d)
      /\ \A i \in 1..m : d[i] = c[i]
      /\ \A b : In(d, b) <=> (In(c, b) /\ b # c[n])
      /\ In(c, c[n])
  <2>1. c \in Seq(Chunks) /\ c # <<>> /\ Distinct(c)
    BY DEF Kept
  <2>2. /\ d \in Seq(Chunks) /\ Len(d) = Len(c) - 1 /\ Distinct(d)
        /\ \A i \in 1..Len(c) - 1 : d[i] = c[i]
        /\ \A b : In(d, b) <=> (In(c, b) /\ b # c[Len(c)])
        /\ In(c, c[Len(c)])
    BY ONLY <1>7, <2>1, FrontDistinct
  <2> QED BY <1>3, <1>6, <2>2
<1>9. d # <<>>
  BY <1>6, <1>8, EmptySeq
<1>10. /\ begin_chunk = c[1] /\ end_chunk = c[n]
       /\ \A i \in 1..m : next[c[i]] = c[i + 1] /\ prev[c[i + 1]] = c[i]
       /\ prev[c[1]] = NULL
  BY <1>3, <1>6 DEF Kept, Linked
<1>11. prev[end_chunk] = d[m]
  BY <1>6, <1>8, <1>10, m \in 1..m
<1>12. \A i \in 1..m : d[i] \in Chunks
  BY <1>8, ElementOfSeq
<1>13. Linked(d)'
  <2>1. begin_chunk' = d[1] /\ end_chunk' = d[m]
    BY <1>1, <1>8, <1>10, <1>11, 1 \in 1..m
  <2>2. next'[d[m]] = NULL
    BY <1>1, <1>11, <1>12, m \in 1..m DEF Typed
  <2>3. prev'[d[1]] = NULL
    BY <1>1, <1>8, <1>10, 1 \in 1..m
  <2>4. ASSUME NEW i \in 1..m - 1 PROVE next'[d[i]] = d[i + 1] /\ prev'[d[i + 1]] = d[i]
    <3>1. i \in 1..m /\ i + 1 \in 1..m /\ m \in 1..m /\ i # m
      OBVIOUS
    <3>2. next[d[i]] = d[i + 1] /\ prev[d[i + 1]] = d[i]
      BY <1>8, <1>10, <3>1
    <3>3. d[i] # d[m] /\ d[i] \in Chunks
      BY <1>8, <1>12, <3>1 DEF Distinct
    <3> QED BY <1>1, <1>11, <3>2, <3>3 DEF Typed
  <2> QED BY <1>8, <2>1, <2>2, <2>3, <2>4 DEF Linked
<1>14. Accounted(d)'
  BY <1>1, <1>8, <1>10, Recycled
<1>15. (First + size = (Len(d) - 1) * ChunkSize + End)'
  <2>1. m * ChunkSize = (m - 1) * ChunkSize + ChunkSize /\ (m - 1) * ChunkSize \in Nat
    BY ChunksOf
  <2>2. First + size = m * ChunkSize
    <3>1. First + size = (n - 1) * ChunkSize + End
      BY <1>3, EndsAt
    <3> QED BY <1>2, <1>6, <2>1, <3>1, Constants
  <2>3. First + (size - 1) = (m - 1) * ChunkSize + (ChunkSize - 1)
    BY <1>2, <2>1, <2>2, Constants
  <2> QED BY <1>1, <1>2, <1>8, <2>3
<1>16. Kept(d)'
  BY <1>8, <1>9, <1>13, <1>14, <1>15 DEF Kept
<1>17. ASSUME NEW b \in Nat, b + 1 < First + size PROVE At(d, b)' = At(c, b)
  <2>1. m * ChunkSize \in Nat /\ First + size = m * ChunkSize
    <3>1. First + size = (n - 1) * ChunkSize + End
      BY <1>3, EndsAt
    <3>2. m * ChunkSize = (m - 1) * ChunkSize + ChunkSize /\ (m - 1) * ChunkSize \in Nat
      BY ChunksOf
    <3> QED BY <1>2, <1>6, <3>1, <3>2, Constants
  <2>2. (b \div ChunkSize) + 1 \in 1..m
    BY <1>2, <1>17, <2>1, Within
  <2>3. d[(b \div ChunkSize) + 1] = c[(b \div ChunkSize) + 1]
    BY <1>8, <2>2
  <2> QED BY <1>1, <2>3 DEF At
<1> QED BY <1>1, <1>2, <1>4, <1>5, <1>16, <1>17, LastTaken

-----------------------------------------------------------------------------
(* The invariant is inductive.                                             *)

\* A slot that was written.
LEMMA Written ==
  ASSUME NEW m \in [Chunks -> [Slots -> Values \cup {NULL}]],
         NEW k \in Chunks, NEW q, NEW v \in Values
  PROVE  [m EXCEPT ![k][q] = v] \in [Chunks -> [Slots -> Values \cup {NULL}]]
<1>1. m[k] \in [Slots -> Values \cup {NULL}]
  OBVIOUS
<1>2. [m[k] EXCEPT ![q] = v] \in [Slots -> Values \cup {NULL}]
  BY <1>1
<1> QED BY <1>2

\* The types are kept by every step.
LEMMA TypedStep ==
  ASSUME Typed, NEW c, Kept(c), [Next]_vars
  PROVE  Typed'
<1> USE Constants DEF Typed
<1>1. end_chunk \in Chunks /\ begin_chunk \in Chunks
  BY EndsAt DEF Kept, Linked
<1>2. ASSUME NEW v \in Values, Push(v) PROVE Typed'
  <2>1. CASE end_pos + 1 < ChunkSize
    <3>1. /\ size' = size + 1 /\ begin_pos' = begin_pos /\ end_pos' = end_pos + 1
          /\ UNCHANGED <<spare_chunk, next, prev, live>>
          /\ value' = [value EXCEPT ![end_chunk][end_pos] = v]
      BY <1>2, <2>1 DEF Push, beginVars, linkVars
    <3>2. value' \in [Chunks -> [Slots -> Values \cup {NULL}]]
      BY <1>1, <3>1, Written
    <3> QED BY <2>1, <3>1, <3>2
  <2>2. CASE end_pos + 1 = ChunkSize
    <3>1. /\ size' = size + 1 /\ begin_pos' = begin_pos /\ end_pos' = 0
      BY <1>2, <2>2 DEF Push, beginVars
    <3>2. PICK k \in Chunks :
            /\ Obtain(k)
            /\ value' = [Memory(k) EXCEPT ![end_chunk][end_pos] = v]
            /\ LinkAfter(k)
      BY <1>2, <2>2 DEF Push
    <3>3. Memory(k) \in [Chunks -> [Slots -> Values \cup {NULL}]]
      BY <3>2, Obtained
    <3>4. PICK m : m = Memory(k)
      OBVIOUS
    <3>5. value' \in [Chunks -> [Slots -> Values \cup {NULL}]]
      <4>1. m \in [Chunks -> [Slots -> Values \cup {NULL}]]
            /\ value' = [m EXCEPT ![end_chunk][end_pos] = v]
        BY <3>2, <3>3, <3>4
      <4> QED BY <1>1, <4>1, Written
    <3>6. spare_chunk' = NULL /\ live' \subseteq Chunks
      BY <3>2 DEF Obtain
    <3>7. next' \in [Chunks -> Chunks \cup {NULL}] /\ prev' \in [Chunks -> Chunks \cup {NULL}]
      BY <1>1, <3>2 DEF LinkAfter
    <3> QED BY <3>1, <3>5, <3>6, <3>7
  <2> QED BY <1>2, <2>1, <2>2 DEF Push
<1>3. ASSUME NEW v \in Values, PushFails(v) PROVE Typed'
  <2>1. /\ size' = size /\ begin_pos' = begin_pos /\ begin_pos >= 0 /\ end_pos' = ChunkSize
        /\ UNCHANGED <<spare_chunk, next, prev, live>>
        /\ value' = [value EXCEPT ![end_chunk][end_pos] = v]
    BY <1>3 DEF PushFails, beginVars, linkVars, Usable
  <2>2. value' \in [Chunks -> [Slots -> Values \cup {NULL}]]
    BY <1>1, <2>1, Written
  <2> QED BY <2>1, <2>2
<1>4. ASSUME NEW v \in Values, PushFront(v) PROVE Typed'
  <2>1. CASE begin_pos > 0
    <3>1. /\ size' = size + 1 /\ end_pos' = end_pos /\ begin_pos' = begin_pos - 1
          /\ UNCHANGED <<spare_chunk, next, prev, live>>
          /\ value' = [value EXCEPT ![begin_chunk][begin_pos - 1] = v]
      BY <1>4, <2>1 DEF PushFront, endVars, linkVars
    <3>2. value' \in [Chunks -> [Slots -> Values \cup {NULL}]]
      BY <1>1, <3>1, Written
    <3> QED BY <2>1, <3>1, <3>2
  <2>2. CASE begin_pos = 0
    <3>1. /\ size' = size + 1 /\ end_pos' = end_pos /\ begin_pos' = ChunkSize - 1
      BY <1>4, <2>2 DEF PushFront, endVars
    <3>2. PICK k \in Chunks :
            /\ Obtain(k)
            /\ value' = [Memory(k) EXCEPT ![k][ChunkSize - 1] = v]
            /\ LinkBefore(k)
      BY <1>4, <2>2 DEF PushFront
    <3>3. Memory(k) \in [Chunks -> [Slots -> Values \cup {NULL}]]
      BY <3>2, Obtained
    <3>4. PICK m : m = Memory(k)
      OBVIOUS
    <3>5. value' \in [Chunks -> [Slots -> Values \cup {NULL}]]
      <4>1. m \in [Chunks -> [Slots -> Values \cup {NULL}]]
            /\ value' = [m EXCEPT ![k][ChunkSize - 1] = v]
        BY <3>2, <3>3, <3>4
      <4> QED BY <1>1, <4>1, Written
    <3>6. spare_chunk' = NULL /\ live' \subseteq Chunks
      BY <3>2 DEF Obtain
    <3>7. next' \in [Chunks -> Chunks \cup {NULL}] /\ prev' \in [Chunks -> Chunks \cup {NULL}]
      BY <1>1, <3>2 DEF LinkBefore
    <3> QED BY <3>1, <3>5, <3>6, <3>7
  <2> QED BY <1>4, <2>1, <2>2 DEF PushFront
<1>5. CASE PushFrontFails
  BY <1>5 DEF PushFrontFails, endVars, linkVars, Usable
<1>6. CASE Pop
  <2>1. CASE begin_pos + 1 < ChunkSize
    BY <1>6, <2>1 DEF Pop, endVars, linkVars, Usable, NonEmpty
  <2>2. CASE begin_pos + 1 = ChunkSize
    BY <1>1, <1>6, <2>2 DEF Pop, endVars, Usable, NonEmpty, Recycle
  <2> QED BY <1>6, <2>1, <2>2 DEF Pop
<1>7. CASE PopBack
  <2>1. CASE end_pos > 0
    BY <1>7, <2>1 DEF PopBack, beginVars, linkVars, Usable, NonEmpty
  <2>2. CASE end_pos = 0
    BY <1>1, <1>7, <2>2 DEF PopBack, beginVars, Usable, NonEmpty, Recycle, CutAfter
  <2> QED BY <1>7, <2>1, <2>2 DEF PopBack
<1>8. CASE UNCHANGED vars
  BY <1>8 DEF vars, beginVars, endVars, linkVars
<1> QED BY <1>2, <1>3, <1>4, <1>5, <1>6, <1>7, <1>8 DEF Next, Rest

\* Every step leaves some chain of chunks.
LEMMA KeptStep ==
  ASSUME Typed, NEW c, Kept(c), [Next]_vars
  PROVE  \E d : Kept(d)'
<1>1. ASSUME NEW v \in Values, Push(v) PROVE \E d : Kept(d)'
  BY <1>1, PushWithin, PushBeyond DEF Push
<1>2. ASSUME NEW v \in Values, PushFails(v) PROVE \E d : Kept(d)'
  BY <1>2, PushFailsStep
<1>3. ASSUME NEW v \in Values, PushFront(v) PROVE \E d : Kept(d)'
  BY <1>3, PushFrontWithin, PushFrontBeyond DEF PushFront
<1>4. CASE PushFrontFails
  BY <1>4, PushFrontFailsStep
<1>5. CASE Pop
  BY <1>5, PopWithin, PopBeyond DEF Pop
<1>6. CASE PopBack
  BY <1>6, PopBackWithin, PopBackBeyond DEF PopBack
<1>7. CASE UNCHANGED vars
  BY <1>7, QuietStep
<1> QED BY <1>1, <1>2, <1>3, <1>4, <1>5, <1>6, <1>7 DEF Next, Rest

\* A new queue has one chunk.
LEMMA InitKept ==
  ASSUME Init
  PROVE  Typed /\ \E c : Kept(c)
<1>1. PICK k \in Chunks : begin_chunk = k /\ end_chunk = k /\ live = {k}
  BY DEF Init
<1>2. /\ size = 0 /\ begin_pos = 0 /\ end_pos = 0 /\ spare_chunk = NULL
      /\ next = [x \in Chunks |-> NULL] /\ prev = [x \in Chunks |-> NULL]
      /\ value = [x \in Chunks |-> Zeroed]
  BY DEF Init
<1>3. Typed
  BY <1>1, <1>2, Constants DEF Typed, Zeroed
<1>4. PICK c : c = Append(<<>>, k)
  OBVIOUS
<1>5. /\ c \in Seq(Chunks) /\ c # <<>> /\ Len(c) = 1 /\ Distinct(c)
      /\ \A b : In(c, b) <=> b = k
  <2>1. <<>> \in Seq(Chunks) /\ Distinct(<<>>) /\ Len(<<>>) = 0 /\ \A b : ~In(<<>>, b)
    BY EmptyDistinct
  <2>2. /\ Append(<<>>, k) \in Seq(Chunks) /\ Append(<<>>, k) # <<>>
        /\ Len(Append(<<>>, k)) = Len(<<>>) + 1
        /\ Distinct(Append(<<>>, k))
        /\ \A b : In(Append(<<>>, k), b) <=> (In(<<>>, b) \/ b = k)
    BY ONLY <2>1, AppendDistinct, k \in Chunks
  <2> QED BY <1>4, <2>1, <2>2
<1>6. c[1] = k
  BY <1>5, 1 \in 1..Len(c) DEF In
<1>7. Linked(c)
  BY <1>1, <1>2, <1>5, <1>6 DEF Linked
<1>8. Accounted(c)
  BY <1>1, <1>2, <1>5, Constants DEF Accounted
<1>9. First + size = (Len(c) - 1) * ChunkSize + End
  <2>1. (1 - 1) * ChunkSize = 0 /\ First = 0 /\ End = 0
    BY <1>2, Constants DEF First, End
  <2> QED BY <1>2, <1>5, <2>1
<1> QED BY <1>3, <1>5, <1>7, <1>8, <1>9 DEF Kept

\* Whatever is pushed and popped at both ends, some sequence of chunks is linked from
\* begin_chunk to end_chunk and its length fits the positions and the size, for any number
\* and size of chunks (queue.h:105-188).
THEOREM DequeInductive == Spec => []DequeInv
<1>1. Init => DequeInv
  BY InitKept DEF DequeInv
<1>2. DequeInv /\ [Next]_vars => DequeInv'
  <2> SUFFICES ASSUME DequeInv, [Next]_vars PROVE DequeInv'
    OBVIOUS
  <2>1. PICK c : Kept(c)
    BY DEF DequeInv
  <2>2. Typed'
    BY <2>1, TypedStep DEF DequeInv
  <2>3. \E d : Kept(d)'
    BY <2>1, KeptStep DEF DequeInv
  <2> QED BY <2>2, <2>3 DEF DequeInv
<1> QED BY <1>1, <1>2, PTL DEF Spec

-----------------------------------------------------------------------------
(* The function Chunk.                                                     *)

\* The chunks reached from b by the links nx: Chunk, as a constant operator.
Walk(nx, b) ==
  CHOOSE g : g = [n \in 0..Cardinality(Chunks) |->
                    IF n = 0 THEN b
                    ELSE IF g[n - 1] = NULL THEN NULL ELSE nx[g[n - 1]]]

\* Chunk as a function of the links.
LEMMA ChunkWalks == Chunk = Walk(next, begin_chunk)
  BY DEF Chunk, Walk

\* The chunks c, then NULL.
Path(c) == [i \in 0..Cardinality(Chunks) |-> IF i < Len(c) THEN c[i + 1] ELSE NULL]

\* Walk follows the links, then stays at NULL: the definition of Chunk has one solution, and
\* a chain never has more chunks than there are.
LEMMA WalkIs ==
  ASSUME NEW nx \in [Chunks -> Chunks \cup {NULL}],
         NEW c \in Seq(Chunks), c # <<>>, Distinct(c),
         \A i \in 1..Len(c) - 1 : nx[c[i]] = c[i + 1], nx[c[Len(c)]] = NULL
  PROVE  Len(c) <= Cardinality(Chunks) /\ Walk(nx, c[1]) = Path(c)
<1> DEFINE m == Cardinality(Chunks)
           b == c[1]
           Body(g) == [i \in 0..m |->
                         IF i = 0 THEN b
                         ELSE IF g[i - 1] = NULL THEN NULL ELSE nx[g[i - 1]]]
           w == [i \in 0..m |-> IF i < Len(c) THEN c[i + 1] ELSE NULL]
<1>1. m \in Nat
  BY DequeAssumption, FS_CardinalityType
<1>2. PICK n \in Nat \ {0} : n = Len(c)
  BY EmptySeq
<1>3. /\ \A i \in 1..n : c[i] \in Chunks /\ c[i] # NULL
      /\ \A i, j \in 1..n : c[i] = c[j] => i = j
      /\ \A i \in 1..n - 1 : nx[c[i]] = c[i + 1]
      /\ nx[c[n]] = NULL
  BY <1>2, ElementOfSeq, Constants DEF Distinct
<1>4. n <= m
  <2>1. PICK f : f = [i \in 1..n |-> c[i]]
    OBVIOUS
  <2>2. f \in [1..n -> Chunks] /\ \A i, j \in 1..n : f[i] = f[j] => i = j
    BY <1>3, <2>1
  <2>3. f \in Injection(1..n, Chunks)
    BY <2>2 DEF Injection, IsInjective
  <2>4. Cardinality(1..n) <= m
    BY <2>3, FS_Injection, DequeAssumption
  <2>5. Cardinality(1..n) = n
    BY FS_Interval
  <2> QED BY <2>4, <2>5
<1> HIDE DEF m
<1>5. w = Body(w)
  <2>1. ASSUME NEW i \in 0..m PROVE w[i] = Body(w)[i]
    <3>1. CASE i = 0
      BY <1>2, <3>1
    <3>2. CASE i # 0
      <4>1. PICK j \in 0..m : i = j + 1
        <5>1. i - 1 \in 0..m /\ i = (i - 1) + 1
          BY <1>1, <3>2
        <5> QED BY <5>1
      <4>2. Body(w)[i] = IF w[j] = NULL THEN NULL ELSE nx[w[j]]
        BY <3>2, <4>1
      <4>3. CASE j + 1 < n
        <5>1. j + 1 \in 1..n - 1 /\ j + 1 \in 1..n /\ j < n
          BY <1>1, <4>1, <4>3
        <5>2. w[j] = c[j + 1] /\ w[i] = c[(j + 1) + 1]
          BY <1>2, <4>1, <4>3, <5>1
        <5> QED BY <1>3, <4>2, <5>1, <5>2
      <4>4. CASE j + 1 = n
        <5>1. w[j] = c[n] /\ w[i] = NULL /\ n \in 1..n
          BY <1>1, <1>2, <4>1, <4>4
        <5> QED BY <1>3, <4>2, <5>1
      <4>5. CASE j + 1 > n
        BY <1>1, <1>2, <4>1, <4>2, <4>5
      <4> QED BY <4>3, <4>4, <4>5, <1>1, <4>1
    <3> QED BY <3>1, <3>2
  <2>2. w = [i \in 0..m |-> w[i]]
    OBVIOUS
  <2> HIDE DEF w
  <2> QED BY <2>1, <2>2
<1>6. ASSUME NEW g, g = Body(g) PROVE g = w
  <2> DEFINE Off == {i \in 0..m : g[i] # w[i]}
  <2>1. ASSUME Off # {} PROVE FALSE
    <3>1. Off \in SUBSET Nat
      OBVIOUS
    <3>2. PICK i \in Off : \A y \in Off : i <= y
      BY <2>1, <3>1, Least
    <3>3. CASE i = 0
      BY <3>3, <1>5, <1>6
    <3>4. CASE i # 0
      <4> DEFINE j == i - 1
      <4>1. j \in 0..m /\ ~(i <= j)
        BY <3>4, <1>1
      <4>2. g[j] = w[j]
        BY <4>1, <3>2
      <4>3. g[i] = IF g[j] = NULL THEN NULL ELSE nx[g[j]]
        BY <3>4, <1>6
      <4>4. w[i] = IF w[j] = NULL THEN NULL ELSE nx[w[j]]
        BY <3>4, <1>5
      <4> QED BY <4>2, <4>3, <4>4
    <3> QED BY <3>3, <3>4
  <2>2. \A i \in 0..m : g[i] = w[i]
    BY <2>1
  <2>3. g = [i \in 0..m |-> g[i]]
    BY <1>6
  <2>4. w = [i \in 0..m |-> w[i]]
    OBVIOUS
  <2> HIDE DEF w, Body
  <2> QED BY <2>2, <2>3, <2>4
<1>7. Walk(nx, b) = CHOOSE g : g = Body(g)
  BY DEF Walk, m
<1> HIDE DEF w, Body
<1>8. Walk(nx, b) = w
  BY <1>5, <1>6, <1>7
<1>9. w = Path(c)
  BY DEF w, Path, m
<1> QED BY <1>2, <1>4, <1>8, <1>9 DEF m

\* Chunk lists the chunks of the chain.
LEMMA ChunkIs ==
  ASSUME Typed, NEW c, Kept(c)
  PROVE  Len(c) <= Cardinality(Chunks) /\ Chunk = Path(c)
<1>1. /\ c \in Seq(Chunks) /\ c # <<>> /\ Distinct(c)
      /\ begin_chunk = c[1]
      /\ \A i \in 1..Len(c) - 1 : next[c[i]] = c[i + 1]
      /\ next[c[Len(c)]] = NULL
      /\ next \in [Chunks -> Chunks \cup {NULL}]
  BY DEF Kept, Linked, Typed
<1>2. Len(c) <= Cardinality(Chunks) /\ Walk(next, begin_chunk) = Path(c)
  BY <1>1, WalkIs
<1> QED BY <1>2, ChunkWalks

\* The items of the queue are the values along the chain.
ItemsAre == \A c : Kept(c) => Items = Listed(c)

\* Chunk follows the chain, so Items lists its values.
LEMMA ItemsListed == DequeInv => ItemsAre
<1> SUFFICES ASSUME DequeInv, NEW c, Kept(c) PROVE Items = Listed(c)
  BY DEF ItemsAre
<1>1. Typed
  BY DEF DequeInv
<1>2. Len(c) <= Cardinality(Chunks) /\ Chunk = Path(c)
  BY <1>1, ChunkIs
<1>3. PICK n \in Nat \ {0} : n = Len(c)
  BY <1>1, EndsAt
<1>4. Cardinality(Chunks) \in Nat
  BY DequeAssumption, FS_CardinalityType
<1>5. ASSUME NEW k \in 1..size PROVE ItemAt(k) = At(c, First + k - 1)
  <2>1. PICK a \in Nat : a = First + k - 1 /\ a < Len(c) * ChunkSize
    BY <1>1, Inside
  <2>2. (a \div ChunkSize) + 1 \in 1..n /\ c[(a \div ChunkSize) + 1] # NULL
    BY <1>1, <1>3, <2>1, AtInside, Constants
  <2>3. PICK d \in Nat : d = a \div ChunkSize
    BY Constants, Division
  <2>4. d \in 0..Cardinality(Chunks) /\ d < Len(c)
    BY <1>2, <1>3, <1>4, <2>2, <2>3
  <2>5. Chunk[d] = c[d + 1]
    BY <1>2, <2>4 DEF Path
  <2>6. ItemAt(k) = Content(<<Chunk[a \div ChunkSize], a % ChunkSize>>)
    BY <2>1 DEF ItemAt, First
  <2>7. ItemAt(k) = value[c[d + 1]][a % ChunkSize]
    BY <2>2, <2>3, <2>5, <2>6 DEF Content
  <2> QED BY <2>1, <2>3, <2>7 DEF At
<1> QED BY <1>5 DEF Items, Listed

\* The same of the next state.
LEMMA ItemsListedNext == DequeInv' => ItemsAre'
  BY ItemsListed, PTL

-----------------------------------------------------------------------------
(* The theorems.                                                           *)

\* No chunk is lost, given up while it holds values or linked twice, for any number and size
\* of chunks (queue.h:105-188).
THEOREM ChunksAreAccounted == Spec => []ChunksAccounted
<1>1. DequeInv => ChunksAccounted
  <2> SUFFICES ASSUME DequeInv PROVE ChunksAccounted
    OBVIOUS
  <2>1. PICK c : Kept(c)
    BY DEF DequeInv
  <2>2. Typed
    BY DEF DequeInv
  <2>3. Len(c) <= Cardinality(Chunks) /\ Chunk = Path(c)
    BY <2>1, <2>2, ChunkIs
  <2>4. PICK n \in Nat \ {0} : n = Len(c)
    BY <2>1, <2>2, EndsAt
  <2>5. Cardinality(Chunks) \in Nat
    BY DequeAssumption, FS_CardinalityType
  <2>6. \A i \in 1..n : c[i] \in Chunks
    BY <2>1, <2>4, ElementOfSeq DEF Kept
  <2>7. ASSUME NEW x PROVE x \in Chain <=> In(c, x)
    <3>1. ASSUME x \in Chain PROVE In(c, x)
      <4>1. PICK d \in 0..Cardinality(Chunks) : x = Path(c)[d] /\ x # NULL
        BY <2>3, <3>1 DEF Chain, Path
      <4>2. d < n /\ x = c[d + 1]
        BY <2>4, <4>1 DEF Path
      <4>3. d + 1 \in 1..n
        BY <2>5, <4>1, <4>2
      <4> QED BY <2>4, <4>2, <4>3 DEF In
    <3>2. ASSUME In(c, x) PROVE x \in Chain
      <4>1. PICK i \in 1..n : c[i] = x
        BY <2>4, <3>2 DEF In
      <4>2. PICK d \in 0..Cardinality(Chunks) : i = d + 1 /\ d < n
        <5>1. i - 1 \in 0..Cardinality(Chunks) /\ i = (i - 1) + 1 /\ i - 1 < n
          BY <2>3, <2>4, <2>5
        <5> QED BY <5>1
      <4>3. Chunk[d] = x /\ x # NULL /\ d \in DOMAIN Chunk
        BY <2>3, <2>4, <2>6, <4>1, <4>2, Constants DEF Path
      <4> QED BY <4>3 DEF Chain
    <3> QED BY <3>1, <3>2
  <2>8. In(c, end_chunk)
    <3>1. n \in 1..n
      OBVIOUS
    <3> QED BY <2>1, <2>4, <3>1 DEF Kept, Linked, In
  <2>9. \A x : In(c, x) => x \in Chunks
    BY <2>4, <2>6 DEF In
  <2>10. live = Chain \cup ({spare_chunk} \ {NULL})
    <3>1. \A x \in Chunks : x \in live <=> x \in Chain \/ x = spare_chunk
      BY <2>1, <2>7 DEF Kept, Accounted
    <3>2. live \subseteq Chunks /\ spare_chunk \in Chunks \cup {NULL}
      BY <2>2 DEF Typed
    <3>3. ASSUME NEW x PROVE x \in live <=> x \in Chain \cup ({spare_chunk} \ {NULL})
      BY <2>7, <2>9, <3>1, <3>2, Constants
    <3> QED BY <3>3
  <2>11. ~In(c, spare_chunk)
    BY <2>1 DEF Kept, Accounted
  <2> QED BY <2>7, <2>8, <2>10, <2>11 DEF ChunksAccounted
<1> QED BY <1>1, DequeInductive, PTL

\* zqueue_back and pop_back agree, also where the value is in the chunk before the end chunk
\* (queue.h:213-223).
THEOREM BackIsPopped == Spec => []BackIsLastItem
<1>1. DequeInv => BackIsLastItem
  <2> SUFFICES ASSUME DequeInv, Usable, size > 0 PROVE Back = Items[size]
    BY DEF BackIsLastItem
  <2>1. PICK c : Kept(c)
    BY DEF DequeInv
  <2>2. Typed /\ end_pos < ChunkSize
    BY DEF DequeInv, Usable
  <2>3. PICK a \in Nat : a + 1 = First + size /\ a = First + size - 1
    <3>1. First \in Nat /\ size \in Nat
      BY <2>2, Constants DEF Typed, First
    <3>2. First + size - 1 \in Nat /\ (First + size - 1) + 1 = First + size
      BY <3>1
    <3> QED BY <3>2
  <2>4. Content(LastSlot) = At(c, a)
    BY <2>1, <2>2, <2>3, LastSlotIs
  <2>5. Items = Listed(c) /\ size \in 1..size
    BY <2>1, <2>2, ItemsListed DEF ItemsAre, Typed
  <2> QED BY <2>3, <2>4, <2>5 DEF Back, Listed
<1> QED BY <1>1, DequeInductive, PTL

\* A call of the queue is a call of Deque; a push that fails is not seen.
LEMMA CallsMap ==
  ASSUME DequeInv, DequeInv', [Next]_vars
  PROVE  [DequeOfValues!Next]_<<Items, got>>
<1>1. PICK c : Kept(c)
  BY DEF DequeInv
<1>2. Typed
  BY DEF DequeInv
<1>3. Items = Listed(c)
  BY <1>1, ItemsListed DEF ItemsAre
<1>4. \A d : Kept(d)' => Items' = Listed(d)'
  BY ItemsListedNext DEF ItemsAre
<1>5. ASSUME NEW v \in Values, Push(v) PROVE DequeOfValues!Next
  <2>1. got' = got
    BY <1>5 DEF Push
  <2>2. PICK d : Kept(d)' /\ Listed(d)' = Append(Listed(c), v)
    BY <1>1, <1>2, <1>5, PushWithin, PushBeyond DEF Push
  <2>3. Items' = Append(Items, v)
    BY <1>3, <1>4, <2>2
  <2> QED BY <2>1, <2>3 DEF DequeOfValues!Next, DequeOfValues!PutBack
<1>6. ASSUME NEW v \in Values, PushFails(v) PROVE UNCHANGED <<Items, got>>
  BY <1>1, <1>2, <1>3, <1>4, <1>6, PushFailsStep DEF PushFails
<1>7. ASSUME NEW v \in Values, PushFront(v) PROVE DequeOfValues!Next
  <2>1. got' = got
    BY <1>7 DEF PushFront
  <2>2. PICK d : Kept(d)' /\ Listed(d)' = <<v>> \o Listed(c)
    BY <1>1, <1>2, <1>7, PushFrontWithin, PushFrontBeyond DEF PushFront
  <2>3. Items' = <<v>> \o Items
    BY <1>3, <1>4, <2>2
  <2> QED BY <2>1, <2>3 DEF DequeOfValues!Next, DequeOfValues!PutFront, DequeOfValues!Cons
<1>8. CASE PushFrontFails
  BY <1>1, <1>2, <1>3, <1>4, <1>8, PushFrontFailsStep DEF PushFrontFails
<1>9. CASE Pop
  <2>1. PICK d : /\ Kept(d)' /\ Listed(d)' = Tail(Listed(c)) /\ Listed(c) # <<>>
                 /\ got' = Head(Listed(c))
    BY <1>1, <1>2, <1>9, PopWithin, PopBeyond DEF Pop
  <2>2. Items # <<>> /\ Items' = Tail(Items) /\ got' = Head(Items)
    BY <1>3, <1>4, <2>1
  <2> QED BY <2>2 DEF DequeOfValues!Next, DequeOfValues!TakeFront
<1>10. CASE PopBack
  <2>1. PICK d : /\ Kept(d)' /\ Listed(d)' = SubSeq(Listed(c), 1, Len(Listed(c)) - 1)
                 /\ Listed(c) # <<>> /\ got' = Listed(c)[Len(Listed(c))]
    BY <1>1, <1>2, <1>10, PopBackWithin, PopBackBeyond DEF PopBack
  <2>2. Items # <<>> /\ Items' = SubSeq(Items, 1, Len(Items) - 1) /\ got' = Items[Len(Items)]
    BY <1>3, <1>4, <2>1
  <2> QED
    BY <2>2 DEF DequeOfValues!Next, DequeOfValues!TakeBack, DequeOfValues!Front,
                DequeOfValues!Last
<1>11. CASE UNCHANGED vars
  <2>1. Items' = Items
    BY <1>1, <1>2, <1>3, <1>4, <1>11, QuietStep
  <2> QED BY <1>11, <2>1 DEF vars
<1> QED BY <1>5, <1>6, <1>7, <1>8, <1>9, <1>10, <1>11 DEF Next, Rest

\* The queue is one sequence that grows and shrinks at both ends, for any number and size of
\* chunks and whatever the order of the calls (queue.h:105-188).
THEOREM QueueIsDeque == Spec => ImplementsDeque
<1>1. Init => DequeOfValues!Init
  <2> SUFFICES ASSUME Init PROVE DequeOfValues!Init
    OBVIOUS
  <2>1. size = 0 /\ got = NULL
    BY DEF Init
  <2>2. Items = <<>>
    BY <2>1 DEF Items
  <2> QED BY <2>1, <2>2 DEF DequeOfValues!Init
<1>2. DequeInv /\ DequeInv' /\ [Next]_vars => [DequeOfValues!Next]_<<Items, got>>
  BY CallsMap
<1> QED BY <1>1, <1>2, DequeInductive, PTL DEF Spec, ImplementsDeque, DequeOfValues!Spec

-----------------------------------------------------------------------------
(* The function Visit.                                                     *)

\* A sequence behind another one.
LEMMA ConcatAt ==
  ASSUME NEW n \in Nat, NEW l \in Nat, NEW S, NEW p \in [1..n -> S], NEW r \in [1..l -> S]
  PROVE  /\ p \o r \in Seq(S) /\ Len(p \o r) = n + l
         /\ \A k \in 1..n : (p \o r)[k] = p[k]
         /\ \A k \in 1..l : (p \o r)[n + k] = r[k]
<1>1. p \in Seq(S) /\ Len(p) = n /\ r \in Seq(S) /\ Len(r) = l
  BY AsSequence
<1>2. /\ p \o r \in Seq(S)
      /\ Len(p \o r) = Len(p) + Len(r)
      /\ \A k \in 1..Len(p) + Len(r) : (p \o r)[k] =
           IF k <= Len(p) THEN p[k] ELSE r[k - Len(p)]
  BY <1>1, ConcatProperties
<1>3. ASSUME NEW k \in 1..n PROVE (p \o r)[k] = p[k]
  <2>1. k \in 1..n + l /\ k <= n
    OBVIOUS
  <2> QED BY <1>1, <1>2, <2>1
<1>4. ASSUME NEW k \in 1..l PROVE (p \o r)[n + k] = r[k]
  <2>1. n + k \in 1..n + l /\ ~(n + k <= n) /\ (n + k) - n = k
    OBVIOUS
  <2> QED BY <1>1, <1>2, <2>1
<1> QED BY <1>1, <1>2, <1>3, <1>4

\* The slots of its k-th chunk, the n-th, that foreach visits.
From(n) == IF n = 1 THEN begin_pos ELSE 0
To(k) == IF k = end_chunk THEN end_pos ELSE ChunkSize
Piece(n, k) == [i \in 1..(To(k) - From(n)) |-> value[k][From(n) + i - 1]]

\* How many values the first n chunks of c hold.
Upto(c, n) ==
  IF n = 0 THEN 0
  ELSE IF n < Len(c) THEN (n - 1) * ChunkSize + ChunkSize - First ELSE size

DequeVisited(c) ==
  [n \in 0..Cardinality(Chunks) |-> [k \in 1..Upto(c, n) |-> At(c, First + k - 1)]]

\* The chunks before the n-th and the slots before From(n) hold what is before Upto(c, n - 1);
\* with the slots before To it is what is before Upto(c, n).
LEMMA UptoCounts ==
  ASSUME Typed, NEW c, Kept(c), Usable, NEW n \in 1..Len(c)
  PROVE  /\ Upto(c, n - 1) \in Nat /\ Upto(c, n) \in Nat /\ Upto(c, n) <= size
         /\ From(n) \in 0..ChunkSize - 1 /\ To(c[n]) \in 0..ChunkSize
         /\ From(n) <= To(c[n])
         /\ First + Upto(c, n - 1) = (n - 1) * ChunkSize + From(n)
         /\ First + Upto(c, n) = (n - 1) * ChunkSize + To(c[n])
<1>1. PICK l \in Nat \ {0} : l = Len(c)
  BY EndsAt
<1>2. /\ First = begin_pos /\ First \in Nat /\ First < ChunkSize
      /\ End = end_pos /\ End \in Nat /\ End < ChunkSize /\ size \in Nat
  BY Constants DEF Typed, First, End, Usable
<1>3. First + size = (l - 1) * ChunkSize + End
  BY <1>1, EndsAt
<1>4. n \in Nat \ {0} /\ n - 1 \in Nat /\ n <= l
  BY <1>1
<1>5. PICK e \in Nat : e = (n - 1) * ChunkSize
  BY <1>4, ChunksOf
<1>6. c[n] = end_chunk <=> n = l
  BY <1>1, n \in 1..Len(c), Len(c) \in 1..Len(c) DEF Kept, Linked, Distinct
<1>7. n = 1 => e = 0
  <2>1. (1 - 1) * ChunkSize = 0
    BY Constants
  <2> QED BY <1>5, <2>1
<1>8. Upto(c, n) = IF n < l THEN e + ChunkSize - First ELSE size
  BY <1>1, <1>4, <1>5 DEF Upto
<1>9. To(c[n]) = IF n < l THEN ChunkSize ELSE End
  BY <1>2, <1>4, <1>6 DEF To
<1>10. From(n) = IF n = 1 THEN First ELSE 0
  BY <1>2 DEF From
<1>11. First + Upto(c, n) = e + To(c[n])
  <2>1. CASE n < l
    BY <1>2, <1>8, <1>9, <2>1, Constants
  <2>2. CASE n = l
    BY <1>2, <1>3, <1>5, <1>8, <1>9, <2>2
  <2> QED BY <1>4, <2>1, <2>2
<1>12. First + Upto(c, n - 1) = e + From(n) /\ Upto(c, n - 1) \in Nat
  <2>1. CASE n = 1
    BY <1>2, <1>7, <1>10, <2>1 DEF Upto
  <2>2. CASE n # 1
    <3>1. PICK m \in Nat \ {0} : m = n - 1
      BY <1>4, <2>2
    <3>2. n * ChunkSize \in Nat /\ n - 1 = m /\ m # 0 /\ m < l
      BY <1>4, <3>1, Constants
    <3>3. m * ChunkSize = (m - 1) * ChunkSize + ChunkSize /\ (m - 1) * ChunkSize \in Nat
      BY ChunksOf
    <3>4. Upto(c, m) = (m - 1) * ChunkSize + ChunkSize - First
      BY <1>1, <3>2 DEF Upto
    <3>5. e = (m - 1) * ChunkSize + ChunkSize
      BY <1>5, <3>1, <3>3
    <3> QED BY <1>2, <1>10, <2>2, <3>2, <3>3, <3>4, <3>5, Constants
  <2> QED BY <2>1, <2>2
<1>13. Upto(c, n) \in Nat /\ Upto(c, n) <= size
  <2>1. CASE n < l
    <3>1. PICK m \in Nat \ {0} : m = l - 1
      BY <1>4, <2>1
    <3>2. n * ChunkSize = e + ChunkSize
      BY <1>4, <1>5, ChunksOf
    <3>3. n = m \/ n < m
      BY <1>4, <2>1, <3>1
    <3>4. n * ChunkSize <= m * ChunkSize
      <4>1. n < m => n * ChunkSize + ChunkSize <= m * ChunkSize
        BY <1>4, Products, Constants
      <4>2. n * ChunkSize \in Nat /\ m * ChunkSize \in Nat
        BY <1>4, Constants
      <4> QED BY <3>3, <4>1, <4>2, Constants
    <3>5. PICK g \in Nat : g = m * ChunkSize
      BY Constants
    <3>6. First + size = g + End /\ e + ChunkSize <= g
      BY <1>3, <3>1, <3>2, <3>4, <3>5
    <3> QED BY <1>2, <1>8, <2>1, <3>6, Constants
  <2>2. CASE n = l
    BY <1>2, <1>8, <2>2
  <2> QED BY <1>4, <2>1, <2>2
<1>14. From(n) \in 0..ChunkSize - 1 /\ To(c[n]) \in 0..ChunkSize
  BY <1>2, <1>9, <1>10, Constants
<1>15. From(n) <= To(c[n])
  <2>1. CASE n = l /\ n = 1
    BY <1>2, <1>3, <1>5, <1>7, <1>9, <1>10, <2>1
  <2>2. CASE ~(n = l /\ n = 1)
    BY <1>2, <1>4, <1>9, <1>10, <2>2, Constants
  <2> QED BY <2>1, <2>2
<1> QED BY <1>5, <1>11, <1>12, <1>13, <1>14, <1>15

\* The values of the first n chunks are those of the first n - 1 and the piece of the n-th.
LEMMA VisitsPiece ==
  ASSUME Typed, NEW c, Kept(c), Usable, NEW n \in 1..Len(c)
  PROVE  [k \in 1..Upto(c, n) |-> At(c, First + k - 1)]
           = [k \in 1..Upto(c, n - 1) |-> At(c, First + k - 1)] \o Piece(n, c[n])
<1>1. PICK u, w \in Nat : u = Upto(c, n - 1) /\ w = Upto(c, n)
  BY UptoCounts
<1>2. PICK from \in 0..ChunkSize - 1, to \in 0..ChunkSize :
        from = From(n) /\ to = To(c[n]) /\ from <= to
  BY UptoCounts
<1>3. PICK e \in Nat : e = (n - 1) * ChunkSize
  BY ChunksOf, EndsAt
<1>4. First \in Nat /\ size \in Nat /\ ChunkSize \in Nat
  BY Constants DEF Typed, First
<1>5. First + u = e + from /\ First + w = e + to /\ w <= size
  BY <1>1, <1>2, <1>3, UptoCounts
<1>6. PICK l \in Nat : l = to - from /\ w = u + l
  <2>1. \A f, x, y \in Nat : x <= y /\ f + u = e + x /\ f + w = e + y
                           => y - x \in Nat /\ w = u + (y - x)
    OBVIOUS
  <2>2. from \in Nat /\ to \in Nat
    BY <1>4
  <2>3. to - from \in Nat /\ w = u + (to - from)
    BY ONLY <1>2, <1>4, <1>5, <2>1, <2>2
  <2> QED BY <2>3
<1> PICK p : p = [k \in 1..u |-> At(c, First + k - 1)]
  OBVIOUS
<1> PICK q : q = [k \in 1..w |-> At(c, First + k - 1)]
  OBVIOUS
<1> PICK r : r = Piece(n, c[n])
  OBVIOUS
<1>7. \A k \in 1..size : At(c, First + k - 1) \in Values \cup {NULL}
  BY Inside, AtInside
<1>8. \A k \in 1..w : k \in 1..size
  BY <1>4, <1>5
<1>9. \A k \in 1..u : k \in 1..w
  BY <1>6
<1>10. q \in [1..w -> Values \cup {NULL}] /\ p \in [1..u -> Values \cup {NULL}]
  BY <1>7, <1>8, <1>9
<1>11. ASSUME NEW k \in 1..l PROVE r[k] = q[u + k] /\ u + k \in 1..w
  <2>1. u + k \in 1..w
    BY <1>6
  <2>2. PICK a \in Nat : a = First + (u + k) - 1
    BY <1>4
  <2>3. PICK s \in Slots : s = from + k - 1
    <3>1. \A m, x, y \in Nat : y <= m /\ x <= y /\ k <= y - x => x + k - 1 \in 0..m - 1
      OBVIOUS
    <3>2. from \in Nat /\ to \in Nat /\ to <= ChunkSize /\ k <= to - from
      BY <1>4, <1>6
    <3>3. from + k - 1 \in Slots
      BY <1>2, <1>4, <3>1, <3>2 DEF Slots
    <3> QED BY <3>3
  <2>4. a = (n - 1) * ChunkSize + s
    BY <1>3, <1>4, <1>5, <2>2, <2>3
  <2>5. (a \div ChunkSize) + 1 = n /\ a % ChunkSize = s
    BY <2>4, Place, EndsAt
  <2>6. q[u + k] = value[c[n]][s]
    BY <2>1, <2>2, <2>5 DEF At
  <2>7. r[k] = value[c[n]][s]
    BY <1>2, <1>6, <2>3 DEF Piece
  <2> QED BY <2>1, <2>6, <2>7
<1>12. r \in [1..l -> Values \cup {NULL}]
  <2>1. r = [k \in 1..l |-> r[k]]
    BY <1>2, <1>6 DEF Piece
  <2>2. \A k \in 1..l : r[k] \in Values \cup {NULL}
    BY <1>10, <1>11
  <2> QED BY <2>1, <2>2
<1>13. PICK S : S = Values \cup {NULL}
  OBVIOUS
<1>14. /\ p \o r \in Seq(S) /\ Len(p \o r) = u + l
       /\ \A k \in 1..u : (p \o r)[k] = p[k]
       /\ \A k \in 1..l : (p \o r)[u + k] = r[k]
  <2>1. u \in Nat /\ l \in Nat /\ p \in [1..u -> S] /\ r \in [1..l -> S]
    BY <1>10, <1>12, <1>13
  <2> QED BY ONLY <2>1, ConcatAt
<1>15. q \in Seq(S) /\ Len(q) = u + l
  BY <1>6, <1>10, <1>13, AsSequence
<1>16. ASSUME NEW k \in 1..u + l PROVE q[k] = (p \o r)[k]
  <2>1. CASE k \in 1..u
    BY <1>9, <1>14, <2>1
  <2>2. CASE k \notin 1..u
    <3>1. PICK i \in 1..l : k = u + i
      <4>1. k - u \in 1..l /\ k = u + (k - u)
        BY <2>2
      <4> QED BY <4>1
    <3> QED BY <1>11, <1>14, <3>1
  <2> QED BY <2>1, <2>2
<1>17. \A s, t \in Seq(S) : Len(s) = Len(t) /\ (\A i \in 1..Len(s) : s[i] = t[i]) => s = t
  BY SeqEqual
<1>18. q = p \o r
  BY <1>14, <1>15, <1>16, <1>17
<1> QED BY <1>1, <1>18

\* Behind the end chunk foreach finds nothing.
LEMMA VisitedIs ==
  ASSUME Typed, NEW c, Kept(c), Usable
  PROVE  Visit = DequeVisited(c)
<1> DEFINE m == Cardinality(Chunks)
           Body(g) == [n \in 0..m |->
                         IF n = 0 THEN <<>>
                         ELSE g[n - 1] \o IF Chunk[n - 1] = NULL THEN <<>>
                                          ELSE Piece(n, Chunk[n - 1])]
           w == DequeVisited(c)
<1>1. m \in Nat
  BY DequeAssumption, FS_CardinalityType
<1>2. Len(c) <= m /\ Chunk = Path(c)
  BY ChunkIs
<1>3. PICK l \in Nat \ {0} : l = Len(c)
  BY EndsAt
<1>4. \A i \in 1..l : c[i] \in Chunks /\ c[i] # NULL
  BY <1>3, ElementOfSeq, Constants DEF Kept
<1>5. Visit = CHOOSE g : g = Body(g)
  BY DEF Visit, Piece, From, To
<1>6. \A n \in 0..m : w[n] = [k \in 1..Upto(c, n) |-> At(c, First + k - 1)]
  BY DEF DequeVisited
<1>7. ASSUME NEW n \in 0..m PROVE w[n] = Body(w)[n]
  <2>1. CASE n = 0
    <3>1. Upto(c, 0) = 0
      BY DEF Upto
    <3>2. PICK p : p = w[0]
      OBVIOUS
    <3>3. p = [k \in 1..0 |-> At(c, First + k - 1)]
      BY <1>1, <1>6, <3>1, <3>2, 0 \in 0..m
    <3>4. p \in Seq({NULL}) /\ Len(p) = 0
      <4>1. p \in [1..0 -> {NULL}]
        BY <3>3
      <4> QED BY <4>1, AsSequence
    <3>5. p = <<>>
      BY <3>4, EmptySeq
    <3>6. Body(w)[0] = <<>>
      BY <1>1, 0 \in 0..m
    <3> QED BY <2>1, <3>2, <3>5, <3>6
  <2>2. CASE n # 0
    <3>1. PICK j \in 0..m : n = j + 1 /\ j = n - 1
      <4>1. n - 1 \in 0..m /\ n = (n - 1) + 1
        BY <1>1, <2>2
      <4> QED BY <4>1
    <3>2. Body(w)[n] = w[j] \o IF Chunk[j] = NULL THEN <<>> ELSE Piece(n, Chunk[j])
      BY <2>2, <3>1
    <3>3. CASE n <= l
      <4>1. n \in 1..l /\ j < l
        BY <1>1, <2>2, <3>1, <3>3
      <4>2. Chunk[j] = c[n] /\ c[n] # NULL
        BY <1>2, <1>3, <1>4, <3>1, <4>1 DEF Path
      <4>3. w[n] = w[j] \o Piece(n, c[n])
        <5>1. w[n] = [k \in 1..Upto(c, n) |-> At(c, First + k - 1)]
          BY <1>6
        <5>2. w[j] = [k \in 1..Upto(c, n - 1) |-> At(c, First + k - 1)]
          BY <1>6, <3>1
        <5>3. [k \in 1..Upto(c, n) |-> At(c, First + k - 1)]
                = [k \in 1..Upto(c, n - 1) |-> At(c, First + k - 1)] \o Piece(n, c[n])
          <6>1. n \in 1..Len(c)
            BY <1>3, <4>1
          <6> HIDE DEF w
          <6> QED BY <6>1, VisitsPiece
        <5> HIDE DEF w, Body
        <5> QED BY <5>1, <5>2, <5>3
      <4> QED BY <3>2, <4>2, <4>3
    <3>4. CASE n > l
      <4>1. ~(j < l) /\ j # 0 /\ ~(n < l)
        BY <1>1, <3>1, <3>4
      <4>2. Chunk[j] = NULL
        BY <1>2, <1>3, <3>1, <4>1 DEF Path
      <4>3. Upto(c, j) = size /\ Upto(c, n) = size
        BY <1>3, <2>2, <4>1 DEF Upto
      <4>4. w[n] = Listed(c) /\ w[j] = Listed(c)
        BY <1>6, <3>1, <4>3 DEF Listed
      <4>5. Listed(c) \in Seq(Values \cup {NULL})
        BY ListedTyped, AsSequence DEF Typed
      <4>6. Listed(c) \o <<>> = Listed(c)
        BY <4>5, ConcatEmptySeq
      <4> QED BY <3>2, <4>2, <4>4, <4>6
    <3> QED BY <1>1, <3>3, <3>4
  <2> QED BY <2>1, <2>2
<1>8. w = Body(w)
  <2>1. w = [n \in 0..m |-> w[n]]
    BY DEF DequeVisited
  <2> HIDE DEF w
  <2> QED BY <1>7, <2>1
<1> HIDE DEF w
<1>9. ASSUME NEW g, g = Body(g) PROVE g = w
  <2> DEFINE Off == {n \in 0..m : g[n] # w[n]}
  <2>1. ASSUME Off # {} PROVE FALSE
    <3>1. Off \in SUBSET Nat
      OBVIOUS
    <3>2. PICK n \in Off : \A y \in Off : n <= y
      BY <2>1, <3>1, Least
    <3>3. CASE n = 0
      BY <3>3, <1>8, <1>9
    <3>4. CASE n # 0
      <4> DEFINE j == n - 1
      <4>1. j \in 0..m /\ ~(n <= j)
        BY <3>4, <1>1
      <4>2. g[j] = w[j]
        BY <4>1, <3>2
      <4>3. g[n] = g[j] \o IF Chunk[j] = NULL THEN <<>> ELSE Piece(n, Chunk[j])
        BY <3>4, <1>9
      <4>4. w[n] = w[j] \o IF Chunk[j] = NULL THEN <<>> ELSE Piece(n, Chunk[j])
        BY <3>4, <1>8
      <4> QED BY <4>2, <4>3, <4>4
    <3> QED BY <3>3, <3>4
  <2>2. \A n \in 0..m : g[n] = w[n]
    BY <2>1
  <2>3. g = [n \in 0..m |-> g[n]]
    BY <1>9
  <2>4. w = [n \in 0..m |-> w[n]]
    BY <1>8
  <2> HIDE DEF Body
  <2> QED BY <2>2, <2>3, <2>4
<1> HIDE DEF Body
<1>10. Visit = w
  BY <1>5, <1>8, <1>9
<1> QED BY <1>10 DEF w

\* zqueue_foreach, which follows the links and not the size, visits the values that are in
\* the queue, in their order, for any number and size of chunks (queue.h:190-207).
THEOREM ForeachVisitsAll == Spec => []ForeachVisitsItems
<1>1. DequeInv => ForeachVisitsItems
  <2> SUFFICES ASSUME DequeInv, Usable PROVE Foreach = Items
    BY DEF ForeachVisitsItems
  <2>1. PICK c : Kept(c)
    BY DEF DequeInv
  <2>2. Typed /\ Items = Listed(c)
    BY <2>1, ItemsListed DEF DequeInv, ItemsAre
  <2>3. Visit = DequeVisited(c)
    BY <2>1, <2>2, VisitedIs
  <2>4. PICK m \in Nat \ {0} : m = Cardinality(Chunks) /\ ~(m < Len(c))
    <3>1. Len(c) <= Cardinality(Chunks) /\ Len(c) \in Nat \ {0}
      BY <2>1, <2>2, ChunkIs, EndsAt
    <3>2. Cardinality(Chunks) \in Nat
      BY DequeAssumption, FS_CardinalityType
    <3> QED BY <3>1, <3>2
  <2>5. Upto(c, m) = size
    BY <2>4 DEF Upto
  <2>6. Foreach = [k \in 1..Upto(c, m) |-> At(c, First + k - 1)]
    BY <2>3, <2>4 DEF Foreach, DequeVisited
  <2> QED BY <2>2, <2>5, <2>6 DEF Listed
<1> QED BY <1>1, DequeInductive, PTL

(***************************************************************************)
(* The list.                                                               *)
(***************************************************************************)
\* The counters of zbase_allocator_s, with the bound.
Bounded ==
  /\ chk_cnt \in Nat
  /\ MemoryBounded

\* A chunk is added only if those added before it are within the limit.
LEMMA AddChunkBounded ==
  ASSUME Bounded, NEW u \in Threads, AddChunk(u)
  PROVE  Bounded'
  <1>1. chk_cnt \in Nat /\ chk_cnt' = chk_cnt + 1 /\ MaxMem >= Capacity * chk_cnt
    BY DEF Bounded, AddChunk
  <1>2. Capacity * (chk_cnt' + 1) = Capacity * chk_cnt + 2 * Capacity
    BY <1>1, ZAllocAssumption
  <1>3. Capacity * chk_cnt \in Nat
    BY <1>1, ZAllocAssumption
  <1> QED
    BY <1>1, <1>2, <1>3, ZAllocAssumption DEF Bounded, MemoryBounded

\* No other call changes the number of chunks.
LEMMA OthersBounded ==
  ASSUME Bounded, UNCHANGED chk_cnt
  PROVE  Bounded'
  BY DEF Bounded, MemoryBounded

\* The first chunk is not counted and within the bound.
LEMMA InitBounded == ListInit => Bounded
<1> SUFFICES ASSUME ListInit PROVE Bounded
  OBVIOUS
<1>1. Capacity * (0 + 1) = Capacity
  BY ZAllocAssumption
<1> QED BY <1>1, ZAllocAssumption DEF ListInit, AllocInit, Bounded, MemoryBounded

\* Only AddChunk counts a chunk.
LEMMA NextBounded ==
  ASSUME Bounded, [ListNext]_listVars
  PROVE  Bounded'
<1>1. ASSUME NEW u \in Threads, ListAllocator(u) PROVE Bounded'
  BY <1>1, AddChunkBounded, OthersBounded DEF ListAllocator, Allocator, PopRecycled,
     RecycledEmpty, CutBlock, PopFails, Clear, PushBlock, PushBlockFails, PushBehind, allocVars,
     memVars
<1>2. ASSUME NEW u \in Threads,
             ListPush(u) \/ ListPushFront(u) \/ ListPop(u) \/ ListPopBack(u)
      PROVE  Bounded'
  BY <1>2, OthersBounded DEF ListPush, ListPushFront, ListPop, ListPopBack, GiveNode,
     TakeNode, memVars
<1>3. CASE UNCHANGED listVars
  BY <1>3, OthersBounded DEF listVars, allocVars, memVars
<1> QED BY <1>1, <1>2, <1>3 DEF ListNext

\* However many threads allocate and release nodes, in whatever order, the memory of the
\* list's allocator exceeds max_mem by two chunks at most (alloc.h:82-112).
THEOREM MemoryLimit == ListSpec => []MemoryBounded
<1>1. Bounded => MemoryBounded
  BY DEF Bounded
<1>2. Bounded /\ [ListNext]_listVars => Bounded'
  BY NextBounded
<1> QED BY <1>1, <1>2, InitBounded, PTL DEF ListSpec

(***************************************************************************)
(* The invariant.                                                          *)
(***************************************************************************)
Labels == {"idle", "fresh", "has", "push"}

ListTyped ==
  /\ mem_end \in 0..Capacity
  /\ rec_que \in Seq(Blocks)
  /\ at \in [Threads -> Labels] /\ blk \in [Threads -> Blocks \cup {Nil}]
  /\ written \subseteq Blocks /\ lost \in Blocks \cup {Nil}
  /\ head \in Blocks \cup {Nil} /\ tail \in Blocks \cup {Nil} /\ list_size \in Nat
  /\ nod_next \in [Blocks -> Blocks \cup {Nil}] /\ nod_prev \in [Blocks -> Blocks \cup {Nil}]

\* A thread has a block between zalloc_pop and the end of zalloc_push, and has it alone.
Owned ==
  /\ \A u \in Threads : blk[u] # Nil <=> at[u] \in {"has", "push"}
  /\ \A u, v \in Threads : blk[u] = blk[v] /\ blk[u] # Nil => u = v

Holders == {u \in Threads : blk[u] # Nil}

\* With s as the blocks in the list, every block is in one place.
Placed(s) ==
  /\ Distinct(s) /\ Distinct(rec_que)
  /\ \A b \in Blocks : b <= Cut <=> \/ In(s, b) \/ In(rec_que, b) \/ b = lost
                                    \/ \E u \in Threads : blk[u] = b
  /\ \A b \in Blocks : ~(In(s, b) /\ In(rec_que, b))
  /\ \A b \in Blocks : b = lost => /\ ~In(s, b) /\ ~In(rec_que, b)
                                   /\ \A u \in Threads : blk[u] # b
  /\ \A u \in Threads : ~In(s, blk[u]) /\ ~In(rec_que, blk[u])

\* How many blocks are lost.
Losses == IF lost = Nil THEN 0 ELSE 1

Counted(s) ==
  /\ IsFiniteSet(Holders)
  /\ Cut = Len(s) + Len(rec_que) + Cardinality(Holders) + Losses

\* The blocks of the list are written, those on their way to the recycle queue are zero.
Clean(s) ==
  /\ \A b \in Blocks : In(s, b) => b \in written
  /\ \A b \in Blocks : In(rec_que, b) => b \notin written
  /\ \A u \in Threads : at[u] = "push" => blk[u] \notin written

\* The links lead through s in both directions.
Chained(s) ==
  /\ list_size = Len(s)
  /\ s # <<>> => /\ head = s[1] /\ nod_prev[s[1]] = Nil
                 /\ tail = s[Len(s)] /\ nod_next[s[Len(s)]] = Nil
  /\ \A i \in 1..Len(s) - 1 : nod_next[s[i]] = s[i + 1] /\ nod_prev[s[i + 1]] = s[i]

List(s) == s \in Seq(Blocks) /\ Placed(s) /\ Counted(s) /\ Clean(s) /\ Chained(s)

\* Only zlist_pop_back leaves a head behind, the node it popped, which has no link then.
StaleHead == list_size = 0 /\ head # Nil => head = popped /\ nod_next[head] = Nil

ListInv == Bounded /\ ListTyped /\ Owned /\ StaleHead /\ \E s : List(s)

(***************************************************************************)
(* The nodes that Visited finds.                                           *)
(***************************************************************************)
\* The blocks of s are linked by nx, and the last one is not linked.
Follows(nx, s) ==
  /\ s \in Seq(Blocks) /\ s # <<>>
  /\ \A i \in 1..Len(s) - 1 : nx[s[i]] = s[i + 1]
  /\ nx[s[Len(s)]] = Nil

\* One more link, if there is one.
Longer(nx, q) == IF nx[Last(q)] = Nil THEN q ELSE Append(q, nx[Last(q)])

\* A prefix of s gets one longer until it is s.
LEMMA LongerPrefix ==
  ASSUME NEW nx, NEW s, Follows(nx, s), NEW k \in 1..Len(s)
  PROVE  Longer(nx, SubSeq(s, 1, k)) = IF k < Len(s) THEN SubSeq(s, 1, k + 1) ELSE SubSeq(s, 1, k)
<1> DEFINE q == SubSeq(s, 1, k)
<1>1. s \in Seq(Blocks) /\ Len(s) \in Nat \ {0} /\ \A i \in 1..Len(s) : s[i] \in Blocks
  BY EmptySeq, ElementOfSeq DEF Follows
<1>2. Last(q) = s[k]
  <2>1. 1 \in Int /\ k \in Int /\ \A i \in 1..k : s[i] \in Blocks
    BY <1>1
  <2>2. /\ Len(SubSeq(s, 1, k)) = IF 1 <= k THEN k - 1 + 1 ELSE 0
        /\ \A i \in 1..k - 1 + 1 : SubSeq(s, 1, k)[i] = s[1 + i - 1]
    BY ONLY <2>1, SubSeqProperties
  <2>3. k \in 1..k - 1 + 1 /\ 1 <= k /\ 1 + k - 1 = k /\ k - 1 + 1 = k
    BY <1>1
  <2>4. Len(q) = k /\ q[k] = s[k]
    BY <2>2, <2>3
  <2> QED BY <2>4 DEF Last
<1>3. CASE k = Len(s)
  BY <1>1, <1>2, <1>3 DEF Longer, Follows
<1>4. CASE k < Len(s)
  <2>1. k \in 1..Len(s) - 1 /\ k + 1 \in 1..Len(s)
    BY <1>1, <1>4
  <2>2. nx[s[k]] = s[k + 1] /\ s[k + 1] \in Blocks /\ s[k + 1] # Nil
    BY <2>1, <1>1, ZAllocAssumption DEF Follows
  <2>3. q \in Seq(Blocks)
    <3>1. 1 \in Int /\ k \in Int /\ \A i \in 1..k : s[i] \in Blocks
      BY <1>1
    <3> QED BY ONLY <3>1, SubSeqProperties
  <2>4. SubSeq(s, 1, k + 1) = SubSeq(s, 1, (k + 1) - 1) \o <<s[k + 1]>>
    <3>1. 1 \in 1..Len(s) /\ k + 1 \in 1..Len(s)
      BY <1>1, <2>1
    <3> QED BY ONLY <1>1, <3>1, SubSeqRecursiveSecond
  <2>5. (k + 1) - 1 = k
    BY <1>1
  <2>6. SubSeq(s, 1, k + 1) = Append(q, s[k + 1])
    BY <2>2, <2>3, <2>4, <2>5, AppendIsConcat
  <2> HIDE DEF q
  <2>7. Longer(nx, q) = Append(q, s[k + 1])
    BY <1>2, <2>2 DEF Longer
  <2> QED BY <1>4, <2>6, <2>7 DEF q
<1> QED BY <1>1, <1>3, <1>4

\* The definition inside Visited, as an operator.
Visits(nx, b) ==
  CHOOSE v : v = [n \in 0..MaxBlocks |-> IF n = 0 THEN <<b>> ELSE Longer(nx, v[n - 1])]

\* Visited is the last value of that function.
LEMMA VisitedVisits ==
  ASSUME NEW nx, NEW b
  PROVE  Visited(nx, b) = Visits(nx, b)[MaxBlocks]
  BY DEF Visited, Visits, Longer

\* The function inside Visited has one solution, the prefixes of s (the first number for
\* which another solution differed would not be 0, and the step to it is determined), and s
\* has no more nodes than there are blocks.
LEMMA ListVisitedIs ==
  ASSUME NEW nx, NEW s, Follows(nx, s), Len(s) <= MaxBlocks
  PROVE  Visited(nx, s[1]) = s
<1> DEFINE b == s[1]
           Body(v) == [n \in 0..MaxBlocks |-> IF n = 0 THEN <<b>> ELSE Longer(nx, v[n - 1])]
           upto(n) == IF n + 1 <= Len(s) THEN n + 1 ELSE Len(s)
           w == [n \in 0..MaxBlocks |-> SubSeq(s, 1, upto(n))]
<1>1. s \in Seq(Blocks) /\ Len(s) \in Nat \ {0} /\ MaxBlocks \in Nat
  BY EmptySeq, ZAllocAssumption DEF Follows, MaxBlocks
<1>2. ASSUME NEW n \in 0..MaxBlocks PROVE w[n] = Body(w)[n]
  <2>1. CASE n = 0
    <3>1. upto(n) = 1
      BY <1>1, <2>1
    <3>2. SubSeq(s, 1, 1) = <<b>>
      <4>1. 1 \in 1..Len(s)
        BY <1>1
      <4>2. SubSeq(s, 1, 1) = SubSeq(s, 1, 1 - 1) \o <<s[1]>>
        BY ONLY <1>1, <4>1, SubSeqRecursiveSecond
      <4>3. SubSeq(s, 1, 1 - 1) = <<>>
        <5>1. 1 - 1 < 1 /\ 1 \in Int /\ 1 - 1 \in Int
          OBVIOUS
        <5> QED BY ONLY <5>1, SubSeqEmpty
      <4>4. <<b>> \in Seq(Blocks)
        BY <4>1, <1>1, ElementOfSeq
      <4> QED BY <4>2, <4>3, <4>4, ConcatEmptySeq
    <3> QED BY <2>1, <3>1, <3>2
  <2>2. CASE n # 0
    <3> DEFINE j == n - 1
    <3>1. j \in 0..MaxBlocks /\ j \in Nat /\ n = j + 1
      BY <1>1, <2>2
    <3>2. upto(j) \in 1..Len(s)
      BY <1>1, <3>1
    <3>3. Longer(nx, SubSeq(s, 1, upto(j))) =
            IF upto(j) < Len(s) THEN SubSeq(s, 1, upto(j) + 1) ELSE SubSeq(s, 1, upto(j))
      BY <3>2, LongerPrefix
    <3>4. upto(n) = IF upto(j) < Len(s) THEN upto(j) + 1 ELSE upto(j)
      BY <1>1, <3>1
    <3>5. w[n] = SubSeq(s, 1, upto(n)) /\ w[j] = SubSeq(s, 1, upto(j))
      BY <3>1
    <3>6. Body(w)[n] = Longer(nx, w[j])
      BY <2>2
    <3> HIDE DEF w, upto, Body, j
    <3> QED BY <3>3, <3>4, <3>5, <3>6
  <2> QED BY <2>1, <2>2
<1>3. w = Body(w)
  <2>1. w = [n \in 0..MaxBlocks |-> w[n]]
    OBVIOUS
  <2> HIDE DEF w
  <2> QED BY <1>2, <2>1
<1>4. ASSUME NEW v, v = Body(v) PROVE v = w
  <2> DEFINE Off == {n \in 0..MaxBlocks : v[n] # w[n]}
  <2>1. ASSUME Off # {} PROVE FALSE
    <3>1. Off \in SUBSET Nat
      BY <1>1
    <3>2. PICK n \in Off : \A y \in Off : n <= y
      BY <2>1, <3>1, Least
    <3>3. n \in 0..MaxBlocks /\ v[n] # w[n]
      BY <3>2
    <3>4. v[n] = Body(v)[n] /\ w[n] = Body(w)[n]
      BY <1>2, <1>4, <3>3
    <3> HIDE DEF w
    <3>5. n # 0
      BY <3>3, <3>4
    <3> DEFINE j == n - 1
    <3>6. j \in 0..MaxBlocks /\ ~(n <= j)
      BY <1>1, <3>3, <3>5
    <3>7. v[j] = w[j]
      BY <3>2, <3>6
    <3> QED BY <3>3, <3>4, <3>5, <3>7
  <2>2. \A n \in 0..MaxBlocks : v[n] = w[n]
    BY <2>1
  <2>3. v = [n \in 0..MaxBlocks |-> v[n]]
    BY <1>4
  <2>4. w = [n \in 0..MaxBlocks |-> w[n]]
    OBVIOUS
  <2> HIDE DEF w, Body
  <2> QED BY <2>2, <2>3, <2>4
<1>5. w[MaxBlocks] = s
  <2>1. upto(MaxBlocks) = Len(s)
    BY <1>1
  <2>2. MaxBlocks \in 0..MaxBlocks
    BY <1>1
  <2>3. w[MaxBlocks] = SubSeq(s, 1, upto(MaxBlocks))
    BY <2>2
  <2> HIDE DEF upto, w
  <2> QED BY <1>1, <2>1, <2>3, SubSeqFull
<1>6. Visits(nx, b) = CHOOSE v : v = Body(v)
  BY DEF Visits
<1> HIDE DEF w, Body
<1>7. Visits(nx, b) = w
  BY <1>3, <1>4, <1>6
<1> QED BY <1>5, <1>7, VisitedVisits DEF b

\* What LinksAgree compares, with the chain of the invariant in place of Contents.
ContentsAre ==
  \A s : List(s) => /\ Contents = s
                    /\ list_size > 0 => /\ Visited(nod_next, head) = s
                                        /\ Visited(nod_prev, tail) = Reverse(s)

\* No more blocks are cut than the chunks have.
LEMMA CutBounded ==
  ASSUME Bounded, ListTyped
  PROVE  Cut \in Nat /\ Cut <= MaxBlocks /\ Cut + mem_end <= MaxBlocks
<1>1. Capacity * (chk_cnt + 1) \in Nat /\ Capacity * (chk_cnt + 1) >= Capacity
  <2>1. chk_cnt \in Nat /\ Capacity \in Nat
    BY ZAllocAssumption DEF Bounded
  <2>2. Capacity * (chk_cnt + 1) = Capacity * chk_cnt + Capacity /\ Capacity * chk_cnt \in Nat
    BY <2>1
  <2> QED BY <2>1, <2>2
<1>2. PICK c \in Nat : c = Capacity * (chk_cnt + 1) /\ c >= Capacity
  BY <1>1
<1>3. c <= MaxBlocks /\ Cut = c - mem_end
  BY <1>2 DEF Bounded, MemoryBounded, Cut, MaxBlocks
<1>4. MaxBlocks \in Nat /\ mem_end \in Nat /\ mem_end <= Capacity /\ Capacity \in Nat
  BY ZAllocAssumption DEF MaxBlocks, ListTyped
<1> QED BY <1>2, <1>3, <1>4

\* Contents is the sequence of the invariant, and the links of both directions lead through
\* it.
LEMMA ContentsListed == ListInv => ContentsAre
<1> SUFFICES ASSUME ListInv, NEW s, List(s)
             PROVE  /\ Contents = s
                    /\ list_size > 0 => /\ Visited(nod_next, head) = s
                                        /\ Visited(nod_prev, tail) = Reverse(s)
  BY DEF ContentsAre
<1>1. s \in Seq(Blocks) /\ Len(s) \in Nat /\ list_size = Len(s)
  BY LenProperties DEF List, Chained
<1>2. Len(s) <= MaxBlocks
  <2>1. Len(rec_que) \in Nat /\ Cardinality(Holders) \in Nat /\ Losses \in Nat
    BY LenProperties, FS_CardinalityType DEF ListInv, ListTyped, List, Counted, Losses
  <2>2. Cut = Len(s) + Len(rec_que) + Cardinality(Holders) + Losses
    BY DEF List, Counted
  <2>3. MaxBlocks \in Nat
    BY ZAllocAssumption DEF MaxBlocks
  <2>4. Cut \in Nat /\ Cut <= MaxBlocks
    BY CutBounded DEF ListInv
  <2> QED BY <1>1, <2>1, <2>2, <2>3, <2>4
<1>3. CASE list_size = 0
  <2>1. s = <<>>
    BY <1>1, <1>3, EmptySeq
  <2> QED BY <1>3, <2>1 DEF Contents
<1>4. CASE list_size > 0
  <2>1. s # <<>>
    BY <1>1, <1>4, EmptySeq
  <2>2. Visited(nod_next, head) = s
    <3>1. Follows(nod_next, s) /\ head = s[1]
      BY <1>1, <2>1 DEF Follows, List, Chained
    <3> QED BY <3>1, <1>2, ListVisitedIs
  <2>3. Contents = s
    BY <1>1, <1>4, <2>2, SubSeqFull DEF Contents
  <2>4. Visited(nod_prev, tail) = Reverse(s)
    <3> DEFINE r == Reverse(s)
               n == Len(s)
    <3>1. /\ r \in Seq(Blocks) /\ Len(r) = n
          /\ \A i \in 1..n : r[i] = s[(n - i) + 1]
      BY <1>1, TurnedProperties DEF Reverse, Turned
    <3> HIDE DEF r
    <3>2. n \in Nat \ {0}
      BY <1>1, <1>4
    <3>3. r # <<>>
      BY <3>1, <3>2, EmptySeq
    <3>4. ASSUME NEW i \in 1..n - 1 PROVE nod_prev[r[i]] = r[i + 1]
      <4>1. i \in 1..n /\ i + 1 \in 1..n /\ n - i \in 1..n - 1 /\ (n - (i + 1)) + 1 = n - i
        BY <3>2
      <4>2. r[i] = s[(n - i) + 1] /\ r[i + 1] = s[n - i]
        BY <3>1, <4>1
      <4>3. nod_prev[s[(n - i) + 1]] = s[n - i]
        BY <4>1 DEF List, Chained
      <4> QED BY <4>2, <4>3
    <3>5. nod_prev[r[n]] = Nil /\ tail = r[1]
      <4>1. n \in 1..n /\ 1 \in 1..n /\ (n - n) + 1 = 1 /\ (n - 1) + 1 = n
        BY <3>2
      <4>2. r[n] = s[1] /\ r[1] = s[n]
        BY <3>1, <4>1
      <4> QED BY <2>1, <4>2 DEF List, Chained
    <3>6. Follows(nod_prev, r)
      BY <3>1, <3>3, <3>4, <3>5 DEF Follows
    <3>7. Len(r) <= MaxBlocks
      BY <1>2, <3>1
    <3> QED BY <3>5, <3>6, <3>7, ListVisitedIs DEF r
  <2> QED BY <2>2, <2>3, <2>4
<1> QED BY <1>1, <1>3, <1>4

\* The same in the next state.
LEMMA ContentsListedNext == ListInv' => ContentsAre'
  BY ContentsListed, PTL

(***************************************************************************)
(* What a thread's block changes.                                          *)
(***************************************************************************)
Gets(u, b) ==
  /\ at[u] \in {"idle", "fresh"} /\ at' = [at EXCEPT ![u] = "has"]
  /\ blk' = [blk EXCEPT ![u] = b]

Gives(u) ==
  /\ at[u] \in {"has", "push"} /\ at' = [at EXCEPT ![u] = "idle"]
  /\ blk' = [blk EXCEPT ![u] = Nil]

HandsTyped == at \in [Threads -> Labels] /\ blk \in [Threads -> Blocks \cup {Nil}]

\* Nil is not a block.
LEMMA NilApart == \A b \in Blocks : b # Nil
  BY ZAllocAssumption

\* A thread without a block gets one that no thread has.
LEMMA GetsBlock ==
  ASSUME ListTyped, Owned, IsFiniteSet(Holders), NEW u \in Threads, NEW b \in Blocks, Gets(u, b),
         \A v \in Threads : blk[v] # b
  PROVE  /\ HandsTyped' /\ Owned'
         /\ blk[u] = Nil /\ blk'[u] = b
         /\ \A v \in Threads : v # u => blk'[v] = blk[v] /\ at'[v] = at[v]
         /\ at'[u] = "has"
         /\ IsFiniteSet(Holders') /\ Cardinality(Holders') = Cardinality(Holders) + 1
<1>1. /\ blk'[u] = b /\ at'[u] = "has"
      /\ \A v \in Threads : v # u => blk'[v] = blk[v] /\ at'[v] = at[v]
  BY DEF Gets, ListTyped
<1>2. blk[u] = Nil
  BY DEF Owned, Gets
<1>3. HandsTyped'
  BY DEF Gets, ListTyped, HandsTyped, Labels
<1>4. Owned'
  <2>1. ASSUME NEW v \in Threads PROVE blk'[v] # Nil <=> at'[v] \in {"has", "push"}
    BY <1>1, NilApart DEF Owned
  <2>2. ASSUME NEW v \in Threads, NEW w \in Threads, blk'[v] = blk'[w], blk'[v] # Nil
        PROVE  v = w
    BY <1>1, <2>2 DEF Owned
  <2> QED BY <2>1, <2>2 DEF Owned
<1>5. Holders' = Holders \cup {u} /\ u \notin Holders
  BY <1>1, <1>2, NilApart DEF Holders
<1>6. IsFiniteSet(Holders') /\ Cardinality(Holders') = Cardinality(Holders) + 1
  BY <1>5, FS_AddElement
<1> QED BY <1>1, <1>2, <1>3, <1>4, <1>6

\* A thread gives its block away.
LEMMA GivesBlock ==
  ASSUME ListTyped, Owned, IsFiniteSet(Holders), NEW u \in Threads, Gives(u)
  PROVE  /\ HandsTyped' /\ Owned'
         /\ blk[u] \in Blocks /\ blk'[u] = Nil
         /\ \A v \in Threads : v # u => blk'[v] = blk[v] /\ at'[v] = at[v] /\ blk[v] # blk[u]
         /\ at'[u] = "idle"
         /\ IsFiniteSet(Holders') /\ Cardinality(Holders') = Cardinality(Holders) - 1
<1>1. /\ blk'[u] = Nil /\ at'[u] = "idle"
      /\ \A v \in Threads : v # u => blk'[v] = blk[v] /\ at'[v] = at[v]
  BY DEF Gives, ListTyped
<1>2. blk[u] \in Blocks /\ blk[u] # Nil
  BY DEF Owned, Gives, ListTyped
<1>3. HandsTyped'
  BY DEF Gives, ListTyped, HandsTyped, Labels
<1>4. Owned'
  <2>1. ASSUME NEW v \in Threads PROVE blk'[v] # Nil <=> at'[v] \in {"has", "push"}
    BY <1>1 DEF Owned
  <2>2. ASSUME NEW v \in Threads, NEW w \in Threads, blk'[v] = blk'[w], blk'[v] # Nil
        PROVE  v = w
    BY <1>1, <2>2 DEF Owned
  <2> QED BY <2>1, <2>2 DEF Owned
<1>5. \A v \in Threads : v # u => blk[v] # blk[u]
  BY <1>2 DEF Owned
<1>6. Holders' = Holders \ {u} /\ u \in Holders
  BY <1>1, <1>2 DEF Holders
<1>7. IsFiniteSet(Holders') /\ Cardinality(Holders') = Cardinality(Holders) - 1
  BY <1>6, FS_RemoveElement
<1> QED BY <1>1, <1>2, <1>3, <1>4, <1>5, <1>7

\* The same block in the same hands.
LEMMA KeepsBlock ==
  ASSUME ListTyped, Owned, UNCHANGED blk, NEW u \in Threads, NEW l \in Labels,
         at' = [at EXCEPT ![u] = l],
         at[u] \in {"has", "push"} <=> l \in {"has", "push"}
  PROVE  HandsTyped' /\ Owned' /\ Holders' = Holders
         /\ at'[u] = l /\ \A v \in Threads : v # u => at'[v] = at[v]
<1>1. at'[u] = l /\ \A v \in Threads : v # u => at'[v] = at[v]
  BY DEF ListTyped
<1>2. HandsTyped'
  BY DEF HandsTyped, ListTyped
<1>3. Owned'
  BY <1>1 DEF Owned
<1>4. Holders' = Holders
  BY DEF Holders
<1> QED BY <1>1, <1>2, <1>3, <1>4

\* A block that was never cut is nowhere.
LEMMA FreshBlock ==
  ASSUME Bounded, ListTyped, NEW s, List(s), NEW u \in Threads, CutBlock(u) \/ AddChunk(u)
  PROVE  /\ Cut \in Nat /\ Cut + 1 \in Blocks /\ Cut' = Cut + 1 /\ mem_end' \in 0..Capacity
         /\ Gets(u, Cut + 1)
         /\ \A v \in Threads : blk[v] # Cut + 1
         /\ ~In(s, Cut + 1) /\ ~In(rec_que, Cut + 1) /\ Cut + 1 # lost
<1>1. /\ chk_cnt \in Nat /\ Capacity \in Nat \ {0} /\ MaxMem \in Nat
      /\ mem_end \in 0..Capacity
  BY ZAllocAssumption DEF Bounded, ListTyped
<1>2. PICK c \in Nat : c = Capacity * chk_cnt
  BY <1>1
<1>3. Capacity * (chk_cnt + 1) = c + Capacity /\ Capacity * ((chk_cnt + 1) + 1) = c + 2 * Capacity
  BY <1>1, <1>2
<1>4. Cut = c + Capacity - mem_end /\ Cut \in Nat
  BY <1>1, <1>3 DEF Cut
<1>5. /\ MaxBlocks = MaxMem + 2 * Capacity /\ c + Capacity <= MaxBlocks
      /\ Cut' = Capacity * (chk_cnt' + 1) - mem_end'
  BY <1>3 DEF MaxBlocks, Bounded, MemoryBounded, Cut
<1>6. /\ Cut + 1 <= MaxBlocks /\ Cut' = Cut + 1 /\ mem_end' \in 0..Capacity
      /\ Gets(u, Cut + 1)
  <2>1. CASE CutBlock(u)
    <3>1. mem_end > 0 /\ mem_end' = mem_end - 1 /\ chk_cnt' = chk_cnt /\ Gets(u, Cut + 1)
      BY <2>1 DEF CutBlock, Step, Holds, Gets
    <3>2. Capacity * (chk_cnt' + 1) = c + Capacity
      BY <1>3, <3>1, Zenon
    <3>3. Cut' = c + Capacity - mem_end'
      BY <1>1, <1>5, <3>1, <3>2
    <3> QED BY <1>1, <1>4, <1>5, <3>1, <3>3
  <2>2. CASE AddChunk(u)
    <3>1. /\ mem_end = 0 /\ MaxMem >= c /\ mem_end' = Capacity - 1 /\ chk_cnt' = chk_cnt + 1
          /\ Gets(u, Cut + 1)
      BY <1>2, <2>2 DEF AddChunk, Step, Holds, Gets
    <3>2. Capacity * (chk_cnt' + 1) = c + 2 * Capacity
      BY <1>3, <3>1, Zenon
    <3>3. Cut' = c + 2 * Capacity - mem_end'
      BY <1>1, <1>5, <3>1, <3>2
    <3> QED BY <1>1, <1>4, <1>5, <3>1, <3>3
  <2> QED BY <2>1, <2>2
<1>7. Cut + 1 \in Blocks /\ ~(Cut + 1 <= Cut)
  BY <1>1, <1>4, <1>6 DEF Blocks, MaxBlocks
<1>8. ~In(s, Cut + 1) /\ ~In(rec_que, Cut + 1) /\ Cut + 1 # lost /\ \A v \in Threads : blk[v] # Cut + 1
  BY <1>7 DEF List, Placed
<1> QED BY <1>4, <1>6, <1>7, <1>8

(***************************************************************************)
(* The steps of the allocator: the list stays what it is.                  *)
(***************************************************************************)
ListKept(s) == ListTyped /\ Owned /\ List(s)

\* What the provers need to know of the sequences.
LEMMA ListFacts ==
  ASSUME NEW s, ListKept(s)
  PROVE  /\ s \in Seq(Blocks) /\ Len(s) \in Nat /\ Distinct(s)
         /\ \A i \in 1..Len(s) : s[i] \in Blocks /\ In(s, s[i])
         /\ rec_que \in Seq(Blocks) /\ Len(rec_que) \in Nat /\ Distinct(rec_que)
         /\ IsFiniteSet(Holders) /\ Cardinality(Holders) \in Nat /\ Losses \in Nat
  BY LenProperties, ElementOfSeq, FS_CardinalityType
     DEF ListKept, List, ListTyped, Placed, Counted, In, Losses

\* The chain stays if its ends and its links do.
LEMMA ChainStays ==
  ASSUME NEW s, ListKept(s), UNCHANGED endsVars,
         \A i \in 1..Len(s) : /\ nod_next'[s[i]] = nod_next[s[i]]
                              /\ nod_prev'[s[i]] = nod_prev[s[i]]
  PROVE  Chained(s)'
<1>1. UNCHANGED <<head, tail, list_size>>
  BY DEF endsVars
<1>2. Len(s) \in Nat /\ (s # <<>> => 1 \in 1..Len(s) /\ Len(s) \in 1..Len(s))
  BY EmptySeq, ListFacts
<1>3. \A i \in 1..Len(s) - 1 : i \in 1..Len(s) /\ i + 1 \in 1..Len(s)
  BY <1>2
<1> QED BY <1>1, <1>2, <1>3 DEF ListKept, List, Chained

\* Nothing moves.
LEMMA AllocQuietStep ==
  ASSUME NEW s, ListKept(s), UNCHANGED <<allocVars, endsVars, nodVars>>
  PROVE  ListKept(s)'
  BY DEF allocVars, memVars, userVars, endsVars, nodVars, ListKept, ListTyped, Owned, List,
         Placed, Counted, Clean, Chained, Cut, Holders, Losses

\* A block goes from the recycle queue to a thread.
LEMMA PopRecycledStep ==
  ASSUME NEW s, ListKept(s), NEW u \in Threads, PopRecycled(u),
         UNCHANGED <<endsVars, nodVars>>
  PROVE  ListKept(s)'
<1> DEFINE b == rec_que[1]
           r == Tail(rec_que)
<1>1. rec_que # <<>> /\ rec_que' = r /\ Gets(u, b) /\ UNCHANGED <<mem_end, chk_cnt, lost, written>>
  BY DEF PopRecycled, Step, Holds, Gets, memVars
<1>2. /\ Len(rec_que) \in Nat \ {0} /\ b \in Blocks /\ In(rec_que, b)
      /\ r \in Seq(Blocks) /\ Len(r) = Len(rec_que) - 1 /\ Distinct(r)
      /\ \A c : In(r, c) <=> (In(rec_que, c) /\ c # b)
  BY <1>1, TailDistinct, ListFacts
<1> HIDE DEF b, r
<1>3. \A v \in Threads : blk[v] # b
  BY <1>2 DEF ListKept, List, Placed
<1>4. ~In(s, b)
  BY <1>2 DEF ListKept, List, Placed
<1>5. /\ HandsTyped' /\ Owned'
      /\ blk[u] = Nil /\ blk'[u] = b
      /\ \A v \in Threads : v # u => blk'[v] = blk[v] /\ at'[v] = at[v]
      /\ at'[u] = "has"
      /\ IsFiniteSet(Holders') /\ Cardinality(Holders') = Cardinality(Holders) + 1
  BY <1>1, <1>2, <1>3, GetsBlock, ListFacts DEF ListKept
<1>6. Cut' = Cut /\ Losses' = Losses
  BY <1>1 DEF Cut, Losses
<1>7. Placed(s)'
  <2>1. Distinct(s) /\ Distinct(rec_que')
    BY <1>1, <1>2, ListFacts
  <2>2. ASSUME NEW c \in Blocks
        PROVE  /\ c <= Cut <=> \/ In(s, c) \/ In(rec_que', c) \/ c = lost'
                               \/ \E v \in Threads : blk'[v] = c
               /\ ~(In(s, c) /\ In(rec_que', c))
               /\ c = lost' => /\ ~In(s, c) /\ ~In(rec_que', c)
                               /\ \A v \in Threads : blk'[v] # c
    <3>1. (\E v \in Threads : blk'[v] = c) <=> ((\E v \in Threads : blk[v] = c) \/ c = b)
      BY <1>5, NilApart
    <3> QED BY <1>1, <1>2, <3>1 DEF ListKept, List, Placed
  <2>3. ASSUME NEW v \in Threads PROVE ~In(s, blk'[v]) /\ ~In(rec_que', blk'[v])
    BY <1>1, <1>2, <1>4, <1>5 DEF ListKept, List, Placed
  <2> QED BY <1>6, <2>1, <2>2, <2>3 DEF Placed
<1>8. Counted(s)'
  <2>1. Cut = Len(s) + Len(rec_que) + Cardinality(Holders) + Losses
    BY DEF ListKept, List, Counted
  <2>2. Len(rec_que') = Len(rec_que) - 1
    BY <1>1, <1>2
  <2>3. Len(s) \in Nat /\ Cardinality(Holders) \in Nat /\ Losses \in Nat
    BY ListFacts
  <2>4. Len(s) + Len(rec_que') + Cardinality(Holders') + Losses = Cut
    BY <1>2, <1>5, <2>1, <2>2, <2>3
  <2> QED BY <1>5, <1>6, <2>4 DEF Counted
<1>9. Clean(s)'
  BY <1>1, <1>2, <1>5 DEF ListKept, List, Clean
<1>10. Chained(s)'
  BY ChainStays DEF nodVars
<1>11. ListTyped'
  BY <1>1, <1>2, <1>5 DEF ListKept, ListTyped, HandsTyped, endsVars, nodVars
<1> QED BY <1>5, <1>7, <1>8, <1>9, <1>10, <1>11 DEF ListKept, List

\* A block that was never used goes to a thread.
LEMMA FreshStep ==
  ASSUME Bounded, NEW s, ListKept(s), NEW u \in Threads, CutBlock(u) \/ AddChunk(u),
         UNCHANGED <<endsVars, nodVars>>
  PROVE  ListKept(s)'
<1> DEFINE b == Cut + 1
<1>1. /\ Cut \in Nat /\ b \in Blocks /\ Cut' = b /\ mem_end' \in 0..Capacity
      /\ Gets(u, b) /\ b # lost
      /\ \A v \in Threads : blk[v] # b
      /\ ~In(s, b) /\ ~In(rec_que, b)
  BY FreshBlock DEF ListKept
<1>2. UNCHANGED <<rec_que, lost, written>>
  BY DEF CutBlock, AddChunk
<1>3. /\ HandsTyped' /\ Owned'
      /\ blk[u] = Nil /\ blk'[u] = b
      /\ \A v \in Threads : v # u => blk'[v] = blk[v] /\ at'[v] = at[v]
      /\ at'[u] = "has"
      /\ IsFiniteSet(Holders') /\ Cardinality(Holders') = Cardinality(Holders) + 1
  BY <1>1, GetsBlock, ListFacts DEF ListKept
<1>4. \A c \in Blocks : c <= b <=> (c <= Cut \/ c = b)
  BY <1>1 DEF Blocks
<1>5. b = Cut + 1
  OBVIOUS
<1> HIDE DEF b
<1>6. Placed(s)'
  <2>1. ASSUME NEW c \in Blocks
        PROVE  /\ c <= Cut' <=> \/ In(s, c) \/ In(rec_que, c) \/ c = lost
                                \/ \E v \in Threads : blk'[v] = c
               /\ c = lost => /\ ~In(s, c) /\ ~In(rec_que, c)
                              /\ \A v \in Threads : blk'[v] # c
    <3>1. (\E v \in Threads : blk'[v] = c) <=> ((\E v \in Threads : blk[v] = c) \/ c = b)
      BY <1>3, NilApart
    <3>2. /\ c <= Cut <=> \/ In(s, c) \/ In(rec_que, c) \/ c = lost
                          \/ \E v \in Threads : blk[v] = c
          /\ c = lost => c <= Cut /\ ~In(s, c) /\ ~In(rec_que, c)
                         /\ \A v \in Threads : blk[v] # c
      BY DEF ListKept, List, Placed
    <3>3. c <= Cut' <=> (c <= Cut \/ c = b)
      BY <1>1, <1>4
    <3> QED BY <1>1, <3>1, <3>2, <3>3
  <2>2. ASSUME NEW v \in Threads PROVE ~In(s, blk'[v]) /\ ~In(rec_que, blk'[v])
    BY <1>1, <1>3 DEF ListKept, List, Placed
  <2> QED BY <1>2, <2>1, <2>2 DEF ListKept, List, Placed
<1>7. Counted(s)'
  <2>1. Cut = Len(s) + Len(rec_que) + Cardinality(Holders) + Losses
    BY DEF ListKept, List, Counted
  <2>2. Len(s) \in Nat /\ Len(rec_que) \in Nat /\ Cardinality(Holders) \in Nat /\ Losses \in Nat
    BY ListFacts
  <2>3. Len(s) + Len(rec_que) + Cardinality(Holders') + Losses = Cut'
    BY <1>1, <1>3, <1>5, <2>1, <2>2
  <2>4. Losses' = Losses
    BY <1>2 DEF Losses
  <2> QED BY <1>2, <1>3, <2>3, <2>4 DEF Counted
<1>8. Clean(s)'
  BY <1>2, <1>3 DEF ListKept, List, Clean
<1>9. Chained(s)'
  BY ChainStays DEF nodVars
<1>10. ListTyped'
  BY <1>1, <1>2, <1>3 DEF ListKept, ListTyped, HandsTyped, endsVars, nodVars
<1> QED BY <1>3, <1>6, <1>7, <1>8, <1>9, <1>10 DEF ListKept, List

\* The steps that leave every block where it is.
LEMMA StayStep ==
  ASSUME NEW s, ListKept(s), UNCHANGED <<memVars, rec_que, blk, lost, endsVars>>,
         NEW u \in Threads, NEW l \in Labels, at' = [at EXCEPT ![u] = l],
         at[u] \in {"has", "push"} <=> l \in {"has", "push"},
         written' \subseteq written, \A b \in Blocks : In(s, b) => b \in written',
         l = "push" => blk[u] \notin written',
         nod_next' \in [Blocks -> Blocks \cup {Nil}], nod_prev' \in [Blocks -> Blocks \cup {Nil}],
         \A i \in 1..Len(s) : /\ nod_next'[s[i]] = nod_next[s[i]]
                              /\ nod_prev'[s[i]] = nod_prev[s[i]]
  PROVE  ListKept(s)'
<1>1. /\ HandsTyped' /\ Owned' /\ Holders' = Holders
      /\ at'[u] = l /\ \A v \in Threads : v # u => at'[v] = at[v]
  BY KeepsBlock DEF ListKept
<1>2. Cut' = Cut
  BY DEF memVars, Cut
<1>3. Placed(s)' /\ Counted(s)'
  BY <1>1, <1>2 DEF ListKept, List, Placed, Counted, Losses
<1>4. Clean(s)'
  BY <1>1 DEF ListKept, List, Clean
<1>5. Chained(s)'
  BY ChainStays
<1>6. ListTyped'
  BY <1>1 DEF ListKept, ListTyped, HandsTyped, endsVars, memVars
<1> QED BY <1>1, <1>3, <1>4, <1>5, <1>6 DEF ListKept, List

\* A thread finds no recycled block, or gets none at all.
LEMMA WaitingStep ==
  ASSUME NEW s, ListKept(s), NEW u \in Threads, RecycledEmpty(u) \/ PopFails(u),
         UNCHANGED <<endsVars, nodVars>>
  PROVE  ListKept(s)'
<1>1. \A b \in Blocks : In(s, b) => b \in written
  BY DEF ListKept, List, Clean
<1>2. UNCHANGED <<memVars, rec_que, blk, lost, endsVars, written, nod_next, nod_prev>>
  BY DEF RecycledEmpty, PopFails, nodVars
<1>3. \E l \in {"idle", "fresh"} : at' = [at EXCEPT ![u] = l] /\ at[u] \in {"idle", "fresh"}
  BY DEF RecycledEmpty, PopFails, Step
<1>4. PICK l \in {"idle", "fresh"} : at' = [at EXCEPT ![u] = l] /\ at[u] \in {"idle", "fresh"}
  BY <1>3
<1>5. /\ nod_next' \in [Blocks -> Blocks \cup {Nil}]
        /\ nod_prev' \in [Blocks -> Blocks \cup {Nil}]
      /\ l \in Labels
  BY <1>2 DEF ListKept, ListTyped, Labels
<1>6. at[u] \in {"has", "push"} <=> l \in {"has", "push"}
  BY <1>4
<1>7. written' \subseteq written /\ \A b \in Blocks : In(s, b) => b \in written'
  BY <1>1, <1>2
<1> QED BY <1>2, <1>4, <1>5, <1>6, <1>7, StayStep

\* The links that are cleared are those of a block outside of the list.
LEMMA ClearStep ==
  ASSUME NEW s, ListKept(s), NEW u \in Threads, Clear(u), UNCHANGED endsVars,
         nod_next' = [nod_next EXCEPT ![blk[u]] = Nil],
         nod_prev' = [nod_prev EXCEPT ![blk[u]] = Nil]
  PROVE  ListKept(s)'
<1>1. /\ UNCHANGED <<memVars, rec_que, blk, lost>> /\ at[u] = "has"
      /\ at' = [at EXCEPT ![u] = "push"] /\ written' = written \ {blk[u]}
  BY DEF Clear, Step
<1>2. ~In(s, blk[u])
  BY DEF ListKept, List, Placed
<1>3. \A b \in Blocks : In(s, b) => b \in written'
  BY <1>1, <1>2 DEF ListKept, List, Clean
<1>4. /\ nod_next' \in [Blocks -> Blocks \cup {Nil}]
        /\ nod_prev' \in [Blocks -> Blocks \cup {Nil}]
      /\ \A b \in Blocks : b # blk[u] => nod_next'[b] = nod_next[b] /\ nod_prev'[b] = nod_prev[b]
  BY DEF ListKept, ListTyped
<1>5. \A i \in 1..Len(s) : /\ nod_next'[s[i]] = nod_next[s[i]]
                           /\ nod_prev'[s[i]] = nod_prev[s[i]]
  <2>1. \A i \in 1..Len(s) : s[i] \in Blocks /\ In(s, s[i])
    BY ListFacts
  <2> QED BY <1>2, <1>4, <2>1
<1>6. /\ "push" \in Labels /\ (at[u] \in {"has", "push"} <=> "push" \in {"has", "push"})
      /\ blk[u] \notin written' /\ written' \subseteq written
  BY <1>1 DEF Labels
<1> QED BY <1>1, <1>3, <1>4, <1>5, <1>6, StayStep

\* A block goes from a thread to the recycle queue.
LEMMA PushBlockStep ==
  ASSUME NEW s, ListKept(s), NEW u \in Threads, PushBlock(u),
         UNCHANGED <<endsVars, nodVars>>
  PROVE  ListKept(s)'
<1> DEFINE b == blk[u]
           r == Append(rec_que, b)
<1>1. /\ rec_que' = r /\ Gives(u) /\ at[u] = "push" /\ UNCHANGED <<mem_end, chk_cnt, lost, written>>
  BY DEF PushBlock, Step, Holds, Gives, memVars
<1>2. /\ HandsTyped' /\ Owned'
      /\ b \in Blocks /\ blk'[u] = Nil
      /\ \A v \in Threads : v # u => blk'[v] = blk[v] /\ at'[v] = at[v] /\ blk[v] # b
      /\ at'[u] = "idle"
      /\ IsFiniteSet(Holders') /\ Cardinality(Holders') = Cardinality(Holders) - 1
  BY <1>1, GivesBlock, ListFacts DEF ListKept
<1>3. ~In(s, b) /\ ~In(rec_que, b) /\ b \notin written
  BY <1>1 DEF ListKept, List, Placed, Clean
<1>4. /\ r \in Seq(Blocks) /\ Len(r) = Len(rec_que) + 1 /\ Distinct(r)
      /\ \A c : In(r, c) <=> (In(rec_que, c) \/ c = b)
  BY <1>2, <1>3, AppendDistinct, ListFacts
<1>5. ~In(s, Nil) /\ ~In(r, Nil)
  <2>1. \A q \in Seq(Blocks) : ~In(q, Nil)
    BY ElementOfSeq, NilApart DEF In
  <2> HIDE DEF r
  <2> QED BY <1>4, <2>1, ListFacts
<1>6. \E v \in Threads : blk[v] = b
  OBVIOUS
<1> HIDE DEF b, r
<1>7. Cut' = Cut /\ Losses' = Losses
  BY <1>1 DEF Cut, Losses
<1>8. Placed(s)'
  <2>1. Distinct(s) /\ Distinct(rec_que')
    BY <1>1, <1>4, ListFacts
  <2>2. ASSUME NEW c \in Blocks
        PROVE  /\ c <= Cut <=> \/ In(s, c) \/ In(rec_que', c) \/ c = lost'
                               \/ \E v \in Threads : blk'[v] = c
               /\ ~(In(s, c) /\ In(rec_que', c))
               /\ c = lost' => /\ ~In(s, c) /\ ~In(rec_que', c)
                               /\ \A v \in Threads : blk'[v] # c
    <3>1. (\E v \in Threads : blk'[v] = c) <=> ((\E v \in Threads : blk[v] = c) /\ c # b)
      BY <1>2, NilApart DEF b
    <3> QED BY <1>1, <1>3, <1>4, <1>6, <3>1 DEF ListKept, List, Placed
  <2>3. ASSUME NEW v \in Threads PROVE ~In(s, blk'[v]) /\ ~In(rec_que', blk'[v])
    BY <1>1, <1>2, <1>4, <1>5 DEF ListKept, List, Placed
  <2> QED BY <1>7, <2>1, <2>2, <2>3 DEF Placed
<1>9. Counted(s)'
  <2>1. Cut = Len(s) + Len(rec_que) + Cardinality(Holders) + Losses
    BY DEF ListKept, List, Counted
  <2>2. Len(rec_que') = Len(rec_que) + 1
    BY <1>1, <1>4
  <2>3. Len(s) \in Nat /\ Len(rec_que) \in Nat /\ Cardinality(Holders) \in Nat /\ Losses \in Nat
    BY ListFacts
  <2>4. Len(s) + Len(rec_que') + Cardinality(Holders') + Losses = Cut
    BY <1>2, <2>1, <2>2, <2>3
  <2> QED BY <1>2, <1>7, <2>4 DEF Counted
<1>10. Clean(s)'
  BY <1>1, <1>2, <1>3, <1>4 DEF ListKept, List, Clean
<1>11. Chained(s)'
  BY ChainStays DEF nodVars
<1>12. ListTyped'
  BY <1>1, <1>2, <1>4 DEF ListKept, ListTyped, HandsTyped, endsVars, nodVars
<1> QED BY <1>2, <1>8, <1>9, <1>10, <1>11, <1>12 DEF ListKept, List

\* A block goes from a thread to nowhere: the first one that does.
LEMMA PushBlockFailsStep ==
  ASSUME NEW s, ListKept(s), NEW u \in Threads, PushBlockFails(u),
         UNCHANGED <<endsVars, nodVars>>
  PROVE  ListKept(s)'
<1> DEFINE b == blk[u]
<1>1. /\ lost = Nil /\ lost' = b /\ Gives(u)
      /\ UNCHANGED <<mem_end, chk_cnt, rec_que, written>>
  BY DEF PushBlockFails, Step, Holds, Gives, memVars
<1>2. /\ HandsTyped' /\ Owned'
      /\ b \in Blocks /\ b # Nil /\ blk'[u] = Nil
      /\ \A v \in Threads : v # u => blk'[v] = blk[v] /\ at'[v] = at[v] /\ blk[v] # b
      /\ at'[u] = "idle"
      /\ IsFiniteSet(Holders') /\ Cardinality(Holders') = Cardinality(Holders) - 1
  BY <1>1, GivesBlock, ListFacts, NilApart DEF ListKept
<1>3. ~In(s, b) /\ ~In(rec_que, b)
  BY DEF ListKept, List, Placed
<1>4. ~In(s, Nil) /\ ~In(rec_que, Nil)
  <2>1. \A q \in Seq(Blocks) : ~In(q, Nil)
    BY ElementOfSeq, NilApart DEF In
  <2> QED BY <2>1, ListFacts
<1>5. \E v \in Threads : blk[v] = b
  OBVIOUS
<1> HIDE DEF b
<1>6. Cut' = Cut /\ Losses = 0 /\ Losses' = 1
  BY <1>1, <1>2 DEF Cut, Losses
<1>7. Placed(s)'
  <2>1. ASSUME NEW c \in Blocks
        PROVE  /\ c <= Cut <=> \/ In(s, c) \/ In(rec_que, c) \/ c = b
                               \/ \E v \in Threads : blk'[v] = c
               /\ c = b => \A v \in Threads : blk'[v] # c
    <3>1. (\E v \in Threads : blk'[v] = c) <=> ((\E v \in Threads : blk[v] = c) /\ c # b)
      BY <1>2, NilApart DEF b
    <3>2. c # lost
      BY <1>1, NilApart
    <3> QED BY <1>5, <3>1, <3>2 DEF ListKept, List, Placed
  <2>2. ASSUME NEW v \in Threads PROVE ~In(s, blk'[v]) /\ ~In(rec_que, blk'[v])
    BY <1>2, <1>4 DEF ListKept, List, Placed
  <2> QED BY <1>1, <1>3, <1>6, <2>1, <2>2 DEF ListKept, List, Placed
<1>8. Counted(s)'
  <2>1. Cut = Len(s) + Len(rec_que) + Cardinality(Holders) + Losses
    BY DEF ListKept, List, Counted
  <2>2. Len(s) \in Nat /\ Len(rec_que) \in Nat /\ Cardinality(Holders) \in Nat
    BY ListFacts
  <2>3. Cut' = Len(s) + Len(rec_que) + Cardinality(Holders') + Losses'
    BY <1>2, <1>6, <2>1, <2>2
  <2> QED BY <1>1, <1>2, <2>3 DEF Counted
<1>9. Clean(s)'
  BY <1>1, <1>2 DEF ListKept, List, Clean
<1>10. Chained(s)'
  BY ChainStays DEF nodVars
<1>11. ListTyped'
  BY <1>1, <1>2 DEF ListKept, ListTyped, HandsTyped, endsVars, nodVars
<1> QED BY <1>2, <1>7, <1>8, <1>9, <1>10, <1>11 DEF ListKept, List

\* All of them.
LEMMA AllocatorStep ==
  ASSUME Bounded, NEW s, ListKept(s), NEW u \in Threads, ListAllocator(u)
  PROVE  ListKept(s)'
<1>1. UNCHANGED endsVars
  BY DEF ListAllocator
<1>2. at[u] # "has" => UNCHANGED nodVars
  BY DEF ListAllocator, nodVars
<1>3. CASE PopRecycled(u)
  BY <1>1, <1>2, <1>3, PopRecycledStep DEF PopRecycled, Step
<1>4. CASE CutBlock(u) \/ AddChunk(u)
  BY <1>1, <1>2, <1>4, FreshStep DEF CutBlock, AddChunk, Step
<1>5. CASE RecycledEmpty(u) \/ PopFails(u)
  BY <1>1, <1>2, <1>5, WaitingStep DEF RecycledEmpty, PopFails, Step
<1>6. CASE Clear(u)
  <2>1. /\ nod_next' = [nod_next EXCEPT ![blk[u]] = Nil]
        /\ nod_prev' = [nod_prev EXCEPT ![blk[u]] = Nil]
    BY <1>6 DEF ListAllocator, Clear, Step
  <2> QED BY <1>1, <1>6, <2>1, ClearStep
<1>7. CASE PushBlock(u)
  BY <1>1, <1>2, <1>7, PushBlockStep DEF PushBlock, Step
<1>8. CASE PushBlockFails(u)
  BY <1>1, <1>2, <1>8, PushBlockFailsStep DEF PushBlockFails, Step
<1>9. CASE PushBehind(u)
  <2>1. UNCHANGED <<allocVars, endsVars, nodVars>>
    BY <1>1, <1>2, <1>9 DEF PushBehind
  <2> QED BY <2>1, AllocQuietStep
<1> QED BY <1>3, <1>4, <1>5, <1>6, <1>7, <1>8, <1>9 DEF ListAllocator, Allocator

(***************************************************************************)
(* The calls of the list: a block goes into the list or leaves it.         *)
(***************************************************************************)
LEMMA GiveNodeStep ==
  ASSUME NEW s, ListKept(s), NEW u \in Threads, GiveNode(u),
         head' \in Blocks \cup {Nil}, tail' \in Blocks \cup {Nil},
         nod_next' \in [Blocks -> Blocks \cup {Nil}], nod_prev' \in [Blocks -> Blocks \cup {Nil}],
         NEW t \in Seq(Blocks), Len(t) = Len(s) + 1, Distinct(t),
         \A c : In(t, c) <=> (In(s, c) \/ c = blk[u]),
         Chained(t)'
  PROVE  ListKept(t)'
<1> DEFINE b == blk[u]
<1>1. /\ Gives(u) /\ at[u] = "has" /\ written' = written \cup {b}
      /\ UNCHANGED <<mem_end, chk_cnt, rec_que, lost>>
  BY DEF GiveNode, Step, Holds, Gives, memVars
<1>2. /\ HandsTyped' /\ Owned'
      /\ b \in Blocks /\ blk'[u] = Nil
      /\ \A v \in Threads : v # u => blk'[v] = blk[v] /\ at'[v] = at[v] /\ blk[v] # b
      /\ at'[u] = "idle"
      /\ IsFiniteSet(Holders') /\ Cardinality(Holders') = Cardinality(Holders) - 1
  BY <1>1, GivesBlock, ListFacts DEF ListKept
<1>3. ~In(s, b) /\ ~In(rec_que, b)
  BY DEF ListKept, List, Placed
<1>4. ~In(t, Nil) /\ ~In(rec_que, Nil)
  <2>1. \A q \in Seq(Blocks) : ~In(q, Nil)
    BY ElementOfSeq, NilApart DEF In
  <2> QED BY <2>1, ListFacts
<1>5. \E v \in Threads : blk[v] = b
  OBVIOUS
<1>6. \A c : In(t, c) <=> (In(s, c) \/ c = b)
  OBVIOUS
<1> HIDE DEF b
<1>7. Cut' = Cut /\ Losses' = Losses
  BY <1>1 DEF Cut, Losses
<1>8. Placed(t)'
  <2>1. Distinct(t) /\ Distinct(rec_que')
    BY <1>1, ListFacts
  <2>2. ASSUME NEW c \in Blocks
        PROVE  /\ c <= Cut <=> \/ In(t, c) \/ In(rec_que', c) \/ c = lost'
                               \/ \E v \in Threads : blk'[v] = c
               /\ ~(In(t, c) /\ In(rec_que', c))
               /\ c = lost' => /\ ~In(t, c) /\ ~In(rec_que', c)
                               /\ \A v \in Threads : blk'[v] # c
    <3>1. (\E v \in Threads : blk'[v] = c) <=> ((\E v \in Threads : blk[v] = c) /\ c # b)
      BY <1>2, NilApart DEF b
    <3> QED BY <1>1, <1>3, <1>5, <1>6, <3>1 DEF ListKept, List, Placed
  <2>3. ASSUME NEW v \in Threads PROVE ~In(t, blk'[v]) /\ ~In(rec_que', blk'[v])
    BY <1>1, <1>2, <1>4, <1>6 DEF ListKept, List, Placed
  <2> QED BY <1>7, <2>1, <2>2, <2>3 DEF Placed
<1>9. Counted(t)'
  <2>1. Cut = Len(s) + Len(rec_que) + Cardinality(Holders) + Losses
    BY DEF ListKept, List, Counted
  <2>2. Len(s) \in Nat /\ Len(rec_que) \in Nat /\ Cardinality(Holders) \in Nat /\ Losses \in Nat
    BY ListFacts
  <2>3. Len(t) + Len(rec_que) + Cardinality(Holders') + Losses = Cut
    BY <1>2, <2>1, <2>2
  <2> QED BY <1>1, <1>2, <1>7, <2>3 DEF Counted
<1>10. Clean(t)'
  BY <1>1, <1>2, <1>3, <1>6 DEF ListKept, List, Clean
<1>11. ListTyped'
  <2>1. list_size' = list_size + 1 /\ list_size \in Nat
    BY DEF GiveNode, ListKept, ListTyped
  <2> QED BY <1>1, <1>2, <2>1 DEF ListKept, ListTyped, HandsTyped
<1> QED BY <1>2, <1>8, <1>9, <1>10, <1>11 DEF ListKept, List

\* A block goes from the list to a thread.
LEMMA TakeNodeStep ==
  ASSUME NEW s, ListKept(s), NEW u \in Threads, NEW b \in Blocks, TakeNode(u, b), In(s, b),
         head' \in Blocks \cup {Nil}, tail' \in Blocks \cup {Nil},
         nod_next' \in [Blocks -> Blocks \cup {Nil}], nod_prev' \in [Blocks -> Blocks \cup {Nil}],
         NEW t \in Seq(Blocks), Len(t) = Len(s) - 1, Distinct(t),
         \A c : In(t, c) <=> (In(s, c) /\ c # b),
         Chained(t)'
  PROVE  ListKept(t)'
<1>1. Gets(u, b) /\ UNCHANGED <<mem_end, chk_cnt, rec_que, lost, written>>
  BY DEF TakeNode, Step, Holds, Gets, memVars
<1>2. ~In(rec_que, b) /\ \A v \in Threads : blk[v] # b
  BY DEF ListKept, List, Placed
<1>3. /\ HandsTyped' /\ Owned'
      /\ blk[u] = Nil /\ blk'[u] = b
      /\ \A v \in Threads : v # u => blk'[v] = blk[v] /\ at'[v] = at[v]
      /\ at'[u] = "has"
      /\ IsFiniteSet(Holders') /\ Cardinality(Holders') = Cardinality(Holders) + 1
  BY <1>1, <1>2, GetsBlock, ListFacts DEF ListKept
<1>4. Cut' = Cut /\ Losses' = Losses
  BY <1>1 DEF Cut, Losses
<1>5. Placed(t)'
  <2>1. Distinct(t) /\ Distinct(rec_que')
    BY <1>1, ListFacts
  <2>2. ASSUME NEW c \in Blocks
        PROVE  /\ c <= Cut <=> \/ In(t, c) \/ In(rec_que', c) \/ c = lost'
                               \/ \E v \in Threads : blk'[v] = c
               /\ ~(In(t, c) /\ In(rec_que', c))
               /\ c = lost' => /\ ~In(t, c) /\ ~In(rec_que', c)
                               /\ \A v \in Threads : blk'[v] # c
    <3>1. (\E v \in Threads : blk'[v] = c) <=> ((\E v \in Threads : blk[v] = c) \/ c = b)
      BY <1>3, NilApart
    <3> QED BY <1>1, <3>1 DEF ListKept, List, Placed
  <2>3. ASSUME NEW v \in Threads PROVE ~In(t, blk'[v]) /\ ~In(rec_que', blk'[v])
    BY <1>1, <1>2, <1>3 DEF ListKept, List, Placed
  <2> QED BY <1>4, <2>1, <2>2, <2>3 DEF Placed
<1>6. Counted(t)'
  <2>1. Cut = Len(s) + Len(rec_que) + Cardinality(Holders) + Losses
    BY DEF ListKept, List, Counted
  <2>2. Len(s) \in Nat /\ Len(rec_que) \in Nat /\ Cardinality(Holders) \in Nat /\ Losses \in Nat
    BY ListFacts
  <2>3. Len(t) + Len(rec_que) + Cardinality(Holders') + Losses = Cut
    BY <1>3, <2>1, <2>2
  <2> QED BY <1>1, <1>3, <1>4, <2>3 DEF Counted
<1>7. Clean(t)'
  BY <1>1, <1>3 DEF ListKept, List, Clean
<1>8. ListTyped'
  <2>1. list_size' = list_size - 1 /\ list_size \in Nat /\ list_size > 0
    BY DEF TakeNode, ListKept, ListTyped
  <2> QED BY <1>1, <1>3, <2>1 DEF ListKept, ListTyped, HandsTyped
<1> QED BY <1>3, <1>5, <1>6, <1>7, <1>8 DEF ListKept, List

\* zlist_push appends the node to the chain.
LEMMA PushStep ==
  ASSUME NEW s, ListKept(s), NEW u \in Threads, ListPush(u), NEW t, t = Append(s, blk[u])
  PROVE  ListKept(t)' /\ blk[u] \in Blocks
<1> DEFINE b == blk[u]
           n == Len(s)
<1>1. /\ GiveNode(u) /\ at[u] = "has" /\ list_size' = list_size + 1 /\ tail' = b
      /\ list_size = n
  BY DEF ListPush, GiveNode, Step, ListKept, List, Chained
<1>2. b \in Blocks /\ ~In(s, b)
  BY <1>1 DEF ListKept, ListTyped, Owned, List, Placed
<1>3. /\ t \in Seq(Blocks) /\ Len(t) = n + 1 /\ Distinct(t) /\ t # <<>>
      /\ \A c : In(t, c) <=> (In(s, c) \/ c = b)
      /\ \A i \in 1..n : t[i] = s[i]
      /\ t[n + 1] = b
  <2>1. s \in Seq(Blocks) /\ Distinct(s)
    BY ListFacts
  <2>2. t = Append(s, b) /\ n = Len(s)
    OBVIOUS
  <2> HIDE DEF b, n
  <2> QED BY ONLY <1>2, <2>1, <2>2, AppendDistinct, AppendProperties
<1>4. /\ n \in Nat /\ \A i \in 1..n : s[i] \in Blocks /\ s[i] # b
      /\ \A i, j \in 1..n : s[i] = s[j] => i = j
      /\ nod_next \in [Blocks -> Blocks \cup {Nil}] /\ nod_prev \in [Blocks -> Blocks \cup {Nil}]
      /\ head \in Blocks \cup {Nil}
  BY <1>2, ListFacts DEF In, ListKept, ListTyped, Distinct
<1>5. CASE list_size = 0
  <2>1. n = 0
    BY <1>1, <1>5
  <2>2. head' = b /\ nod_prev'[b] = Nil /\ nod_next'[b] = Nil
        /\ nod_next' \in [Blocks -> Blocks \cup {Nil}]
        /\ nod_prev' \in [Blocks -> Blocks \cup {Nil}]
    BY <1>2, <1>4, <1>5 DEF ListPush
  <2>3. t[1] = b /\ Len(t) = 1
    BY <1>3, <2>1
  <2> HIDE DEF b, n
  <2>4. Chained(t)'
    BY <1>1, <2>1, <2>2, <2>3 DEF Chained
  <2> QED BY <1>1, <1>2, <1>3, <2>2, <2>4, GiveNodeStep DEF b, n
<1>6. CASE list_size # 0
  <2>1. n \in Nat \ {0} /\ n \in 1..n /\ 1 \in 1..n
    BY <1>1, <1>4, <1>6
  <2>2. s # <<>> /\ head = s[1] /\ nod_prev[s[1]] = Nil /\ tail = s[n]
    BY <2>1, EmptySeq, ListFacts DEF ListKept, List, Chained
  <2>3. /\ head' = head /\ nod_prev' = [nod_prev EXCEPT ![b] = tail]
        /\ nod_next' = [nod_next EXCEPT ![b] = Nil, ![tail] = b]
    BY <1>6 DEF ListPush
  <2>4. /\ tail \in Blocks /\ tail # b
        /\ nod_prev'[b] = tail /\ nod_next'[b] = Nil /\ nod_next'[tail] = b
        /\ \A c \in Blocks : c # b => nod_prev'[c] = nod_prev[c]
        /\ \A c \in Blocks : c # b /\ c # tail => nod_next'[c] = nod_next[c]
        /\ nod_next' \in [Blocks -> Blocks \cup {Nil}]
        /\ nod_prev' \in [Blocks -> Blocks \cup {Nil}]
    BY <1>2, <1>4, <2>1, <2>2, <2>3
  <2> HIDE DEF b
  <2>5. ASSUME NEW i \in 1..n PROVE nod_next'[t[i]] = t[i + 1] /\ nod_prev'[t[i + 1]] = t[i]
    <3>1. CASE i = n
      BY <1>3, <2>1, <2>2, <2>4, <3>1
    <3>2. CASE i # n
      <4>1. i \in 1..n - 1 /\ i + 1 \in 1..n
        BY <2>1, <3>2
      <4>2. nod_next[s[i]] = s[i + 1] /\ nod_prev[s[i + 1]] = s[i]
        BY <4>1 DEF ListKept, List, Chained
      <4>3. s[i] # tail
        BY <1>4, <2>1, <2>2, <3>2
      <4>4. t[i] = s[i] /\ t[i + 1] = s[i + 1]
        BY <1>3, <4>1
      <4>5. nod_next'[s[i]] = nod_next[s[i]] /\ nod_prev'[s[i + 1]] = nod_prev[s[i + 1]]
        BY <1>4, <2>4, <4>1, <4>3
      <4> QED BY <4>2, <4>4, <4>5
    <3> QED BY <3>1, <3>2
  <2>6. /\ head' = t[1] /\ nod_prev'[t[1]] = Nil
        /\ tail' = t[n + 1] /\ nod_next'[t[n + 1]] = Nil
    BY <1>1, <1>3, <1>4, <2>1, <2>2, <2>3, <2>4
  <2>7. list_size' = n + 1 /\ Len(t) = n + 1 /\ (n + 1) - 1 = n
    BY <1>1, <1>3, <1>4
  <2> HIDE DEF n
  <2>8. Chained(t)'
    BY <2>5, <2>6, <2>7 DEF Chained
  <2>9. /\ head' \in Blocks \cup {Nil} /\ tail' \in Blocks \cup {Nil}
        /\ t \in Seq(Blocks) /\ Distinct(t)
    BY <1>1, <1>2, <1>3, <1>4, <2>3
  <2>10. /\ blk[u] \in Blocks /\ Len(t) = Len(s) + 1
         /\ \A c : In(t, c) <=> (In(s, c) \/ c = blk[u])
    BY <1>2, <1>3 DEF b, n
  <2> QED BY <1>1, <2>4, <2>8, <2>9, <2>10, GiveNodeStep
<1> QED BY <1>2, <1>5, <1>6

\* zlist_push_front puts it before the chain.
LEMMA PushFrontStep ==
  ASSUME NEW s, ListKept(s), NEW u \in Threads, ListPushFront(u), NEW t, t = Cons(blk[u], s)
  PROVE  ListKept(t)' /\ blk[u] \in Blocks
<1> DEFINE b == blk[u]
           n == Len(s)
<1>1. /\ GiveNode(u) /\ at[u] = "has" /\ list_size' = list_size + 1 /\ head' = b
      /\ list_size = n
  BY DEF ListPushFront, GiveNode, Step, ListKept, List, Chained
<1>2. b \in Blocks /\ ~In(s, b)
  BY <1>1 DEF ListKept, ListTyped, Owned, List, Placed
<1>3. /\ t \in Seq(Blocks) /\ Len(t) = n + 1 /\ Distinct(t) /\ t # <<>>
      /\ \A c : In(t, c) <=> (In(s, c) \/ c = b)
      /\ \A i \in 1..n : t[i + 1] = s[i]
      /\ t[1] = b
  <2>1. s \in Seq(Blocks) /\ Distinct(s)
    BY ListFacts
  <2>2. t = Cons(b, s) /\ n = Len(s)
    OBVIOUS
  <2> HIDE DEF b, n
  <2> QED BY ONLY <1>2, <2>1, <2>2, ConsDistinct DEF Cons
<1>4. /\ n \in Nat /\ \A i \in 1..n : s[i] \in Blocks /\ s[i] # b
      /\ \A i, j \in 1..n : s[i] = s[j] => i = j
      /\ nod_next \in [Blocks -> Blocks \cup {Nil}] /\ nod_prev \in [Blocks -> Blocks \cup {Nil}]
      /\ tail \in Blocks \cup {Nil}
  BY <1>2, ListFacts DEF In, ListKept, ListTyped, Distinct
<1>5. CASE list_size = 0
  <2>1. n = 0
    BY <1>1, <1>5
  <2>2. tail' = b /\ nod_prev'[b] = Nil /\ nod_next'[b] = Nil
        /\ nod_next' \in [Blocks -> Blocks \cup {Nil}]
        /\ nod_prev' \in [Blocks -> Blocks \cup {Nil}]
    BY <1>2, <1>4, <1>5 DEF ListPushFront
  <2>3. t[1] = b /\ Len(t) = 1
    BY <1>3, <2>1
  <2> HIDE DEF b, n
  <2>4. Chained(t)'
    BY <1>1, <2>1, <2>2, <2>3 DEF Chained
  <2> QED BY <1>1, <1>2, <1>3, <2>2, <2>4, GiveNodeStep DEF b, n
<1>6. CASE list_size # 0
  <2>1. n \in Nat \ {0} /\ n \in 1..n /\ 1 \in 1..n
    BY <1>1, <1>4, <1>6
  <2>2. s # <<>> /\ head = s[1] /\ tail = s[n] /\ nod_next[s[n]] = Nil
    BY <2>1, EmptySeq, ListFacts DEF ListKept, List, Chained
  <2>3. /\ tail' = tail /\ nod_next' = [nod_next EXCEPT ![b] = head]
        /\ nod_prev' = [nod_prev EXCEPT ![b] = Nil, ![head] = b]
    BY <1>6 DEF ListPushFront
  <2>4. /\ head \in Blocks /\ head # b
        /\ nod_next'[b] = head /\ nod_prev'[b] = Nil /\ nod_prev'[head] = b
        /\ \A c \in Blocks : c # b => nod_next'[c] = nod_next[c]
        /\ \A c \in Blocks : c # b /\ c # head => nod_prev'[c] = nod_prev[c]
        /\ nod_next' \in [Blocks -> Blocks \cup {Nil}]
        /\ nod_prev' \in [Blocks -> Blocks \cup {Nil}]
    BY <1>2, <1>4, <2>1, <2>2, <2>3
  <2> HIDE DEF b
  <2>5. ASSUME NEW i \in 1..n PROVE nod_next'[t[i]] = t[i + 1] /\ nod_prev'[t[i + 1]] = t[i]
    <3>1. CASE i = 1
      <4>1. t[1 + 1] = s[1]
        BY <1>3, <2>1
      <4> QED BY <1>3, <2>1, <2>2, <2>4, <3>1, <4>1
    <3>2. CASE i # 1
      <4> DEFINE j == i - 1
      <4>1. j \in 1..n - 1 /\ j \in 1..n /\ i = j + 1 /\ i \in 1..n
        BY <2>1, <3>2
      <4>2. nod_next[s[j]] = s[j + 1] /\ nod_prev[s[j + 1]] = s[j]
        BY <4>1 DEF ListKept, List, Chained
      <4>3. s[i] # head
        BY <1>4, <2>1, <2>2, <3>2
      <4>4. t[j + 1] = s[j] /\ t[i + 1] = s[i]
        BY <1>3, <4>1
      <4>5. nod_next'[s[j]] = nod_next[s[j]] /\ nod_prev'[s[i]] = nod_prev[s[i]]
        BY <1>4, <2>4, <4>1, <4>3
      <4> HIDE DEF j
      <4> QED BY <4>1, <4>2, <4>4, <4>5
    <3> QED BY <3>1, <3>2
  <2>6. /\ head' = t[1] /\ nod_prev'[t[1]] = Nil
        /\ tail' = t[n + 1] /\ nod_next'[t[n + 1]] = Nil
    BY <1>1, <1>3, <1>4, <2>1, <2>2, <2>3, <2>4
  <2>7. list_size' = n + 1 /\ Len(t) = n + 1 /\ (n + 1) - 1 = n
    BY <1>1, <1>3, <1>4
  <2> HIDE DEF n
  <2>8. Chained(t)'
    BY <2>5, <2>6, <2>7 DEF Chained
  <2>9. /\ head' \in Blocks \cup {Nil} /\ tail' \in Blocks \cup {Nil}
        /\ t \in Seq(Blocks) /\ Distinct(t)
    BY <1>1, <1>2, <1>3, <1>4, <2>3
  <2>10. /\ blk[u] \in Blocks /\ Len(t) = Len(s) + 1
         /\ \A c : In(t, c) <=> (In(s, c) \/ c = blk[u])
    BY <1>2, <1>3 DEF b, n
  <2> QED BY <1>1, <2>4, <2>8, <2>9, <2>10, GiveNodeStep
<1> QED BY <1>2, <1>5, <1>6

\* The second and the last but one place of a chain.
LEMMA Positions ==
  \A m \in Nat \ {0} : m # 1 =>
    1 \in 1..m - 1 /\ m - 1 \in 1..m - 1 /\ 1 + 1 \in 1..m /\ (m - 1) + 1 = m
    /\ 1 \in 1..m /\ m - 1 \in 1..m
  OBVIOUS

\* zlist_pop takes the first node of the chain.
LEMMA PopStep ==
  ASSUME NEW s, ListKept(s), NEW u \in Threads, ListPop(u), NEW t, t = Tail(s)
  PROVE  ListKept(t)' /\ s # <<>> /\ popped' = s[1]
<1> DEFINE b == s[1]
           n == Len(s)
<1>1. list_size > 0 /\ list_size = n /\ list_size' = list_size - 1 /\ popped' = head
  BY DEF ListPop, TakeNode, ListKept, List, Chained
<1>2. s # <<>>
  BY <1>1, EmptySeq
<1>3. /\ n \in Nat \ {0} /\ b \in Blocks /\ In(s, b)
      /\ t \in Seq(Blocks) /\ Len(t) = n - 1 /\ Distinct(t)
      /\ \A i \in 1..n - 1 : t[i] = s[i + 1]
      /\ \A c : In(t, c) <=> (In(s, c) /\ c # b)
  BY <1>2, TailDistinct, ListFacts
<1>4. /\ \A i \in 1..n : s[i] \in Blocks
      /\ \A i, j \in 1..n : s[i] = s[j] => i = j
      /\ nod_next \in [Blocks -> Blocks \cup {Nil}] /\ nod_prev \in [Blocks -> Blocks \cup {Nil}]
  BY ListFacts DEF ListKept, ListTyped, Distinct
<1>5. head = b /\ tail = s[n] /\ nod_next[s[n]] = Nil
  BY <1>2 DEF ListKept, List, Chained
<1>6. /\ TakeNode(u, b) /\ head' = nod_next[b] /\ tail' = tail /\ nod_next' = nod_next
      /\ nod_prev' = IF head' = Nil THEN nod_prev ELSE [nod_prev EXCEPT ![head'] = Nil]
  BY <1>5 DEF ListPop
<1>7. /\ head' \in Blocks \cup {Nil} /\ tail \in Blocks
      /\ nod_prev' \in [Blocks -> Blocks \cup {Nil}]
  <2>1. n \in 1..n
    BY <1>3
  <2> QED BY <1>3, <1>4, <1>5, <1>6, <2>1
<1>8. n \in Nat \ {0}
  BY <1>3
<1>9. /\ TakeNode(u, s[1]) /\ s[1] \in Blocks /\ In(s, s[1])
      /\ t \in Seq(Blocks) /\ Len(t) = Len(s) - 1 /\ Distinct(t)
      /\ \A c : In(t, c) <=> (In(s, c) /\ c # s[1])
  BY <1>3, <1>6
<1>10. /\ head' \in Blocks \cup {Nil} /\ tail' \in Blocks \cup {Nil}
       /\ nod_next' \in [Blocks -> Blocks \cup {Nil}]
        /\ nod_prev' \in [Blocks -> Blocks \cup {Nil}]
  BY <1>4, <1>5, <1>6, <1>7
<1>11. CASE n = 1
  <2>1. t = <<>>
    BY <1>3, <1>11, EmptySeq
  <2>2. Chained(t)'
    BY <1>1, <1>3, <1>11, <2>1 DEF Chained
  <2>3. popped' = s[1]
    BY <1>1, <1>5
  <2> QED BY <1>2, <1>9, <1>10, <2>2, <2>3, TakeNodeStep
<1>12. CASE n # 1
  <2>1. 1 \in 1..n - 1 /\ n - 1 \in 1..n - 1 /\ 1 + 1 \in 1..n /\ (n - 1) + 1 = n /\ 1 \in 1..n
    BY ONLY <1>8, <1>12, Positions
  <2>2. t # <<>>
    <3>1. Len(t) = n - 1 /\ n - 1 # 0
      BY <1>8, <1>9, <1>12
    <3> QED BY ONLY <3>1, EmptyDistinct
  <2>3. head' = s[1 + 1]
    BY <1>6, <2>1 DEF ListKept, List, Chained
  <2>4. t[1] = s[1 + 1] /\ t[n - 1] = s[n]
    BY <1>3, <2>1
  <2>5. /\ head' \in Blocks /\ head' # Nil /\ nod_prev'[head'] = Nil
        /\ \A c \in Blocks : c # head' => nod_prev'[c] = nod_prev[c]
    BY <1>4, <1>6, <2>1, <2>3, NilApart
  <2>6. ASSUME NEW i \in 1..n - 2 PROVE nod_next'[t[i]] = t[i + 1] /\ nod_prev'[t[i + 1]] = t[i]
    <3>1. /\ i \in 1..n - 1 /\ i + 1 \in 1..n - 1 /\ i + 1 \in 1..n
          /\ (i + 1) + 1 \in 1..n /\ (i + 1) + 1 # 1 + 1
      BY <1>8
    <3>2. t[i] = s[i + 1] /\ t[i + 1] = s[(i + 1) + 1]
      BY <1>3, <3>1
    <3>3. nod_next[s[i + 1]] = s[(i + 1) + 1] /\ nod_prev[s[(i + 1) + 1]] = s[i + 1]
      BY <3>1 DEF ListKept, List, Chained
    <3>4. s[(i + 1) + 1] \in Blocks /\ s[(i + 1) + 1] # head'
      BY <1>4, <2>1, <2>3, <3>1
    <3>5. nod_prev'[s[(i + 1) + 1]] = nod_prev[s[(i + 1) + 1]]
      BY <2>5, <3>4
    <3> QED BY <1>6, <3>2, <3>3, <3>5
  <2>7. /\ head' = t[1] /\ nod_prev'[t[1]] = Nil
        /\ tail' = t[n - 1] /\ nod_next'[t[n - 1]] = Nil
    BY <1>5, <1>6, <2>3, <2>4, <2>5
  <2>8. list_size' = n - 1 /\ Len(t) = n - 1 /\ (n - 1) - 1 = n - 2
    BY <1>1, <1>3
  <2> HIDE DEF n
  <2>9. Chained(t)'
    BY <2>6, <2>7, <2>8 DEF Chained
  <2>10. popped' = s[1]
    BY <1>1, <1>5 DEF n
  <2> QED BY <1>2, <1>9, <1>10, <2>9, <2>10, TakeNodeStep
<1> QED BY <1>11, <1>12

\* zlist_pop_back takes the last one.
LEMMA PopBackStep ==
  ASSUME NEW s, ListKept(s), NEW u \in Threads, ListPopBack(u), NEW t, t = Front(s)
  PROVE  ListKept(t)' /\ s # <<>> /\ popped' = s[Len(s)]
<1> DEFINE n == Len(s)
           b == s[n]
<1>1. list_size > 0 /\ list_size = n /\ list_size' = list_size - 1 /\ popped' = tail
  BY DEF ListPopBack, TakeNode, ListKept, List, Chained
<1>2. s # <<>>
  BY <1>1, EmptySeq
<1>3. /\ n \in Nat \ {0} /\ b \in Blocks /\ In(s, b)
      /\ t \in Seq(Blocks) /\ Len(t) = n - 1 /\ Distinct(t)
      /\ \A i \in 1..n - 1 : t[i] = s[i]
      /\ \A c : In(t, c) <=> (In(s, c) /\ c # b)
  BY <1>2, FrontDistinct, ListFacts DEF Front
<1>4. /\ \A i \in 1..n : s[i] \in Blocks
      /\ \A i, j \in 1..n : s[i] = s[j] => i = j
      /\ nod_next \in [Blocks -> Blocks \cup {Nil}] /\ nod_prev \in [Blocks -> Blocks \cup {Nil}]
  BY ListFacts DEF ListKept, ListTyped, Distinct
<1>5. head = s[1] /\ tail = b /\ nod_prev[s[1]] = Nil
  BY <1>2 DEF ListKept, List, Chained
<1>6. /\ TakeNode(u, b) /\ tail' = nod_prev[b] /\ head' = head /\ nod_prev' = nod_prev
      /\ nod_next' = IF tail' = Nil THEN nod_next ELSE [nod_next EXCEPT ![tail'] = Nil]
  BY <1>5 DEF ListPopBack
<1>7. /\ tail' \in Blocks \cup {Nil} /\ head \in Blocks
      /\ nod_next' \in [Blocks -> Blocks \cup {Nil}]
  <2>1. 1 \in 1..n
    BY <1>3
  <2> QED BY <1>3, <1>4, <1>5, <1>6, <2>1
<1>8. n \in Nat \ {0}
  BY <1>3
<1>9. /\ TakeNode(u, s[Len(s)]) /\ s[Len(s)] \in Blocks /\ In(s, s[Len(s)])
      /\ t \in Seq(Blocks) /\ Len(t) = Len(s) - 1 /\ Distinct(t)
      /\ \A c : In(t, c) <=> (In(s, c) /\ c # s[Len(s)])
  BY <1>3, <1>6
<1>10. /\ head' \in Blocks \cup {Nil} /\ tail' \in Blocks \cup {Nil}
       /\ nod_next' \in [Blocks -> Blocks \cup {Nil}]
        /\ nod_prev' \in [Blocks -> Blocks \cup {Nil}]
  BY <1>4, <1>5, <1>6, <1>7
<1>11. CASE n = 1
  <2>1. t = <<>>
    BY <1>3, <1>11, EmptySeq
  <2>2. Chained(t)'
    BY <1>1, <1>3, <1>11, <2>1 DEF Chained
  <2>3. popped' = s[Len(s)]
    BY <1>1, <1>5
  <2> QED BY <1>2, <1>9, <1>10, <2>2, <2>3, TakeNodeStep
<1>12. CASE n # 1
  <2>1. 1 \in 1..n - 1 /\ n - 1 \in 1..n - 1 /\ (n - 1) + 1 = n /\ n - 1 \in 1..n
    BY ONLY <1>8, <1>12, Positions
  <2>2. t # <<>>
    <3>1. Len(t) = n - 1 /\ n - 1 # 0
      BY <1>8, <1>9, <1>12
    <3> QED BY ONLY <3>1, EmptyDistinct
  <2>3. tail' = s[n - 1]
    BY <1>6, <2>1 DEF ListKept, List, Chained
  <2>4. t[1] = s[1] /\ t[n - 1] = s[n - 1]
    BY <1>3, <2>1
  <2>5. /\ tail' \in Blocks /\ tail' # Nil /\ nod_next'[tail'] = Nil
        /\ \A c \in Blocks : c # tail' => nod_next'[c] = nod_next[c]
    BY <1>4, <1>6, <2>1, <2>3, NilApart
  <2>6. ASSUME NEW i \in 1..n - 2 PROVE nod_next'[t[i]] = t[i + 1] /\ nod_prev'[t[i + 1]] = t[i]
    <3>1. i \in 1..n - 1 /\ i + 1 \in 1..n - 1 /\ i \in 1..n /\ i # n - 1
      BY <1>8
    <3>2. t[i] = s[i] /\ t[i + 1] = s[i + 1]
      BY <1>3, <3>1
    <3>3. nod_next[s[i]] = s[i + 1] /\ nod_prev[s[i + 1]] = s[i]
      BY <3>1 DEF ListKept, List, Chained
    <3>4. s[i] \in Blocks /\ s[i] # tail'
      BY <1>4, <2>1, <2>3, <3>1
    <3>5. nod_next'[s[i]] = nod_next[s[i]]
      BY <2>5, <3>4
    <3> QED BY <1>6, <3>2, <3>3, <3>5
  <2>7. /\ head' = t[1] /\ nod_prev'[t[1]] = Nil
        /\ tail' = t[n - 1] /\ nod_next'[t[n - 1]] = Nil
    BY <1>5, <1>6, <2>3, <2>4, <2>5
  <2>8. list_size' = n - 1 /\ Len(t) = n - 1 /\ (n - 1) - 1 = n - 2
    BY <1>1, <1>3
  <2> HIDE DEF n
  <2>9. Chained(t)'
    BY <2>6, <2>7, <2>8 DEF Chained
  <2>10. popped' = s[Len(s)]
    BY <1>1, <1>5 DEF n
  <2> QED BY <1>2, <1>9, <1>10, <2>9, <2>10, TakeNodeStep
<1> QED BY <1>11, <1>12

(***************************************************************************)
(* Every step goes from a sequence of nodes to a sequence of nodes.        *)
(***************************************************************************)
LEMMA ListQuietStep ==
  ASSUME NEW s, ListKept(s), UNCHANGED listVars
  PROVE  ListKept(s)'
  BY AllocQuietStep DEF listVars

\* Whatever the step, there is a chain in the next state.
LEMMA NextKept ==
  ASSUME Bounded, NEW s, ListKept(s), [ListNext]_listVars
  PROVE  \E t : ListKept(t)'
<1>1. ASSUME NEW u \in Threads, ListAllocator(u) PROVE \E t : ListKept(t)'
  BY <1>1, AllocatorStep
<1>2. ASSUME NEW u \in Threads, ListPush(u) PROVE \E t : ListKept(t)'
  <2>1. PICK t : t = Append(s, blk[u])
    OBVIOUS
  <2> QED BY <1>2, <2>1, PushStep
<1>3. ASSUME NEW u \in Threads, ListPushFront(u) PROVE \E t : ListKept(t)'
  <2>1. PICK t : t = Cons(blk[u], s)
    OBVIOUS
  <2> QED BY <1>3, <2>1, PushFrontStep
<1>4. ASSUME NEW u \in Threads, ListPop(u) PROVE \E t : ListKept(t)'
  BY <1>4, PopStep
<1>5. ASSUME NEW u \in Threads, ListPopBack(u) PROVE \E t : ListKept(t)'
  BY <1>5, PopBackStep
<1>6. CASE UNCHANGED listVars
  BY <1>6, ListQuietStep
<1> QED BY <1>1, <1>2, <1>3, <1>4, <1>5, <1>6 DEF ListNext

\* What the last pop leaves behind stays until the next push.
LEMMA StaleHeadKept ==
  ASSUME NEW s, ListKept(s), StaleHead, [ListNext]_listVars
  PROVE  StaleHead'
<1>1. /\ head \in Blocks \cup {Nil} /\ list_size \in Nat
      /\ nod_next \in [Blocks -> Blocks \cup {Nil}]
  BY DEF ListKept, ListTyped
<1>2. ASSUME NEW u \in Threads, ListAllocator(u) PROVE StaleHead'
  BY <1>1, <1>2 DEF StaleHead, ListAllocator, endsVars
<1>3. ASSUME NEW u \in Threads, ListPush(u) \/ ListPushFront(u) PROVE StaleHead'
  BY <1>1, <1>3 DEF StaleHead, ListPush, ListPushFront, GiveNode
<1>4. ASSUME list_size = 1
      PROVE  head = tail /\ nod_next[head] = Nil /\ nod_prev[tail] = Nil
  <2>1. Len(s) = 1
    BY <1>4 DEF ListKept, List, Chained
  <2>2. s # <<>>
    <3>1. Len(s) # 0
      BY <2>1
    <3> QED BY ONLY <3>1, EmptyDistinct
  <2> QED BY <2>1, <2>2 DEF ListKept, List, Chained
<1>5. ASSUME NEW u \in Threads, ListPop(u) PROVE StaleHead'
  <2>1. list_size' = 0 => list_size = 1
    BY <1>1, <1>5 DEF ListPop, TakeNode
  <2> QED BY <1>4, <1>5, <2>1 DEF StaleHead, ListPop
<1>6. ASSUME NEW u \in Threads, ListPopBack(u) PROVE StaleHead'
  <2>1. list_size' = 0 => list_size = 1
    BY <1>1, <1>6 DEF ListPopBack, TakeNode
  <2> QED BY <1>4, <1>6, <2>1 DEF StaleHead, ListPopBack, TakeNode
<1>7. CASE UNCHANGED listVars
  BY <1>7 DEF StaleHead, listVars, endsVars, nodVars
<1> QED BY <1>2, <1>3, <1>5, <1>6, <1>7 DEF ListNext

\* The empty list.
LEMMA ListInitKept ==
  ASSUME ListInit
  PROVE  ListKept(<<>>)
<1>1. /\ mem_end = Capacity /\ chk_cnt = 0 /\ rec_que = <<>> /\ written = {} /\ lost = Nil
      /\ at = [u \in Threads |-> "idle"] /\ blk = [u \in Threads |-> Nil]
      /\ head = Nil /\ tail = Nil /\ list_size = 0
      /\ nod_next = [b \in Blocks |-> Nil] /\ nod_prev = [b \in Blocks |-> Nil]
  BY DEF ListInit, AllocInit
<1>2. Cut = 0
  <2>1. Capacity * (0 + 1) - Capacity = 0
    BY ZAllocAssumption
  <2> QED BY <1>1, <2>1, Zenon DEF Cut
<1>3. ListTyped
  BY <1>1, EmptyDistinct, ZAllocAssumption DEF ListTyped, Labels
<1>4. Owned
  BY <1>1 DEF Owned
<1>5. Holders = {}
  BY <1>1 DEF Holders
<1>6. Placed(<<>>)
  <2>1. \A b \in Blocks : ~(b <= 0)
    BY ZAllocAssumption DEF Blocks, MaxBlocks
  <2> QED BY <1>1, <1>2, <2>1, EmptyDistinct, NilApart DEF Placed
<1>7. Counted(<<>>)
  BY <1>1, <1>2, <1>5, EmptyDistinct, FS_EmptySet DEF Counted, Losses
<1>8. Clean(<<>>)
  BY <1>1, EmptyDistinct DEF Clean
<1>9. Chained(<<>>)
  BY <1>1, EmptyDistinct DEF Chained
<1> QED BY <1>3, <1>4, <1>6, <1>7, <1>8, <1>9, EmptyDistinct DEF ListKept, List

(***************************************************************************)
(* The theorems.                                                           *)
(***************************************************************************)
\* Some sequence of blocks is linked from head to tail, and every block that was cut from a
\* chunk is in it, in the recycle queue or with one thread (list.h:97-153, alloc.h:75-129).
THEOREM ListInductive == ListSpec => []ListInv
<1>1. ListInit => ListInv
  BY InitBounded, ListInitKept DEF ListInv, ListKept, ListInit, StaleHead
<1>2. ListInv /\ [ListNext]_listVars => ListInv'
  <2> SUFFICES ASSUME ListInv, [ListNext]_listVars
               PROVE  ListInv'
    OBVIOUS
  <2>1. PICK s : ListKept(s)
    BY DEF ListInv, ListKept
  <2>2. Bounded'
    BY NextBounded DEF ListInv
  <2>3. PICK t : ListKept(t)'
    BY <2>1, NextKept DEF ListInv
  <2>4. StaleHead'
    BY <2>1, StaleHeadKept DEF ListInv
  <2> QED BY <2>2, <2>3, <2>4 DEF ListInv, ListKept
<1> QED BY <1>1, <1>2, PTL DEF ListSpec

\* The links of both directions lead through the same nodes, for any number of threads and
\* nodes: walks and pops at both ends agree, and on an emptied list zlist_foreach visits
\* nothing or, after zlist_pop_back, the node that was popped (list.h:140-163).
THEOREM LinksOfBothDirections == ListSpec => []LinksAgree
<1>1. ListInv => LinksAgree
  <2> SUFFICES ASSUME ListInv PROVE LinksAgree
    OBVIOUS
  <2>1. PICK s : List(s)
    BY DEF ListInv
  <2>2. Contents = s /\ s \in Seq(Blocks) /\ list_size = Len(s)
    BY <2>1, ContentsListed DEF ContentsAre, List, Chained
  <2>3. ASSUME list_size > 0
        PROVE  ListForeach = Contents /\ Visited(nod_prev, tail) = Reverse(Contents)
    <3>1. s # <<>> /\ 1 \in 1..Len(s)
      BY <2>2, <2>3, EmptySeq, LenProperties
    <3>2. head # Nil
      BY <2>1, <2>2, <3>1, ElementOfSeq, NilApart DEF List, Chained
    <3> QED BY <2>1, <2>2, <2>3, <3>2, ContentsListed DEF ContentsAre, ListForeach
  <2>4. ASSUME list_size = 0 PROVE ListForeach \in {<<>>, <<popped>>}
    <3>1. CASE head = Nil
      BY <3>1 DEF ListForeach
    <3>2. CASE head # Nil
      <4>1. head = popped /\ nod_next[head] = Nil /\ head \in Blocks
        BY <2>4, <3>2 DEF ListInv, StaleHead, ListTyped
      <4>2. <<head>> \in Seq(Blocks) /\ Len(<<head>>) = 1 /\ <<head>>[1] = head
        BY <4>1
      <4>3. Follows(nod_next, <<head>>)
        BY <4>1, <4>2 DEF Follows
      <4>4. 1 <= MaxBlocks
        BY ZAllocAssumption DEF MaxBlocks
      <4>5. Visited(nod_next, head) = <<head>>
        BY <4>2, <4>3, <4>4, ListVisitedIs
      <4> QED BY <3>2, <4>1, <4>5 DEF ListForeach
    <3> QED BY <3>1, <3>2
  <2> QED BY <2>3, <2>4 DEF LinksAgree
<1> QED BY <1>1, ListInductive, PTL

\* No block is owned twice or handed out dirty, and at most one is lost, by a zalloc_push
\* that could not get a chunk, for any number of threads, any chunk size and any limit
\* (alloc.h:75-130).
THEOREM BlocksHaveOnePlace == ListSpec => []BlocksSound
<1>1. ListInv => BlocksSound
  <2> SUFFICES ASSUME ListInv PROVE BlocksSound
    OBVIOUS
  <2>1. PICK s : ListKept(s)
    BY DEF ListInv, ListKept
  <2>2. Contents = s
    BY <2>1, ContentsListed DEF ContentsAre, ListKept
  <2>3. /\ s \in Seq(Blocks) /\ rec_que \in Seq(Blocks)
        /\ DOMAIN s = 1..Len(s) /\ DOMAIN rec_que = 1..Len(rec_que)
    BY <2>1, ListFacts, LenProperties
  <2>4. /\ \A b : b \in ToSet(s) <=> In(s, b)
        /\ \A b : b \in ToSet(rec_que) <=> In(rec_que, b)
    BY <2>3 DEF ToSet, In
  <2>5. /\ \A b : In(s, b) => b \in Blocks
        /\ \A b : In(rec_que, b) => b \in Blocks
    BY <2>3, ElementOfSeq DEF In
  <2>6. \A b : b \in Held <=> b \in Blocks /\ \E u \in Threads : blk[u] = b
    BY NilApart DEF Held, ListInv, ListTyped
  <2>7. \A b : b \in 1..Cut <=> b \in Blocks /\ b <= Cut
    <3>1. Cut \in Nat /\ Cut <= MaxBlocks /\ MaxBlocks \in Nat
      BY CutBounded, ZAllocAssumption DEF ListInv, MaxBlocks
    <3> QED BY <3>1 DEF Blocks
  <2> DEFINE missing == {lost} \ {Nil}
  <2>8. 1..Cut = ToSet(s) \cup ToSet(rec_que) \cup Held \cup missing
    <3>1. \A b : b \in missing <=> b \in Blocks /\ b = lost
      BY NilApart DEF ListInv, ListTyped
    <3> HIDE DEF missing
    <3>2. ASSUME NEW b
          PROVE  b \in 1..Cut <=> b \in ToSet(s) \cup ToSet(rec_que) \cup Held \cup missing
      BY <2>1, <2>4, <2>5, <2>6, <2>7, <3>1 DEF ListKept, List, Placed
    <3> QED BY <3>2
  <2>9. ToSet(rec_que) \cap written = {} /\ ToSet(s) \subseteq written
    BY <2>1, <2>4, <2>5 DEF ListKept, List, Clean
  <2>10. Losses = Cardinality(missing)
    <3>1. CASE lost = Nil
      <4>1. missing = {}
        BY <3>1
      <4> QED BY <3>1, <4>1, FS_EmptySet DEF Losses
    <3>2. CASE lost # Nil
      <4>1. missing = {lost}
        BY <3>2
      <4> QED BY <3>2, <4>1, FS_Singleton DEF Losses
    <3> QED BY <3>1, <3>2
  <2>11. Cut = Len(s) + Len(rec_que) + Cardinality({u \in Threads : blk[u] # Nil})
               + Cardinality(missing)
    BY <2>1, <2>10 DEF ListKept, List, Counted, Holders
  <2> QED BY <2>2, <2>8, <2>9, <2>11, Zenon DEF BlocksSound
<1> QED BY <1>1, ListInductive, PTL

\* A call of the list is a call of Deque; allocation and release are not seen.
LEMMA ListCallsMap ==
  ASSUME ListInv, ListInv', [ListNext]_listVars
  PROVE  [ListDeque!Next]_<<Contents, popped>>
<1>1. PICK s : ListKept(s)
  BY DEF ListInv, ListKept
<1>2. Contents = s
  BY <1>1, ContentsListed DEF ContentsAre, ListKept
<1>3. \A t : ListKept(t)' => Contents' = t
  BY ContentsListedNext DEF ContentsAre, ListKept
<1>4. Bounded
  BY DEF ListInv
<1>5. s \in Seq(Blocks)
  BY <1>1, ListFacts
<1>6. ASSUME NEW u \in Threads, ListAllocator(u) PROVE UNCHANGED <<Contents, popped>>
  BY <1>1, <1>2, <1>3, <1>4, <1>6, AllocatorStep DEF ListAllocator
<1>7. ASSUME NEW u \in Threads, ListPush(u) PROVE ListDeque!Next
  <2>1. PICK t : t = Append(s, blk[u])
    OBVIOUS
  <2>2. Contents' = Append(Contents, blk[u]) /\ blk[u] \in Blocks
    BY <1>1, <1>2, <1>3, <1>7, <2>1, PushStep
  <2>3. popped' = popped
    BY <1>7 DEF ListPush, GiveNode
  <2> QED BY <2>2, <2>3 DEF ListDeque!Next, ListDeque!PutBack
<1>8. ASSUME NEW u \in Threads, ListPushFront(u) PROVE ListDeque!Next
  <2>1. PICK t : t = Cons(blk[u], s)
    OBVIOUS
  <2>2. Contents' = Cons(blk[u], Contents) /\ blk[u] \in Blocks
    BY <1>1, <1>2, <1>3, <1>8, <2>1, PushFrontStep
  <2>3. popped' = popped
    BY <1>8 DEF ListPushFront, GiveNode
  <2> QED BY <2>2, <2>3 DEF ListDeque!Next, ListDeque!PutFront, ListDeque!Cons, Cons
<1>9. ASSUME NEW u \in Threads, ListPop(u) PROVE ListDeque!Next
  <2>1. PICK t : t = Tail(s)
    OBVIOUS
  <2>2. Contents' = Tail(Contents) /\ Contents # <<>> /\ popped' = s[1]
    BY <1>1, <1>2, <1>3, <1>9, <2>1, PopStep
  <2>3. s[1] = Head(s)
    BY <1>2, <1>5, <2>2
  <2> QED BY <1>2, <2>2, <2>3 DEF ListDeque!Next, ListDeque!TakeFront
<1>10. ASSUME NEW u \in Threads, ListPopBack(u) PROVE ListDeque!Next
  <2>1. PICK t : t = Front(s)
    OBVIOUS
  <2>2. Contents' = Front(Contents) /\ Contents # <<>> /\ popped' = Last(Contents)
    BY <1>1, <1>2, <1>3, <1>10, <2>1, PopBackStep DEF Last
  <2> QED
    BY <2>2 DEF ListDeque!Next, ListDeque!TakeBack, ListDeque!Front, ListDeque!Last, Front, Last
<1>11. CASE UNCHANGED listVars
  <2>1. Contents' = s
    BY <1>1, <1>3, <1>11, ListQuietStep
  <2> QED BY <1>2, <1>11, <2>1 DEF listVars
<1> QED BY <1>6, <1>7, <1>8, <1>9, <1>10, <1>11 DEF ListNext

\* Whatever its users do, and in whatever order they allocate and release nodes, the list is
\* one sequence for all of them: a push adds a node at its end of the sequence, a pop takes
\* one from its end (list.h:97-230).
THEOREM ListIsDeque == ListSpec => ListImplementsDeque
<1>1. ListInit => ListDeque!Init
  BY DEF ListInit, Contents, ListDeque!Init
<1>2. ListInv /\ ListInv' /\ [ListNext]_listVars => [ListDeque!Next]_<<Contents, popped>>
  BY ListCallsMap
<1> QED BY <1>1, <1>2, ListInductive, PTL DEF ListSpec, ListImplementsDeque, ListDeque!Spec
=============================================================================
