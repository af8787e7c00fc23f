---------------------------- MODULE ZQueueProofs ----------------------------
(***************************************************************************)
(* Proofs about ZQueue, for any number of producers, consumers, chunks and *)
(* slots of a chunk.  The argument is one inductive invariant, QueueInv:   *)
(* besides the types and the two locks it names the chunks of the queue,   *)
(* as a function f from 0..n, and states for them                          *)
(*   - that they are linked from begin_chunk to end_chunk,                 *)
(*   - that with the spare chunk and the emptied ones they are what is     *)
(*     allocated,                                                          *)
(*   - that size is the distance of the two ends, but for a slot that is   *)
(*     taken and not yet counted,                                          *)
(*   - what that slot holds at each step of the push.                      *)
(* The module's properties, and that the queue implements Fifo, follow.    *)
(***************************************************************************)
EXTENDS ZQueue, Chains, FiniteSetTheorems

-----------------------------------------------------------------------------
(* The invariant.                                                          *)

ProducerLabels == {"idle", "reserve", "spare", "alloc", "fill", "count", "unlock"}
ConsumerLabels == {"idle", "front", "read", "pop", "recycle", "unlock", "late"}

Typed ==
  /\ size \in Nat
  /\ begin_chunk \in Chunks /\ begin_pos \in 0..ChunkSize - 1
  /\ end_chunk \in Chunks /\ end_pos \in 0..ChunkSize
  /\ spare_chunk \in Chunks \cup {NULL}
  /\ next \in [Chunks -> Chunks \cup {NULL}]
  /\ value \in [Chunks -> [0..ChunkSize - 1 -> Values \cup {NULL}]]
  /\ live \subseteq Chunks
  /\ spin_push \in Producers \cup {NULL} /\ spin_pop \in Consumers \cup {NULL}
  /\ usage \in Usages
  /\ pushed \in 0..MaxPush
  /\ pc \in [Threads -> ProducerLabels \cup ConsumerLabels]
  /\ \A p \in Producers : pc[p] \in ProducerLabels
  /\ \A c \in Consumers : pc[c] \in ConsumerLabels
  /\ slot \in [Threads -> Slots \cup {NULL}]
  /\ item \in [Threads -> Values \cup {NULL}]
  /\ popped \in [Consumers -> Values \cup {NULL}]
  /\ old \in [Consumers -> Chunks \cup {NULL}]

\* The steps of a push in which a slot is taken and not yet counted.
Reserving(p) == pc[p] \in {"spare", "alloc", "fill", "count"}

\* The producers exclude each other; only the one that needs a chunk, or one that got none,
\* leaves end_pos behind the last slot.
PushLocked ==
  /\ \A p \in Producers : pc[p] # "idle" => spin_push = p /\ item[p] \in Values
  /\ spin_push # NULL => pc[spin_push] # "idle"
  /\ end_pos = ChunkSize /\ spin_push # NULL => pc[spin_push] \in {"spare", "alloc"}
  /\ \A p \in Producers : pc[p] \in {"spare", "alloc"} => end_pos = ChunkSize

\* The consumers exclude each other until they have unlocked.
Popping(c) == pc[c] \in {"front", "read", "pop", "recycle", "unlock"}

PopLocked ==
  /\ usage = "front" => \A c, d \in Consumers : pc[c] # "idle" /\ pc[d] # "idle" => c = d
  /\ usage # "front" => \A c \in Consumers : Popping(c) => spin_pop = c
  /\ usage # "lock_pop" => \A c \in Consumers : pc[c] # "late"
  /\ \A c \in Consumers : old[c] # NULL <=> pc[c] = "recycle"
  /\ \A c \in Consumers : pc[c] \in {"read", "late"} => slot[c] # NULL

\* f[0], ..., f[n] are the chunks from b by the links nx, and no others.
Links(nx, b, n, f) ==
  /\ f[0] = b
  /\ \A i \in 0..n - 1 : nx[f[i]] = f[i + 1]
  /\ nx[f[n]] = NULL
  /\ \A i, j \in 0..n : f[i] = f[j] => i = j

\* The slot at distance a from the first slot of the chunks f.
Place(f, a) == <<f[a \div ChunkSize], a % ChunkSize>>

\* What is allocated: the chunks of the list, the spare one and the emptied ones.
Accounted(n, f) ==
  /\ \A k \in Chunks : k \in live <=> \/ \E i \in 0..n : f[i] = k
                                      \/ spare_chunk = k
                                      \/ \E c \in Consumers : old[c] = k
  /\ \A i \in 0..n : f[i] # spare_chunk /\ \A c \in Consumers : f[i] # old[c]
  /\ \A c \in Consumers : old[c] # NULL => old[c] # spare_chunk

Extra ==
  IF (\E p \in Producers : Reserving(p)) \/ (end_pos = ChunkSize /\ spin_push = NULL)
  THEN 1 ELSE 0

\* The slot that a producer took is the next one to be counted, and holds its value.
Reserved(f) ==
  \A p \in Producers :
    /\ pc[p] = "fill" => slot[p] = Place(f, begin_pos + size)
    /\ pc[p] \in {"spare", "alloc"} => slot[p] \in {NULL, Place(f, begin_pos + size)}
    /\ pc[p] = "count" \/ (pc[p] \in {"spare", "alloc"} /\ slot[p] = NULL)
         => Content(Place(f, begin_pos + size)) = item[p]

Queue(n, f) ==
  /\ n \in Nat /\ f \in [0..n -> Chunks]
  /\ Links(next, begin_chunk, n, f) /\ f[n] = end_chunk
  /\ Accounted(n, f)
  /\ n * ChunkSize + end_pos = begin_pos + size + Extra
  /\ Reserved(f)

\* A value that front returned stays until it is popped.
Reads ==
  usage # "lock_pop" =>
    \A c \in Consumers :
      /\ pc[c] \in {"idle", "front", "recycle", "unlock"} => item[c] = popped[c]
      /\ pc[c] \in {"read", "pop"} => size > 0
      /\ pc[c] = "read" => slot[c] = <<begin_chunk, begin_pos>>
      /\ pc[c] = "pop" => item[c] = Content(<<begin_chunk, begin_pos>>)

\* Some chunks f link the begin chunk to the end chunk.
Linked == \E n \in Nat : \E f \in [0..n -> Chunks] : Queue(n, f)

QueueInv == Typed /\ PushLocked /\ PopLocked /\ Linked /\ Reads

-----------------------------------------------------------------------------
(* The function Chunk.                                                     *)

\* The chunks reached from b by the links nx: Chunk, as a constant operator.
Walk(nx, b) ==
  CHOOSE g : g = [n \in 0..Cardinality(Chunks) |->
                    IF n = 0 THEN b
                    ELSE IF g[n - 1] = NULL THEN NULL ELSE nx[g[n - 1]]]

\* Walk follows the links, then stays at NULL: the definition of Chunk has one solution, and
\* a chain never has more links than there are chunks.
LEMMA WalkIs ==
  ASSUME NEW nx \in [Chunks -> Chunks \cup {NULL}], NEW b \in Chunks,
         NEW n \in Nat, NEW f \in [0..n -> Chunks], Links(nx, b, n, f)
  PROVE  /\ n < Cardinality(Chunks)
         /\ Walk(nx, b) =
              [i \in 0..Cardinality(Chunks) |-> IF i <= n THEN f[i] ELSE NULL]
<1> DEFINE m == Cardinality(Chunks)
           Body(g) == [i \in 0..m |->
                         IF i = 0 THEN b
                         ELSE IF g[i - 1] = NULL THEN NULL ELSE nx[g[i - 1]]]
           w == [i \in 0..m |-> IF i <= n THEN f[i] ELSE NULL]
<1>1. m \in Nat
  BY QueueAssumption, FS_CardinalityType
<1>2. n < m
  <2>1. f \in Injection(0..n, Chunks)
    BY DEF Links, Injection, IsInjective
  <2>2. Cardinality(0..n) <= m
    BY <2>1, FS_Injection, QueueAssumption
  <2>3. Cardinality(0..n) = n + 1
    BY FS_Interval
  <2> QED BY <2>2, <2>3, <1>1
<1> HIDE DEF m
<1>3. NULL \notin Chunks
  BY QueueAssumption
<1>4. w = Body(w)
  <2>1. ASSUME NEW i \in 0..m PROVE w[i] = Body(w)[i]
    <3>1. CASE i = 0
      BY <3>1, <1>1 DEF Links
    <3>2. CASE i # 0
      <4> DEFINE j == i - 1
      <4>1. j \in 0..m /\ i = j + 1 /\ j \in Nat
        BY <3>2, <1>1
      <4>2. Body(w)[i] = IF w[j] = NULL THEN NULL ELSE nx[w[j]]
        BY <3>2
      <4>3. CASE i <= n
        <5>1. j \in 0..n - 1 /\ j \in 0..n
          BY <4>1, <4>3
        <5>2. w[j] = f[j] /\ w[i] = f[i] /\ nx[f[j]] = f[i]
          BY <5>1, <4>1, <4>3 DEF Links
        <5> QED BY <5>1, <5>2, <4>2, <1>3
      <4>4. CASE i > n
        <5>1. CASE j = n
          BY <5>1, <4>1, <4>2, <4>4, <1>3 DEF Links
        <5>2. CASE j > n
          BY <5>2, <4>1, <4>2, <4>4
        <5> QED BY <5>1, <5>2, <4>1, <4>4
      <4> QED BY <4>3, <4>4, <4>1
    <3> QED BY <3>1, <3>2
  <2> HIDE DEF w
  <2>2. w = [i \in 0..m |-> w[i]]
    BY DEF w
  <2> QED BY <2>1, <2>2
<1>5. ASSUME NEW g, g = Body(g) PROVE g = w
  <2> DEFINE Off == {i \in 0..m : g[i] # w[i]}
  <2>1. ASSUME Off # {} PROVE FALSE
    <3>1. Off \in SUBSET Nat
      OBVIOUS
    <3>2. PICK i \in Off : \A y \in Off : i <= y
      BY <2>1, <3>1, Least
    <3>3. CASE i = 0
      BY <3>3, <1>4, <1>5
    <3>4. CASE i # 0
      <4> DEFINE j == i - 1
      <4>1. j \in 0..m /\ ~(i <= j)
        BY <3>4, <1>1
      <4>2. g[j] = w[j]
        BY <4>1, <3>2
      <4>3. g[i] = IF g[j] = NULL THEN NULL ELSE nx[g[j]]
        BY <3>4, <1>5
      <4>4. w[i] = IF w[j] = NULL THEN NULL ELSE nx[w[j]]
        BY <3>4, <1>4
      <4> QED BY <4>2, <4>3, <4>4
    <3> QED BY <3>3, <3>4
  <2>2. \A i \in 0..m : g[i] = w[i]
    BY <2>1
  <2>3. g = [i \in 0..m |-> g[i]]
    BY <1>5
  <2>4. w = [i \in 0..m |-> w[i]]
    OBVIOUS
  <2> HIDE DEF w, Body
  <2> QED BY <2>2, <2>3, <2>4
<1>6. Walk(nx, b) = CHOOSE g : g = Body(g)
  BY DEF Walk, m
<1> HIDE DEF w, Body
<1>7. Walk(nx, b) = w
  BY <1>4, <1>5, <1>6
<1> QED BY <1>2, <1>7 DEF w, m

\* Chunk as a function of the links.
LEMMA ChunkWalks == Chunk = Walk(next, begin_chunk)
  BY DEF Chunk, Walk

-----------------------------------------------------------------------------
(* The two locks.                                                          *)

\* What the constants are to the provers.
LEMMA ThreadsApart ==
  /\ \A p \in Producers : p \in Threads /\ p \notin Consumers /\ p # NULL
  /\ \A c \in Consumers : c \in Threads /\ c \notin Producers /\ c # NULL
  /\ NULL \notin Chunks /\ NULL \notin Values /\ NULL \notin Slots
  /\ ChunkSize \in Nat /\ ChunkSize > 0
  BY QueueAssumption DEF Threads

\* The producers' lock is kept by every step.
LEMMA PushLockedStep ==
  ASSUME Typed, PushLocked, [Next]_vars
  PROVE  PushLocked'
<1> USE ThreadsApart DEF Typed, PushLocked
<1>1. ASSUME NEW p \in Producers, LockPush(p) PROVE PushLocked'
  <2>1. pushed + 1 \in Values
    BY <1>1, QueueAssumption DEF LockPush, Values
  <2>2. \A q \in Producers : q # p => pc'[q] = "idle"
    BY <1>1 DEF LockPush, Goto
  <2> QED BY <1>1, <2>1, <2>2 DEF LockPush, Goto, endVars
<1>2. ASSUME NEW p \in Producers, PushCopy(p) PROVE PushLocked'
  BY <1>2 DEF PushCopy, Reserve, Goto
<1>3. ASSUME NEW p \in Producers, BackPos(p) PROVE PushLocked'
  BY <1>3 DEF BackPos, Reserve, Goto
<1>4. ASSUME NEW p \in Producers, TakeSpare(p) PROVE PushLocked'
  <2>1. CASE spare_chunk # NULL
    <3>1. end_pos' = 0 /\ spin_push' = spin_push /\ item' = item /\ pc[p] = "spare"
      BY <1>4, <2>1 DEF TakeSpare, Link
    <3>2. PICK l \in {"count", "fill"} : pc' = [pc EXCEPT ![p] = l]
      BY <1>4, <2>1, Zenon DEF TakeSpare, Link, Goto
    <3> QED BY <3>1, <3>2
  <2>2. CASE spare_chunk = NULL
    BY <1>4, <2>2 DEF TakeSpare, Goto, endVars
  <2> QED BY <2>1, <2>2
<1>5. ASSUME NEW p \in Producers, Allocate(p) PROVE PushLocked'
  BY <1>5 DEF Allocate, Link, Goto
<1>6. ASSUME NEW p \in Producers, AllocFails(p) PROVE PushLocked'
  BY <1>6 DEF AllocFails, Goto, endVars
<1>7. ASSUME NEW p \in Producers, Fill(p) PROVE PushLocked'
  BY <1>7 DEF Fill, Goto, endVars
<1>8. ASSUME NEW p \in Producers, Count(p) PROVE PushLocked'
  BY <1>8 DEF Count, Goto, endVars
<1>9. ASSUME NEW p \in Producers, UnlockPush(p) PROVE PushLocked'
  BY <1>9 DEF UnlockPush, Goto, endVars
<1>10. ASSUME NEW c \in Consumers, Consumer(c) PROVE PushLocked'
  <2>1. spin_push' = spin_push /\ end_pos' = end_pos
    BY <1>10 DEF Consumer, Start, Front, Read, PopEmpty, Pop, Recycle, UnlockPop, LateRead,
                 endVars
  <2>2. \A p \in Producers : pc'[p] = pc[p]
    BY <1>10 DEF Consumer, Start, Front, Read, PopEmpty, Pop, Recycle, UnlockPop, LateRead,
                 Goto
  <2>3. \A p \in Producers : item'[p] = item[p]
    BY <1>10 DEF Consumer, Start, Front, Read, PopEmpty, Pop, Recycle, UnlockPop, LateRead
  <2> QED BY <2>1, <2>2, <2>3
<1>11. CASE UNCHANGED vars
  BY <1>11 DEF vars, endVars
<1> QED
  BY <1>1, <1>2, <1>3, <1>4, <1>5, <1>6, <1>7, <1>8, <1>9, <1>10, <1>11 DEF Next, Producer

\* A producer's step does not change what only consumers have.
LEMMA ProducersApart ==
  ASSUME Typed, NEW p \in Producers, Producer(p)
  PROVE  /\ spin_pop' = spin_pop /\ usage' = usage /\ old' = old /\ popped' = popped
         /\ begin_chunk' = begin_chunk /\ begin_pos' = begin_pos
         /\ \A c \in Consumers : pc'[c] = pc[c] /\ slot'[c] = slot[c] /\ item'[c] = item[c]
<1> USE ThreadsApart DEF Typed
<1>1. spin_pop' = spin_pop /\ usage' = usage /\ old' = old /\ popped' = popped
      /\ begin_chunk' = begin_chunk /\ begin_pos' = begin_pos
  BY DEF Producer, LockPush, PushCopy, BackPos, Reserve, TakeSpare, Allocate, AllocFails, Fill,
         Count, UnlockPush, constVars, takenVars, beginVars
<1>2. \A c \in Consumers : pc'[c] = pc[c]
  BY DEF Producer, LockPush, PushCopy, BackPos, Reserve, TakeSpare, Allocate, AllocFails, Fill,
         Count, UnlockPush, Link, Goto
<1>3. \A c \in Consumers : slot'[c] = slot[c]
  BY DEF Producer, LockPush, PushCopy, BackPos, Reserve, TakeSpare, Allocate, AllocFails, Fill,
         Count, UnlockPush
<1>4. \A c \in Consumers : item'[c] = item[c]
  BY DEF Producer, LockPush, PushCopy, BackPos, Reserve, TakeSpare, Allocate, AllocFails, Fill,
         Count, UnlockPush
<1> QED BY <1>1, <1>2, <1>3, <1>4

\* The consumers' lock, or being alone, is kept by every step.
LEMMA PopLockedStep ==
  ASSUME Typed, PopLocked, [Next]_vars
  PROVE  PopLocked'
<1> USE ThreadsApart DEF Typed, PopLocked, Popping
<1>1. ASSUME NEW c \in Consumers, Start(c) PROVE PopLocked'
  BY <1>1 DEF Start, Goto, constVars, takenVars
<1>2. ASSUME NEW c \in Consumers, Front(c) PROVE PopLocked'
  <2>1. <<begin_chunk, begin_pos>> # NULL
    BY DEF Slots
  <2> QED BY <1>2, <2>1 DEF Front, Goto, constVars, takenVars
<1>3. ASSUME NEW c \in Consumers, Read(c) PROVE PopLocked'
  BY <1>3 DEF Read, Goto, constVars, takenVars
<1>4. ASSUME NEW c \in Consumers, PopEmpty(c) PROVE PopLocked'
  BY <1>4 DEF PopEmpty, Goto, constVars, takenVars
<1>5. ASSUME NEW c \in Consumers, Pop(c) PROVE PopLocked'
  BY <1>5 DEF Pop, Goto, constVars, takenVars
<1>6. ASSUME NEW c \in Consumers, Recycle(c) PROVE PopLocked'
  BY <1>6 DEF Recycle, Goto, constVars, takenVars
<1>7. ASSUME NEW c \in Consumers, UnlockPop(c) PROVE PopLocked'
  BY <1>7 DEF UnlockPop, Goto, constVars, takenVars
<1>8. ASSUME NEW c \in Consumers, LateRead(c) PROVE PopLocked'
  BY <1>8 DEF LateRead, Goto, constVars, takenVars
<1>9. ASSUME NEW p \in Producers, Producer(p) PROVE PopLocked'
  BY <1>9, ProducersApart
<1>10. CASE UNCHANGED vars
  BY <1>10 DEF vars, constVars, takenVars
<1> QED
  BY <1>1, <1>2, <1>3, <1>4, <1>5, <1>6, <1>7, <1>8, <1>9, <1>10 DEF Next, Consumer

-----------------------------------------------------------------------------
(* Places of a chain of chunks.                                            *)

\* A position below n + 1 chunks lies in one of the chunks 0..n.
LEMMA Within ==
  ASSUME NEW n \in Nat, NEW a \in Nat, a < n * ChunkSize + ChunkSize
  PROVE  a \div ChunkSize \in 0..n /\ a % ChunkSize \in 0..ChunkSize - 1
<1>1. PICK c \in Nat \ {0} : c = ChunkSize
  BY QueueAssumption
<1>2. PICK d \in Nat : d = a \div c
  BY <1>1, Division
<1>3. PICK r \in 0..c - 1 : r = a % c
  BY <1>1, Division
<1>4. a = d * c + r
  BY <1>1, <1>2, <1>3, Division
<1>5. n * c + c = (n + 1) * c /\ n + 1 \in Nat
  BY Products, n \in Nat, 1 \in Nat, 1 * c = c
<1>6. ASSUME n + 1 <= d PROVE FALSE
  <2>1. CASE n + 1 = d
    BY <2>1, <1>1, <1>4, <1>5, Products
  <2>2. CASE n + 1 < d
    BY <2>2, <1>1, <1>4, <1>5, Products
  <2> QED BY <2>1, <2>2, <1>6
<1>7. d \in 0..n
  BY <1>6
<1> QED BY <1>7, <1>1, <1>2, <1>3

\* The place of slot q of the n-th chunk.
LEMMA PlaceAt ==
  ASSUME NEW n \in Nat, NEW f, NEW q \in 0..ChunkSize - 1, NEW a \in Nat,
         a = n * ChunkSize + q
  PROVE  Place(f, a) = <<f[n], q>>
<1>1. ChunkSize \in Nat \ {0}
  BY QueueAssumption
<1>2. a \div ChunkSize = n /\ a % ChunkSize = q
  BY <1>1, DivisionUnique
<1> QED BY <1>2 DEF Place

\* The places of the first chunk.
LEMMA PlaceFirst ==
  ASSUME NEW f, NEW q \in 0..ChunkSize - 1
  PROVE  Place(f, q) = <<f[0], q>>
<1>1. ChunkSize \in Nat /\ q \in Nat /\ q = 0 * ChunkSize + q
  BY QueueAssumption
<1> QED BY <1>1, PlaceAt

\* Different positions of a chain are different slots.
LEMMA PlacesDiffer ==
  ASSUME NEW n \in Nat, NEW f \in [0..n -> Chunks],
         \A i, j \in 0..n : f[i] = f[j] => i = j,
         NEW a \in Nat, a < n * ChunkSize + ChunkSize,
         NEW b \in Nat, b < n * ChunkSize + ChunkSize,
         a # b
  PROVE  Place(f, a) # Place(f, b)
<1>1. SUFFICES ASSUME Place(f, a) = Place(f, b) PROVE FALSE
  OBVIOUS
<1>2. f[a \div ChunkSize] = f[b \div ChunkSize] /\ a % ChunkSize = b % ChunkSize
  BY <1>1 DEF Place
<1>3. a \div ChunkSize \in 0..n /\ b \div ChunkSize \in 0..n
  BY Within
<1>4. a \div ChunkSize = b \div ChunkSize
  BY <1>2, <1>3
<1>5. ChunkSize \in Nat \ {0}
  BY QueueAssumption
<1>6. a = (a \div ChunkSize) * ChunkSize + (a % ChunkSize)
  BY <1>5, Division
<1>7. b = (b \div ChunkSize) * ChunkSize + (b % ChunkSize)
  BY <1>5, Division
<1> QED BY <1>2, <1>4, <1>6, <1>7

\* The chain f with chunk k behind its last one.
Longer(n, f, k) == [i \in 0..n + 1 |-> IF i <= n THEN f[i] ELSE k]

\* The chain f without its first chunk.
Shorter(n, f) == [i \in 0..n - 1 |-> f[i + 1]]

\* A chunk behind the chain leaves its places where they were.
LEMMA LongerPlace ==
  ASSUME NEW n \in Nat, NEW f, NEW k, NEW a \in Nat, a < n * ChunkSize + ChunkSize
  PROVE  Place(Longer(n, f, k), a) = Place(f, a)
  BY Within DEF Longer, Place

\* The links of a chain that Link makes longer.
LEMMA LongerLinks ==
  ASSUME NEW n \in Nat, NEW f \in [0..n -> Chunks], NEW k \in Chunks,
         \A i \in 0..n : f[i] # k,
         NEW nx \in [Chunks -> Chunks \cup {NULL}], NEW b, Links(nx, b, n, f)
  PROVE  /\ Longer(n, f, k) \in [0..n + 1 -> Chunks]
         /\ Longer(n, f, k)[n + 1] = k
         /\ Links([nx EXCEPT ![k] = NULL, ![f[n]] = k], b, n + 1, Longer(n, f, k))
<1> DEFINE g == Longer(n, f, k)
           ny == [nx EXCEPT ![k] = NULL, ![f[n]] = k]
<1>1. g \in [0..n + 1 -> Chunks] /\ g[n + 1] = k /\ \A i \in 0..n : g[i] = f[i]
  BY DEF Longer
<1>2. ny[k] = NULL /\ ny[f[n]] = k
  OBVIOUS
<1>3. \A i \in 0..n - 1 : ny[f[i]] = nx[f[i]]
  BY DEF Links
<1> HIDE DEF g, ny
<1>4. g[0] = b
  BY <1>1 DEF Links
<1>5. ASSUME NEW i \in 0..(n + 1) - 1 PROVE ny[g[i]] = g[i + 1]
  <2>1. CASE i = n
    BY <2>1, <1>1, <1>2
  <2>2. CASE i # n
    <3>1. i \in 0..n - 1 /\ i \in 0..n /\ i + 1 \in 0..n
      BY <2>2
    <3> QED BY <3>1, <1>1, <1>3 DEF Links
  <2> QED BY <2>1, <2>2
<1>6. ASSUME NEW i \in 0..n + 1, NEW j \in 0..n + 1, g[i] = g[j] PROVE i = j
  <2>1. CASE i = n + 1
    BY <2>1, <1>1, <1>6
  <2>2. CASE j = n + 1
    BY <2>2, <1>1, <1>6
  <2>3. CASE i # n + 1 /\ j # n + 1
    <3>1. i \in 0..n /\ j \in 0..n
      BY <2>3
    <3> QED BY <3>1, <1>1, <1>6 DEF Links
  <2> QED BY <2>1, <2>2, <2>3
<1>7. Links(ny, b, n + 1, g)
  BY <1>1, <1>2, <1>4, <1>5, <1>6 DEF Links
<1> QED BY <1>1, <1>7 DEF g, ny

\* Without the first chunk every place is a chunk further to the front.
LEMMA ShorterPlace ==
  ASSUME NEW n \in Nat \ {0}, NEW f, NEW a \in Nat, a < n * ChunkSize
  PROVE  Place(Shorter(n, f), a) = Place(f, a + ChunkSize)
<1>1. ChunkSize \in Nat \ {0}
  BY QueueAssumption
<1>2. n - 1 \in Nat /\ n * ChunkSize = (n - 1) * ChunkSize + ChunkSize
  BY <1>1, Products, 1 * ChunkSize = ChunkSize, (n - 1) + 1 = n
<1>3. a \div ChunkSize \in 0..n - 1
  BY <1>2, Within
<1>4. /\ (a + ChunkSize) \div ChunkSize = (a \div ChunkSize) + 1
      /\ (a + ChunkSize) % ChunkSize = a % ChunkSize
  BY <1>1, DivisionNext
<1> QED BY <1>3, <1>4 DEF Shorter, Place

\* The links of a chain that Pop makes shorter.
LEMMA ShorterLinks ==
  ASSUME NEW n \in Nat \ {0}, NEW f \in [0..n -> Chunks], NEW nx, NEW b, Links(nx, b, n, f)
  PROVE  /\ Shorter(n, f) \in [0..n - 1 -> Chunks]
         /\ Shorter(n, f)[n - 1] = f[n]
         /\ Links(nx, nx[b], n - 1, Shorter(n, f))
         /\ \A i \in 0..n - 1 : Shorter(n, f)[i] = f[i + 1] /\ f[i + 1] # f[0]
<1> DEFINE g == Shorter(n, f)
<1>1. g \in [0..n - 1 -> Chunks] /\ \A i \in 0..n - 1 : g[i] = f[i + 1]
  BY DEF Shorter
<1> HIDE DEF g
<1>2. \A i \in 0..n - 1 : f[i + 1] # f[0]
  BY DEF Links
<1>3. g[0] = nx[b]
  BY <1>1 DEF Links
<1>4. g[n - 1] = f[n] /\ nx[g[n - 1]] = NULL
  BY <1>1, n - 1 \in 0..n - 1, (n - 1) + 1 = n DEF Links
<1>5. ASSUME NEW i \in 0..(n - 1) - 1 PROVE nx[g[i]] = g[i + 1]
  <2>1. i \in 0..n - 1 /\ i + 1 \in 0..n - 1
    OBVIOUS
  <2> QED BY <2>1, <1>1 DEF Links
<1>6. ASSUME NEW i \in 0..n - 1, NEW j \in 0..n - 1, g[i] = g[j] PROVE i = j
  <2>1. i + 1 \in 0..n /\ j + 1 \in 0..n /\ f[i + 1] = f[j + 1]
    BY <1>1, <1>6
  <2>2. i + 1 = j + 1
    BY <2>1 DEF Links
  <2> QED BY <2>2
<1>7. Links(nx, nx[b], n - 1, g)
  BY <1>3, <1>4, <1>5, <1>6 DEF Links
<1> QED BY <1>1, <1>2, <1>4, <1>7 DEF g

-----------------------------------------------------------------------------
(* The chain of the queue, action by action.                                                 *)

\* A producer under way holds the lock, and only it counts in Extra.
LEMMA Pushing ==
  ASSUME PushLocked, NEW p \in Producers, pc[p] # "idle"
  PROVE  /\ \A q \in Producers : q # p => pc[q] = "idle"
         /\ spin_push = p /\ spin_push # NULL
         /\ Extra = IF Reserving(p) THEN 1 ELSE 0
  BY ThreadsApart DEF PushLocked, Extra, Reserving

\* The same of the next state.
LEMMA PushingNext ==
  ASSUME PushLocked', NEW p \in Producers, pc'[p] # "idle"
  PROVE  Extra' = IF pc'[p] \in {"spare", "alloc", "fill", "count"} THEN 1 ELSE 0
  BY ThreadsApart DEF PushLocked, Extra, Reserving

\* What follows from Queue, as the later proofs use it.
LEMMA QueueFacts ==
  ASSUME Typed, PushLocked, NEW n, NEW f, Queue(n, f)
  PROVE  /\ n \in Nat /\ f \in [0..n -> Chunks] /\ n * ChunkSize \in Nat
         /\ f[0] = begin_chunk /\ f[n] = end_chunk
         /\ \A i \in 0..n : f[i] \in live
         /\ \A i, j \in 0..n : f[i] = f[j] => i = j
         /\ Extra \in {0, 1}
         /\ begin_pos + size \in Nat
         /\ n * ChunkSize + end_pos = begin_pos + size + Extra
         /\ begin_pos + size < n * ChunkSize + ChunkSize
<1> USE ThreadsApart
<1>1. n \in Nat /\ f \in [0..n -> Chunks] /\ f[0] = begin_chunk /\ f[n] = end_chunk
  BY DEF Queue, Links
<1>2. \A i \in 0..n : f[i] \in live
  BY <1>1 DEF Queue, Accounted
<1>3. \A i, j \in 0..n : f[i] = f[j] => i = j
  BY DEF Queue, Links
<1>4. Extra \in {0, 1}
  BY DEF Extra
<1>5. begin_pos \in Nat /\ size \in Nat /\ end_pos \in 0..ChunkSize
  BY DEF Typed
<1>6. end_pos = ChunkSize => Extra = 1
  BY DEF PushLocked, Extra, Reserving, Typed
<1>7. n * ChunkSize \in Nat
  BY <1>1, Products, QueueAssumption
<1>8. n * ChunkSize + end_pos = begin_pos + size + Extra
  BY DEF Queue
<1>9. begin_pos + size < n * ChunkSize + ChunkSize
  BY <1>4, <1>5, <1>6, <1>7, <1>8
<1> QED BY <1>1, <1>2, <1>3, <1>4, <1>5, <1>7, <1>8, <1>9

\* The slot that a push takes is the one behind the counted ones.
LEMMA TakenPlace ==
  ASSUME Typed, PushLocked, NEW n, NEW f, Queue(n, f), NEW p \in Producers, pc[p] = "reserve"
  PROVE  /\ end_pos < ChunkSize /\ Extra = 0
         /\ Place(f, begin_pos + size) = <<end_chunk, end_pos>>
<1> USE ThreadsApart
<1>1. spin_push = p /\ spin_push # NULL /\ Extra = 0
  BY Pushing DEF Reserving
<1>2. end_pos \in 0..ChunkSize - 1
  BY <1>1 DEF PushLocked, Typed
<1>3. n * ChunkSize + end_pos = begin_pos + size
  BY <1>1, QueueFacts DEF Typed
<1>4. PICK a \in Nat : a = begin_pos + size
  BY QueueFacts
<1>5. PICK q \in 0..ChunkSize - 1 : q = end_pos
  BY <1>2
<1>6. n \in Nat
  BY QueueFacts
<1>7. a = n * ChunkSize + q
  BY <1>3, <1>4, <1>5
<1>8. Place(f, a) = <<f[n], q>>
  BY <1>6, <1>7, PlaceAt
<1> QED BY <1>1, <1>2, <1>4, <1>5, <1>8, QueueFacts

\* Writing to one slot of an allocated chunk.
LEMMA Written ==
  ASSUME Typed, NEW k \in live, NEW q \in 0..ChunkSize - 1, NEW v,
         value' = [value EXCEPT ![k][q] = v], live' = live
  PROVE  /\ Content(<<k, q>>)' = v
         /\ \A x \in Slots : x # <<k, q>> => Content(x)' = Content(x)
<1> USE ThreadsApart DEF Typed
<1>1. value'[k][q] = v
  OBVIOUS
<1>2. Content(<<k, q>>)' = v
  BY <1>1 DEF Content
<1>3. ASSUME NEW x \in Slots, x # <<k, q>> PROVE Content(x)' = Content(x)
  <2>1. PICK kx \in Chunks, qx \in 0..ChunkSize : x = <<kx, qx>>
    BY DEF Slots
  <2>2. CASE kx \in live /\ qx < ChunkSize
    <3>1. value'[kx][qx] = value[kx][qx]
      BY <1>3, <2>1, <2>2
    <3> QED BY <2>1, <3>1 DEF Content
  <2>3. CASE ~(kx \in live /\ qx < ChunkSize)
    BY <2>1, <2>3 DEF Content
  <2> QED BY <2>2, <2>3
<1> QED BY <1>2, <1>3

\* A consumer's step does not change what only producers have.
LEMMA ConsumersApart ==
  ASSUME Typed, NEW c \in Consumers, Consumer(c)
  PROVE  /\ spin_push' = spin_push /\ usage' = usage /\ pushed' = pushed /\ value' = value
         /\ end_chunk' = end_chunk /\ end_pos' = end_pos /\ next' = next
         /\ \A p \in Producers : pc'[p] = pc[p] /\ slot'[p] = slot[p] /\ item'[p] = item[p]
         /\ Extra' = Extra
<1> USE ThreadsApart DEF Typed
<1>1. /\ spin_push' = spin_push /\ usage' = usage /\ pushed' = pushed /\ value' = value
      /\ end_chunk' = end_chunk /\ end_pos' = end_pos /\ next' = next
  BY DEF Consumer, Start, Front, Read, PopEmpty, Pop, Recycle, UnlockPop, LateRead, constVars,
         memVars, endVars
<1>2. \A p \in Producers : pc'[p] = pc[p]
  BY DEF Consumer, Start, Front, Read, PopEmpty, Pop, Recycle, UnlockPop, LateRead, Goto
<1>3. \A p \in Producers : slot'[p] = slot[p]
  BY DEF Consumer, Start, Front, Read, PopEmpty, Pop, Recycle, UnlockPop, LateRead
<1>4. \A p \in Producers : item'[p] = item[p]
  BY DEF Consumer, Start, Front, Read, PopEmpty, Pop, Recycle, UnlockPop, LateRead
<1>5. Extra' = Extra
  BY <1>1, <1>2 DEF Extra, Reserving
<1> QED BY <1>1, <1>2, <1>3, <1>4, <1>5

\* A step that moves neither the chain nor the ends of the queue.
LEMMA QueueKept ==
  ASSUME NEW n, NEW f, Queue(n, f),
         UNCHANGED <<size, beginVars, endVars, spare_chunk, live, old>>,
         Extra' = Extra, Reserved(f)'
  PROVE  Queue(n, f)'
  BY DEF Queue, Links, Accounted, beginVars, endVars

\* The consumers' steps that pop nothing and free nothing.
LEMMA QuietConsumerStep ==
  ASSUME Typed, NEW n, NEW f, Queue(n, f), NEW c \in Consumers,
         Start(c) \/ Front(c) \/ Read(c) \/ PopEmpty(c) \/ UnlockPop(c) \/ LateRead(c)
  PROVE  Queue(n, f)'
<1>1. Consumer(c)
  BY DEF Consumer
<1>2. /\ UNCHANGED <<size, beginVars, endVars, spare_chunk, live, old>>
      /\ UNCHANGED <<value, begin_pos>>
  BY DEF Start, Front, Read, PopEmpty, UnlockPop, LateRead, memVars, takenVars, beginVars
<1>3. Reserved(f)'
  BY <1>1, <1>2, ConsumersApart DEF Queue, Reserved, Content, Place
<1> QED BY <1>1, <1>2, <1>3, ConsumersApart, QueueKept

\* A producer takes the lock: no slot is taken yet.
LEMMA LockPushStep ==
  ASSUME Typed, PushLocked, PushLocked', NEW n, NEW f, Queue(n, f),
         NEW p \in Producers, LockPush(p)
  PROVE  Queue(n, f)'
<1> USE ThreadsApart
<1>1. UNCHANGED <<size, beginVars, endVars, spare_chunk, live, old>>
  BY DEF LockPush, memVars, takenVars
<1>2. \A q \in Producers : pc[q] = "idle"
  BY DEF PushLocked, LockPush
<1>3. pc' = [pc EXCEPT ![p] = "reserve"]
  BY DEF LockPush, Goto
<1>4. pc'[p] = "reserve" /\ \A q \in Producers : q # p => pc'[q] = "idle"
  BY <1>2, <1>3 DEF Typed
<1>5. Extra = 0
  BY <1>2 DEF Extra, Reserving, LockPush
<1>6. Extra' = 0
  BY <1>4, PushingNext
<1>7. Reserved(f)'
  BY <1>4 DEF Reserved
<1> QED BY <1>1, <1>5, <1>6, <1>7, QueueKept

\* The two ways to take a slot.
LEMMA ReserveStep ==
  ASSUME Typed, PushLocked, PushLocked', NEW n, NEW f, Queue(n, f),
         NEW p \in Producers, PushCopy(p) \/ BackPos(p)
  PROVE  Queue(n, f)'
<1> USE ThreadsApart
<1>1. UNCHANGED <<size, beginVars, end_chunk, next, spare_chunk, live, old, item>>
      /\ end_pos' = end_pos + 1 /\ pc[p] = "reserve"
  BY DEF PushCopy, BackPos, Reserve, Goto, takenVars
<1>2. end_pos < ChunkSize /\ Extra = 0 /\ Place(f, begin_pos + size) = <<end_chunk, end_pos>>
  BY <1>1, TakenPlace
<1>3. \A q \in Producers : q # p => pc[q] = "idle"
  BY <1>1, Pushing
<1>4. pc' \in [Threads -> ProducerLabels \cup ConsumerLabels]
      /\ pc'[p] \in {"count", "fill", "spare"}
      /\ \A q \in Producers : q # p => pc'[q] = "idle"
  <2>1. \E l \in {"count", "fill", "spare"} : pc' = [pc EXCEPT ![p] = l]
    BY DEF PushCopy, BackPos, Reserve, Goto
  <2> QED BY <1>3, <2>1 DEF Typed, ProducerLabels
<1>5. Extra' = 1
  BY <1>4, PushingNext
<1>6. (n * ChunkSize + end_pos = begin_pos + size + Extra)'
  <2>1. n * ChunkSize \in Nat /\ n * ChunkSize + end_pos = begin_pos + size + Extra
    BY QueueFacts
  <2>2. PICK m \in Nat : m = n * ChunkSize
    BY <2>1
  <2>3. m + end_pos' = begin_pos' + size' + Extra'
    BY <1>1, <1>2, <1>5, <2>1, <2>2 DEF Typed, beginVars
  <2> QED BY <2>2, <2>3
<1>7. UNCHANGED <<begin_pos, begin_chunk>>
  BY <1>1 DEF beginVars
<1>8. PICK a \in Nat : a = begin_pos + size /\ a = begin_pos' + size'
  BY <1>1, <1>7, QueueFacts
<1>9. Reserved(f)'
  <2>1. CASE PushCopy(p)
    <3>1. end_chunk \in live /\ live' = live
      <4>1. n \in Nat /\ f[n] = end_chunk /\ \A i \in 0..n : f[i] \in live
        BY QueueFacts
      <4>2. n \in 0..n
        BY <4>1
      <4> QED BY <1>1, <4>1, <4>2
    <3>2. PICK k \in live : k = end_chunk
      BY <3>1
    <3>3. PICK q \in 0..ChunkSize - 1 : q = end_pos
      BY <1>2 DEF Typed
    <3>4. value' = [value EXCEPT ![k][q] = item[p]]
      BY <2>1, <1>2, <3>2, <3>3 DEF PushCopy, WriteSlot
    <3>5. Content(<<k, q>>)' = item[p]
      BY <3>1, <3>4, Written
    <3>6. slot'[p] = NULL /\ pc'[p] \in {"count", "spare"}
      BY <2>1 DEF PushCopy, Reserve, Goto, Typed
    <3>7. Place(f, a) = <<k, q>>
      BY <1>2, <1>8, <3>2, <3>3
    <3>8. Content(Place(f, a))' = item'[p]
      BY <1>1, <3>5, <3>7 DEF Content, Place
    <3>9. Content(Place(f, begin_pos + size))' = item'[p]
      BY <1>8, <3>8 DEF Content, Place
    <3> QED BY <3>6, <3>9, <1>4 DEF Reserved
  <2>2. CASE BackPos(p)
    <3>1. slot'[p] = <<end_chunk, end_pos>> /\ pc'[p] \in {"fill", "spare"}
      BY <2>2 DEF BackPos, Reserve, Goto, Typed
    <3>2. slot'[p] # NULL
      BY <3>1, <1>2 DEF Slots, Typed
    <3>3. slot'[p] = Place(f, begin_pos + size)'
      BY <3>1, <1>2, <1>8 DEF Place
    <3> QED BY <3>1, <3>2, <3>3, <1>4 DEF Reserved
  <2> QED BY <2>1, <2>2
<1>10. Links(next, begin_chunk, n, f)' /\ (f[n] = end_chunk)' /\ Accounted(n, f)'
  BY <1>1, <1>7 DEF Queue, Links, Accounted
<1> QED BY <1>6, <1>9, <1>10 DEF Queue

\* Without a chunk the slot stays taken, and is never counted.
LEMMA AllocFailsStep ==
  ASSUME Typed, PushLocked, PushLocked', NEW n, NEW f, Queue(n, f),
         NEW p \in Producers, AllocFails(p)
  PROVE  Queue(n, f)'
<1> USE ThreadsApart
<1>1. UNCHANGED <<size, beginVars, endVars, spare_chunk, live, old>> /\ pc[p] = "alloc"
  BY DEF AllocFails, Goto, memVars, takenVars
<1>2. end_pos = ChunkSize /\ spin_push' = NULL /\ end_pos' = ChunkSize
  BY <1>1 DEF PushLocked, AllocFails, endVars
<1>3. Extra = 1 /\ \A q \in Producers : q # p => pc[q] = "idle"
  BY <1>1, Pushing DEF Reserving
<1>4. Extra' = 1
  BY <1>2 DEF Extra
<1>5. \A q \in Producers : pc'[q] = "idle"
  BY <1>3 DEF AllocFails, Goto, Typed
<1>6. Reserved(f)'
  BY <1>5 DEF Reserved
<1> QED BY <1>1, <1>3, <1>4, <1>6, QueueKept

\* The caller of zqueue_lock_back_pos writes to the slot it took, which is still allocated.
LEMMA FillStep ==
  ASSUME Typed, PushLocked, PushLocked', NEW n, NEW f, Queue(n, f),
         NEW p \in Producers, Fill(p)
  PROVE  /\ Queue(n, f)'
         /\ slot[p] = Place(f, begin_pos + size)
         /\ slot[p] \in live \X (0..ChunkSize - 1)
<1> USE ThreadsApart
<1>1. UNCHANGED <<size, beginVars, endVars, spare_chunk, live, old, item>> /\ pc[p] = "fill"
  BY DEF Fill, Goto, takenVars
<1>2. Extra = 1 /\ \A q \in Producers : q # p => pc[q] = "idle"
  BY <1>1, Pushing DEF Reserving
<1>3. pc'[p] = "count" /\ \A q \in Producers : q # p => pc'[q] = "idle"
  BY <1>2 DEF Fill, Goto, Typed
<1>4. Extra' = 1
  BY <1>3, PushingNext
<1>5. slot[p] = Place(f, begin_pos + size)
  BY <1>1 DEF Queue, Reserved
<1>6. PICK k \in live, q \in 0..ChunkSize - 1 : slot[p] = <<k, q>>
  <2>1. PICK a \in Nat : a = begin_pos + size
    BY QueueFacts
  <2>2. n \in Nat /\ a < n * ChunkSize + ChunkSize /\ \A i \in 0..n : f[i] \in live
    BY <2>1, QueueFacts
  <2>3. a \div ChunkSize \in 0..n /\ a % ChunkSize \in 0..ChunkSize - 1
    BY <2>2, Within
  <2> QED BY <2>1, <2>2, <2>3, <1>5 DEF Place
<1>7. q < ChunkSize
  OBVIOUS
<1>8. value' = [value EXCEPT ![k][q] = item[p]]
  BY <1>6, <1>7 DEF Fill, WriteSlot
<1>9. Content(<<k, q>>)' = item[p]
  BY <1>1, <1>8, Written
<1>10. Content(Place(f, begin_pos + size))' = item'[p]
  <2>1. begin_pos' = begin_pos /\ size' = size
    BY <1>1 DEF beginVars
  <2> QED BY <1>1, <1>5, <1>6, <1>9, <2>1 DEF Place, Content
<1>11. Reserved(f)'
  BY <1>3, <1>10 DEF Reserved
<1>12. Queue(n, f)'
  BY <1>1, <1>2, <1>4, <1>11, QueueKept
<1>13. slot[p] \in live \X (0..ChunkSize - 1)
  BY <1>6
<1> QED BY <1>5, <1>12, <1>13

\* The slot that is counted holds the value.
LEMMA CountStep ==
  ASSUME Typed, PushLocked, PushLocked', NEW n, NEW f, Queue(n, f),
         NEW p \in Producers, Count(p)
  PROVE  /\ Queue(n, f)'
         /\ Content(Place(f, begin_pos + size)) = item[p]
<1> USE ThreadsApart
<1>1. UNCHANGED <<beginVars, endVars, spare_chunk, live, old>> /\ size' = size + 1
      /\ pc[p] = "count"
  BY DEF Count, Goto, memVars, takenVars
<1>2. Extra = 1 /\ \A q \in Producers : q # p => pc[q] = "idle"
  BY <1>1, Pushing DEF Reserving
<1>3. pc'[p] = "unlock" /\ \A q \in Producers : q # p => pc'[q] = "idle"
  BY <1>2 DEF Count, Goto, Typed
<1>4. Extra' = 0
  BY <1>3, PushingNext
<1>5. Reserved(f)'
  BY <1>3 DEF Reserved
<1>6. (n * ChunkSize + end_pos = begin_pos + size + Extra)'
  <2>1. n * ChunkSize \in Nat /\ n * ChunkSize + end_pos = begin_pos + size + Extra
    BY QueueFacts
  <2>2. PICK m \in Nat : m = n * ChunkSize
    BY <2>1
  <2>3. m + end_pos' = begin_pos' + size' + Extra'
    BY <1>1, <1>2, <1>4, <2>1, <2>2 DEF Typed, beginVars, endVars
  <2> QED BY <2>2, <2>3
<1>7. Links(next, begin_chunk, n, f)' /\ (f[n] = end_chunk)' /\ Accounted(n, f)'
  BY <1>1 DEF Queue, Links, Accounted, beginVars, endVars
<1>8. Content(Place(f, begin_pos + size)) = item[p]
  BY <1>1 DEF Queue, Reserved
<1> QED BY <1>5, <1>6, <1>7, <1>8 DEF Queue

\* The lock is released when the slot is counted and another is free.
LEMMA UnlockPushStep ==
  ASSUME Typed, PushLocked, PushLocked', NEW n, NEW f, Queue(n, f),
         NEW p \in Producers, UnlockPush(p)
  PROVE  Queue(n, f)'
<1> USE ThreadsApart
<1>1. UNCHANGED <<size, beginVars, endVars, spare_chunk, live, old>> /\ pc[p] = "unlock"
  BY DEF UnlockPush, Goto, memVars, takenVars
<1>2. Extra = 0 /\ spin_push = p /\ \A q \in Producers : q # p => pc[q] = "idle"
  BY <1>1, Pushing DEF Reserving
<1>3. \A q \in Producers : pc'[q] = "idle"
  BY <1>2 DEF UnlockPush, Goto, Typed
<1>4. end_pos # ChunkSize /\ end_pos' = end_pos
  BY <1>1, <1>2 DEF PushLocked, endVars
<1>5. Extra' = 0
  BY <1>3, <1>4 DEF Extra, Reserving
<1>6. Reserved(f)'
  BY <1>3 DEF Reserved
<1> QED BY <1>1, <1>2, <1>5, <1>6, QueueKept

\* Chunk k, which was not part of the chain, becomes its end.
LEMMA LinkStep ==
  ASSUME Typed, PushLocked, PushLocked', NEW n, NEW f, Queue(n, f),
         NEW p \in Producers, pc[p] \in {"spare", "alloc"},
         NEW k \in Chunks, Link(p, k), \A i \in 0..n : f[i] # k,
         UNCHANGED <<size, beginVars, slot, item>>,
         Accounted(n + 1, Longer(n, f, k))',
         \A i \in 0..n, q \in 0..ChunkSize - 1 : Content(<<f[i], q>>)' = Content(<<f[i], q>>)
  PROVE  Queue(n + 1, Longer(n, f, k))'
<1> USE ThreadsApart
<1> DEFINE g == Longer(n, f, k)
<1>1. n \in Nat /\ f \in [0..n -> Chunks] /\ f[n] = end_chunk
  BY QueueFacts
<1>2. PICK m \in Nat : m = n * ChunkSize
  BY QueueFacts
<1>3. Extra = 1 /\ \A q \in Producers : q # p => pc[q] = "idle"
  BY Pushing DEF Reserving
<1>4. end_pos = ChunkSize /\ end_pos' = 0 /\ end_chunk' = k
      /\ next' = [next EXCEPT ![k] = NULL, ![end_chunk] = k]
      /\ begin_chunk' = begin_chunk
  BY DEF PushLocked, Link, beginVars
<1>5. PICK a \in Nat : a = begin_pos + size /\ a = begin_pos' + size'
  BY QueueFacts DEF beginVars
<1>6. a = m + (ChunkSize - 1)
  <2>1. n * ChunkSize + end_pos = begin_pos + size + Extra
    BY QueueFacts
  <2>2. m + ChunkSize = a + 1
    BY <1>2, <1>3, <1>4, <1>5, <2>1
  <2> QED BY <2>2
<1>7. pc' = [pc EXCEPT ![p] = IF slot[p] = NULL THEN "count" ELSE "fill"]
  BY DEF Link, Goto
<1>8. /\ pc'[p] = IF slot[p] = NULL THEN "count" ELSE "fill"
      /\ \A q \in Producers : q # p => pc'[q] = "idle"
  BY <1>3, <1>7 DEF Typed
<1>9. Extra' = 1
  BY <1>8, PushingNext
<1>10. n + 1 \in Nat /\ (n + 1) * ChunkSize = m + ChunkSize
  BY <1>1, <1>2, Products, QueueAssumption, 1 * ChunkSize = ChunkSize
<1>11. (n + 1) * ChunkSize + end_pos' = begin_pos' + size' + Extra'
  BY <1>4, <1>5, <1>6, <1>9, <1>10
<1>12. /\ g \in [0..n + 1 -> Chunks] /\ g[n + 1] = k
       /\ Links(next, begin_chunk, n + 1, g)'
  <2>1. next \in [Chunks -> Chunks \cup {NULL}] /\ Links(next, begin_chunk, n, f)
    BY DEF Typed, Queue
  <2>2. PICK nx \in [Chunks -> Chunks \cup {NULL}] : nx = next
    BY <2>1
  <2>3. PICK b : b = begin_chunk
    OBVIOUS
  <2>4. Links(nx, b, n, f)
    BY <2>1, <2>2, <2>3
  <2>5. /\ g \in [0..n + 1 -> Chunks] /\ g[n + 1] = k
        /\ Links([nx EXCEPT ![k] = NULL, ![f[n]] = k], b, n + 1, g)
    BY <1>1, <2>4, LongerLinks
  <2>6. next' = [nx EXCEPT ![k] = NULL, ![f[n]] = k] /\ begin_chunk' = b
    BY <1>1, <1>4, <2>2, <2>3
  <2> QED BY <2>5, <2>6
<1>13. Place(g, a) = Place(f, a)
  BY <1>1, <1>2, <1>6, LongerPlace
<1>14. Place(f, a) = <<f[n], ChunkSize - 1>>
  <2>1. PICK q \in 0..ChunkSize - 1 : q = ChunkSize - 1
    OBVIOUS
  <2> QED BY <1>1, <1>2, <1>6, <2>1, PlaceAt
<1>15. Content(Place(g, a))' = Content(Place(f, a))
  <2>1. PICK q \in 0..ChunkSize - 1 : q = ChunkSize - 1
    OBVIOUS
  <2>2. n \in 0..n
    BY <1>1
  <2>3. Content(<<f[n], q>>)' = Content(<<f[n], q>>)
    BY <2>2
  <2>4. Place(g, a) = <<f[n], q>> /\ Place(f, a) = <<f[n], q>>
    BY <1>13, <1>14, <2>1
  <2>5. Content(Place(f, a)) = Content(<<f[n], q>>)
    BY <2>4
  <2>6. Content(Place(g, a))' = Content(<<f[n], q>>)'
    BY <2>4 DEF Content, Place
  <2> QED BY <2>3, <2>5, <2>6
<1> HIDE DEF g
<1>16. Reserved(g)'
  <2>1. slot[p] \in {NULL, Place(f, a)} /\ (slot[p] = NULL => Content(Place(f, a)) = item[p])
    BY <1>5 DEF Queue, Reserved
  <2>2. slot'[p] \in {NULL, Place(g, a)} /\ (slot'[p] = NULL => Content(Place(g, a))' = item'[p])
    BY <2>1, <1>13, <1>15
  <2>3. CASE slot[p] = NULL
    <3>1. pc'[p] = "count" /\ Content(Place(g, a))' = item'[p]
      BY <1>8, <2>2, <2>3
    <3>2. Content(Place(g, begin_pos + size))' = item'[p]
      BY <3>1, <1>5 DEF Content, Place
    <3> QED BY <3>1, <3>2, <1>8 DEF Reserved
  <2>4. CASE slot[p] # NULL
    <3>1. pc'[p] = "fill" /\ slot'[p] = Place(g, a)
      BY <1>8, <2>2, <2>4
    <3>2. slot'[p] = Place(g, begin_pos + size)'
      BY <3>1, <1>5 DEF Place
    <3> QED BY <3>1, <3>2, <1>8 DEF Reserved
  <2> QED BY <2>3, <2>4
<1> QED BY <1>4, <1>10, <1>11, <1>12, <1>16 DEF Queue, g

\* The spare chunk leaves the spare place and becomes the end chunk.
LEMMA TakeSpareStep ==
  ASSUME Typed, PushLocked, PushLocked', NEW n, NEW f, Queue(n, f),
         NEW p \in Producers, TakeSpare(p), NEW k, k = spare_chunk
  PROVE  IF k = NULL THEN Queue(n, f)' ELSE Queue(n + 1, Longer(n, f, k))'
<1> USE ThreadsApart
<1>1. UNCHANGED <<size, beginVars, live, value, old, slot, item>> /\ pc[p] = "spare"
      /\ spare_chunk' = NULL
  BY DEF TakeSpare, takenVars, memVars
<1>2. CASE k = NULL
  <2>1. UNCHANGED <<endVars, spare_chunk>> /\ pc' = [pc EXCEPT ![p] = "alloc"]
    BY <1>1, <1>2 DEF TakeSpare, Goto
  <2>2. Extra = 1 /\ \A q \in Producers : q # p => pc[q] = "idle"
    BY <1>1, Pushing DEF Reserving
  <2>3. pc'[p] = "alloc" /\ \A q \in Producers : q # p => pc'[q] = "idle"
    BY <2>1, <2>2 DEF Typed
  <2>4. Extra' = 1
    BY <2>3, PushingNext
  <2>5. begin_pos' = begin_pos /\ size' = size
    BY <1>1 DEF beginVars
  <2>6. Reserved(f)'
    BY <1>1, <2>3, <2>5 DEF Queue, Reserved, Place, Content
  <2>7. Queue(n, f)'
    BY <1>1, <2>1, <2>2, <2>4, <2>6, QueueKept
  <2> QED BY <1>2, <2>7
<1>3. CASE k # NULL
  <2>1. k \in Chunks /\ Link(p, k)
    BY <1>3 DEF TakeSpare, Typed
  <2>2. \A i \in 0..n : f[i] # k
    BY DEF Queue, Accounted
  <2>3. \A i \in 0..n, q \in 0..ChunkSize - 1 : Content(<<f[i], q>>)' = Content(<<f[i], q>>)
    BY <1>1 DEF Content
  <2>4. Accounted(n + 1, Longer(n, f, k))'
    <3> DEFINE g == Longer(n, f, k)
    <3>1. n \in Nat /\ g[n + 1] = k /\ \A i \in 0..n : g[i] = f[i]
      BY QueueFacts DEF Longer
    <3>2. \A i \in 0..n + 1 : i \in 0..n \/ i = n + 1
      BY <3>1
    <3>3. \A i \in 0..n : i \in 0..n + 1
      BY <3>1
    <3> HIDE DEF g
    <3>4. n + 1 \in 0..n + 1
      BY <3>1
    <3>5. \A j : (\E i \in 0..n + 1 : g[i] = j) <=> (\E i \in 0..n : f[i] = j) \/ j = k
      BY <3>1, <3>2, <3>3, <3>4
    <3>6. \A j \in Chunks : j \in live' <=>
        (\E i \in 0..n + 1 : g[i] = j) \/ spare_chunk' = j \/ (\E c \in Consumers : old'[c] = j)
      BY <1>1, <3>5 DEF Queue, Accounted
    <3>7. \A i \in 0..n + 1 : g[i] \in Chunks /\ \A c \in Consumers : g[i] # old'[c]
      BY <1>1, <1>3, <2>1, <3>1, <3>2, QueueFacts DEF Queue, Accounted
    <3>8. \A i \in 0..n + 1 : g[i] # spare_chunk'
      BY <1>1, <3>7
    <3>9. \A c \in Consumers : old'[c] # NULL => old'[c] # spare_chunk'
      BY <1>1
    <3>10. Accounted(n + 1, g)'
      <4>1. \A i \in 0..n + 1 : g[i] # spare_chunk' /\ \A c \in Consumers : g[i] # old'[c]
        BY <3>7, <3>8
      <4> QED BY <3>6, <3>9, <4>1, Zenon DEF Accounted
    <3> QED BY <3>10 DEF g
  <2>5. Queue(n + 1, Longer(n, f, k))'
    BY <1>1, <2>1, <2>2, <2>3, <2>4, LinkStep
  <2> QED BY <1>3, <2>5
<1> QED BY <1>2, <1>3

\* A new chunk becomes the end chunk.
LEMMA AllocateStep ==
  ASSUME Typed, PushLocked, PushLocked', NEW n, NEW f, Queue(n, f),
         NEW p \in Producers, Allocate(p)
  PROVE  \E k \in Chunks \ live :
           /\ Queue(n + 1, Longer(n, f, k))'
           /\ live' = live \cup {k}
           /\ value' = [value EXCEPT ![k] = [i \in 0..ChunkSize - 1 |-> NULL]]
<1> USE ThreadsApart
<1>1. UNCHANGED <<size, beginVars, spare_chunk, old, slot, item>> /\ pc[p] = "alloc"
  BY DEF Allocate, takenVars
<1>2. PICK k \in Chunks \ live :
        /\ live' = live \cup {k}
        /\ value' = [value EXCEPT ![k] = [i \in 0..ChunkSize - 1 |-> NULL]]
        /\ Link(p, k)
  BY DEF Allocate
<1>3. \A i \in 0..n : f[i] # k /\ f[i] \in live
  BY QueueFacts
<1>4. k # spare_chunk /\ \A c \in Consumers : old[c] # k
  BY DEF Queue, Accounted
<1>5. \A i \in 0..n, q \in 0..ChunkSize - 1 : Content(<<f[i], q>>)' = Content(<<f[i], q>>)
  BY <1>2, <1>3 DEF Content, Typed
<1>6. Accounted(n + 1, Longer(n, f, k))'
  <2> DEFINE g == Longer(n, f, k)
  <2>1. n \in Nat /\ g[n + 1] = k /\ \A i \in 0..n : g[i] = f[i]
    BY QueueFacts DEF Longer
  <2>2. \A i \in 0..n + 1 : i \in 0..n \/ i = n + 1
    BY <2>1
  <2>3. \A i \in 0..n : i \in 0..n + 1
    BY <2>1
  <2> HIDE DEF g
  <2>4. n + 1 \in 0..n + 1
    BY <2>1
  <2>5. \A j : (\E i \in 0..n + 1 : g[i] = j) <=> (\E i \in 0..n : f[i] = j) \/ j = k
    BY <2>1, <2>2, <2>3, <2>4
  <2>6. \A j \in Chunks : j \in live' <=>
        (\E i \in 0..n + 1 : g[i] = j) \/ spare_chunk' = j \/ (\E c \in Consumers : old'[c] = j)
    BY <1>1, <1>2, <2>5 DEF Queue, Accounted
  <2>7. \A i \in 0..n + 1 : g[i] # spare_chunk' /\ \A c \in Consumers : g[i] # old'[c]
    BY <1>1, <1>4, <2>1, <2>2 DEF Queue, Accounted
  <2>8. \A c \in Consumers : old'[c] # NULL => old'[c] # spare_chunk'
    BY <1>1 DEF Queue, Accounted
  <2>9. Accounted(n + 1, g)'
    BY <2>6, <2>7, <2>8, Zenon DEF Accounted
  <2> QED BY <2>9 DEF g
<1>7. Queue(n + 1, Longer(n, f, k))'
  BY <1>1, <1>2, <1>3, <1>5, <1>6, LinkStep
<1> QED BY <1>2, <1>7

\* A slot that is not the chunk's last one is popped.
LEMMA PopWithinStep ==
  ASSUME Typed, NEW n, NEW f, Queue(n, f),
         NEW c \in Consumers, Pop(c), begin_pos + 1 # ChunkSize
  PROVE  Queue(n, f)'
<1> USE ThreadsApart
<1>1. /\ size > 0 /\ size' = size - 1 /\ begin_pos' = begin_pos + 1
      /\ begin_chunk' = begin_chunk /\ old' = old
      /\ UNCHANGED <<spare_chunk, live>>
  BY DEF Pop, memVars
<1>2. Consumer(c)
  BY DEF Consumer
<1>3. PICK a \in Nat : a = begin_pos + size /\ a = begin_pos' + size'
  BY <1>1 DEF Typed
<1>4. Reserved(f)'
  BY <1>1, <1>2, <1>3, ConsumersApart DEF Queue, Reserved, Content, Place
<1>5. (n * ChunkSize + end_pos = begin_pos + size + Extra)'
  BY <1>2, <1>3, ConsumersApart DEF Queue
<1>6. Links(next, begin_chunk, n, f)' /\ (f[n] = end_chunk)' /\ Accounted(n, f)'
  BY <1>1, <1>2, ConsumersApart DEF Queue, Links, Accounted
<1> QED BY <1>4, <1>5, <1>6 DEF Queue

\* The begin chunk is not the end chunk when its last slot is popped.
LEMMA PopLastStep ==
  ASSUME Typed, PushLocked, PopLocked, NEW n, NEW f, Queue(n, f),
         NEW c \in Consumers, Pop(c), begin_pos + 1 = ChunkSize
  PROVE  n \in Nat \ {0} /\ Queue(n - 1, Shorter(n, f))'
<1> USE ThreadsApart
<1> DEFINE g == Shorter(n, f)
<1>1. /\ size > 0 /\ size' = size - 1 /\ begin_pos' = 0
      /\ begin_chunk' = next[begin_chunk] /\ old' = [old EXCEPT ![c] = begin_chunk]
      /\ UNCHANGED <<spare_chunk, live>>
  BY DEF Pop, memVars
<1>2. Consumer(c) /\ pc[c] = "pop"
  BY DEF Consumer, Pop, Goto
<1>3. PICK m \in Nat : m = n * ChunkSize
  BY QueueFacts
<1>4. m + end_pos = (ChunkSize - 1) + size + Extra
  <2>1. n * ChunkSize + end_pos = begin_pos + size + Extra
    BY QueueFacts
  <2>2. begin_pos = ChunkSize - 1
    BY DEF Typed
  <2> QED BY <1>3, <2>1, <2>2
<1>5. n \in Nat \ {0}
  <2>1. n \in Nat /\ Extra \in {0, 1} /\ end_pos \in 0..ChunkSize /\ size \in Nat
    BY QueueFacts DEF Typed
  <2>2. end_pos = ChunkSize => Extra = 1
    BY DEF PushLocked, Extra, Reserving, Typed
  <2>3. n = 0 => m = 0
    BY <1>3
  <2>4. m # 0
    BY <1>1, <1>4, <2>1, <2>2
  <2> QED BY <2>1, <2>3, <2>4
<1>6. n - 1 \in Nat /\ (n - 1) * ChunkSize + ChunkSize = m
  BY <1>3, <1>5, Products, QueueAssumption, 1 * ChunkSize = ChunkSize, (n - 1) + 1 = n
<1>7. PICK l \in Nat : l = (n - 1) * ChunkSize
  BY <1>6, Products, QueueAssumption
<1>8. l + end_pos = 0 + size' + Extra
  <2>1. Extra \in {0, 1} /\ end_pos \in Nat /\ size \in Nat
    BY QueueFacts DEF Typed
  <2>2. l + ChunkSize = m
    BY <1>6, <1>7
  <2> QED BY <1>1, <1>4, <2>1, <2>2
<1>9. ((n - 1) * ChunkSize + end_pos = begin_pos + size + Extra)'
  BY <1>1, <1>2, <1>7, <1>8, ConsumersApart
<1>10. /\ g \in [0..n - 1 -> Chunks] /\ g[n - 1] = f[n]
       /\ Links(next, begin_chunk, n - 1, g)'
       /\ \A i \in 0..n - 1 : g[i] = f[i + 1] /\ f[i + 1] # f[0]
  <2>1. f \in [0..n -> Chunks] /\ Links(next, begin_chunk, n, f)
    BY DEF Queue
  <2>2. PICK nx : nx = next
    OBVIOUS
  <2>3. PICK b : b = begin_chunk
    OBVIOUS
  <2>4. Links(nx, b, n, f)
    BY <2>1, <2>2, <2>3
  <2>5. /\ g \in [0..n - 1 -> Chunks] /\ g[n - 1] = f[n]
        /\ Links(nx, nx[b], n - 1, g)
        /\ \A i \in 0..n - 1 : g[i] = f[i + 1] /\ f[i + 1] # f[0]
    BY <1>5, <2>1, <2>4, ShorterLinks
  <2>6. next' = nx /\ begin_chunk' = nx[b]
    BY <1>1, <1>2, <2>2, <2>3, ConsumersApart
  <2> QED BY <2>5, <2>6
<1>11. Accounted(n - 1, g)'
  <2>1. old[c] = NULL /\ begin_chunk = f[0] /\ f[0] # NULL
    BY <1>2, QueueFacts DEF PopLocked, Typed
  <2>2. \A d \in Consumers : old'[d] = IF d = c THEN f[0] ELSE old[d]
    BY <1>1, <2>1 DEF Typed
  <2>3. \A i \in 0..n : i = 0 \/ (i - 1 \in 0..n - 1 /\ (i - 1) + 1 = i)
    BY <1>5
  <2>4. \A i \in 0..n - 1 : i + 1 \in 0..n
    BY <1>5
  <2>5. 0 \in 0..n
    BY <1>5
  <2> HIDE DEF g
  <2>6. \A j : (\E i \in 0..n : f[i] = j) <=> (\E i \in 0..n - 1 : g[i] = j) \/ j = f[0]
    BY <1>10, <2>3, <2>4, <2>5
  <2>7. \A j \in Chunks : j \in live' <=>
        (\E i \in 0..n - 1 : g[i] = j) \/ spare_chunk' = j \/ (\E d \in Consumers : old'[d] = j)
    <3>1. \A j \in Chunks : (\E d \in Consumers : old'[d] = j)
                              <=> j = f[0] \/ \E d \in Consumers : old[d] = j
      BY <2>1, <2>2
    <3> QED BY <1>1, <2>6, <3>1 DEF Queue, Accounted
  <2>8. \A i \in 0..n - 1 : g[i] # spare_chunk' /\ \A d \in Consumers : g[i] # old'[d]
    BY <1>1, <1>10, <2>2, <2>4 DEF Queue, Accounted
  <2>9. \A d \in Consumers : old'[d] # NULL => old'[d] # spare_chunk'
    BY <1>1, <2>2, <2>5 DEF Queue, Accounted
  <2> QED BY <2>7, <2>8, <2>9, Zenon DEF Accounted
<1>12. Reserved(g)'
  <2> HIDE DEF g
  <2>1. PICK a \in Nat : a = size'
    BY <1>1 DEF Typed
  <2>2. a + ChunkSize = begin_pos + size /\ a = begin_pos' + size'
    BY <1>1, <2>1 DEF Typed
  <2>3. ASSUME NEW p \in Producers, Reserving(p) PROVE Place(g, a) = Place(f, begin_pos + size)
    <3>1. Extra = 1
      BY <2>3 DEF Extra
    <3>2. a < n * ChunkSize
      BY <1>3, <1>6, <1>7, <1>8, <2>1, <3>1 DEF Typed
    <3>3. Place(g, a) = Place(f, a + ChunkSize)
      BY <1>5, <3>2, ShorterPlace DEF g
    <3> QED BY <2>2, <3>3
  <2>4. ASSUME NEW p \in Producers, Reserving(p)
        PROVE  /\ Place(g, begin_pos + size)' = Place(f, begin_pos + size)
               /\ Content(Place(g, begin_pos + size))' = Content(Place(f, begin_pos + size))
    <3>1. Place(g, begin_pos + size)' = Place(f, begin_pos + size)
      BY <2>2, <2>3, <2>4 DEF Place
    <3>2. Content(Place(g, begin_pos + size))' = Content(Place(f, begin_pos + size))
      BY <1>1, <1>2, <3>1, ConsumersApart DEF Content
    <3> QED BY <3>1, <3>2
  <2>5. \A p \in Producers : pc'[p] = pc[p] /\ slot'[p] = slot[p] /\ item'[p] = item[p]
    BY <1>2, ConsumersApart
  <2>6. Reserved(f)
    BY DEF Queue
  <2> QED BY <2>4, <2>5, <2>6 DEF Reserved, Reserving
<1>13. g[n - 1] = end_chunk'
  BY <1>2, <1>10, ConsumersApart, QueueFacts
<1> QED BY <1>5, <1>6, <1>9, <1>10, <1>11, <1>12, <1>13 DEF Queue

\* The emptied chunk becomes the spare one; the one that is freed is not in the chain.
LEMMA RecycleStep ==
  ASSUME Typed, PushLocked, PopLocked, NEW n, NEW f, Queue(n, f),
         NEW c \in Consumers, Recycle(c)
  PROVE  Queue(n, f)'
<1> USE ThreadsApart
<1>1. UNCHANGED <<size, beginVars, value>> /\ pc[c] = "recycle"
      /\ spare_chunk' = old[c] /\ live' = live \ {spare_chunk}
      /\ old' = [old EXCEPT ![c] = NULL]
  BY DEF Recycle, Goto
<1>2. Consumer(c)
  BY DEF Consumer
<1>3. old[c] # NULL /\ \A d \in Consumers : d # c => old[d] = NULL
  BY <1>1 DEF PopLocked, Popping
<1>4. \A d \in Consumers : old'[d] = NULL
  BY <1>1, <1>3 DEF Typed
<1>5. Accounted(n, f)'
  <2>1. \A k \in Chunks : k \in live' <=> (\E i \in 0..n : f[i] = k) \/ spare_chunk' = k
    BY <1>1, <1>3 DEF Queue, Accounted
  <2>2. \A i \in 0..n : f[i] # spare_chunk' /\ f[i] # NULL
    BY <1>1, QueueFacts DEF Queue, Accounted
  <2> QED BY <1>4, <2>1, <2>2 DEF Accounted
<1>6. Reserved(f)'
  <2>1. begin_pos' = begin_pos /\ size' = size /\ value' = value
    BY <1>1 DEF beginVars
  <2>2. PICK a \in Nat : a = begin_pos + size
    BY QueueFacts
  <2>3. f[a \div ChunkSize] # spare_chunk
    <3>1. n \in Nat /\ a < n * ChunkSize + ChunkSize
      BY <2>2, QueueFacts
    <3>2. a \div ChunkSize \in 0..n
      BY <3>1, Within
    <3> QED BY <3>2 DEF Queue, Accounted
  <2>4. Content(Place(f, a))' = Content(Place(f, a))
    BY <1>1, <2>1, <2>3 DEF Content, Place
  <2>5. Place(f, begin_pos + size)' = Place(f, a) /\ Place(f, begin_pos + size) = Place(f, a)
    BY <2>1, <2>2 DEF Place
  <2>6. Content(Place(f, begin_pos + size))' = Content(Place(f, begin_pos + size))
    BY <2>4, <2>5 DEF Content
  <2>7. \A p \in Producers : pc'[p] = pc[p] /\ slot'[p] = slot[p] /\ item'[p] = item[p]
    BY <1>2, ConsumersApart
  <2> QED BY <2>5, <2>6, <2>7 DEF Queue, Reserved
<1>7. Links(next, begin_chunk, n, f)' /\ (f[n] = end_chunk)'
  BY <1>1, <1>2, ConsumersApart DEF Queue, Links, beginVars
<1>8. (n * ChunkSize + end_pos = begin_pos + size + Extra)'
  BY <1>1, <1>2, ConsumersApart DEF Queue, beginVars
<1> QED BY <1>5, <1>6, <1>7, <1>8 DEF Queue

\* A step that pops nothing leaves the chain or puts a chunk behind it.
LEMMA ChainStep ==
  ASSUME Typed, PushLocked, PopLocked, PushLocked', NEW n, NEW f, Queue(n, f),
         [Next]_vars, \A c \in Consumers : ~Pop(c)
  PROVE  \E m, g : /\ Queue(m, g)'
                   /\ \A a \in Nat : a < begin_pos + size => Place(g, a) = Place(f, a)
<1>1. CASE Queue(n, f)'
  BY <1>1
<1>2. CASE \E k : Queue(n + 1, Longer(n, f, k))'
  <2>1. PICK k : Queue(n + 1, Longer(n, f, k))'
    BY <1>2
  <2>2. ASSUME NEW a \in Nat, a < begin_pos + size
        PROVE  Place(Longer(n, f, k), a) = Place(f, a)
    <3>1. PICK b \in Nat : b = begin_pos + size
      BY QueueFacts
    <3>2. PICK l \in Nat : l = n * ChunkSize
      BY QueueFacts
    <3>3. a < b /\ b < l + ChunkSize
      BY <2>2, <3>1, <3>2, QueueFacts
    <3>4. n \in Nat /\ a < n * ChunkSize + ChunkSize
      BY <3>2, <3>3, QueueFacts, QueueAssumption
    <3> QED BY <3>4, LongerPlace
  <2> QED BY <2>1, <2>2
<1>3. ASSUME NEW p \in Producers, Producer(p)
      PROVE  Queue(n, f)' \/ \E k : Queue(n + 1, Longer(n, f, k))'
  <2>1. CASE TakeSpare(p)
    <3>1. PICK k : k = spare_chunk
      OBVIOUS
    <3> QED BY <2>1, <3>1, TakeSpareStep
  <2>2. CASE Allocate(p)
    BY <2>2, AllocateStep
  <2>3. CASE LockPush(p)
    BY <2>3, LockPushStep
  <2>4. CASE PushCopy(p) \/ BackPos(p)
    BY <2>4, ReserveStep
  <2>5. CASE AllocFails(p)
    BY <2>5, AllocFailsStep
  <2>6. CASE Fill(p)
    BY <2>6, FillStep
  <2>7. CASE Count(p)
    BY <2>7, CountStep
  <2>8. CASE UnlockPush(p)
    BY <2>8, UnlockPushStep
  <2> QED BY <1>3, <2>1, <2>2, <2>3, <2>4, <2>5, <2>6, <2>7, <2>8 DEF Producer
<1>4. ASSUME NEW c \in Consumers, Consumer(c)
      PROVE  Queue(n, f)'
  <2>1. CASE Recycle(c)
    BY <2>1, RecycleStep
  <2>2. CASE Start(c) \/ Front(c) \/ Read(c) \/ PopEmpty(c) \/ UnlockPop(c) \/ LateRead(c)
    BY <2>2, QuietConsumerStep
  <2> QED BY <1>4, <2>1, <2>2 DEF Consumer
<1>5. CASE UNCHANGED vars
  <2>1. Queue(n, f)'
    BY <1>5 DEF Queue, Links, Accounted, Reserved, Extra, Reserving, Content, Place, vars,
                beginVars, endVars, memVars, takenVars
  <2> QED BY <1>1, <2>1
<1> QED BY <1>1, <1>2, <1>3, <1>4, <1>5 DEF Next

\* There is a chain after every step.
LEMMA QueueStep ==
  ASSUME Typed, PushLocked, PopLocked, Linked, PushLocked', [Next]_vars
  PROVE  Linked'
<1>1. PICK n \in Nat : \E f : Queue(n, f)
  BY DEF Linked
<1>2. PICK f : Queue(n, f)
  BY <1>1
<1>3. SUFFICES \E m, g : Queue(m, g)'
  BY DEF Linked, Queue
<1>4. ASSUME NEW c \in Consumers, Pop(c)
      PROVE  Queue(n, f)' \/ Queue(n - 1, Shorter(n, f))'
  <2>1. CASE begin_pos + 1 # ChunkSize
    BY <1>2, <1>4, <2>1, PopWithinStep
  <2>2. CASE begin_pos + 1 = ChunkSize
    BY <1>2, <1>4, <2>2, PopLastStep
  <2> QED BY <2>1, <2>2
<1>5. CASE \A c \in Consumers : ~Pop(c)
  BY <1>2, <1>5, ChainStep
<1> QED BY <1>4, <1>5

\* No step changes what the counted slots hold: producers write behind them, and the chunks
\* that are zeroed or freed are others.
LEMMA ContentKept ==
  ASSUME Typed, PushLocked, PushLocked', NEW n, NEW f, Queue(n, f),
         NEW a \in Nat, a < begin_pos + size, [Next]_vars
  PROVE  Content(Place(f, a))' = Content(Place(f, a))
<1> USE ThreadsApart
<1>1. n \in Nat /\ f \in [0..n -> Chunks] /\ \A i, j \in 0..n : f[i] = f[j] => i = j
  BY QueueFacts
<1>2. PICK b \in Nat : b = begin_pos + size
  BY QueueFacts
<1>3. b < n * ChunkSize + ChunkSize /\ n * ChunkSize \in Nat
  BY <1>2, QueueFacts
<1>4. a < n * ChunkSize + ChunkSize /\ a # b
  BY <1>2, <1>3, QueueAssumption
<1>5. Place(f, a) # Place(f, b)
  BY <1>1, <1>3, <1>4, PlacesDiffer
<1>6. PICK i \in 0..n, r \in 0..ChunkSize - 1 : Place(f, a) = <<f[i], r>>
  BY <1>1, <1>4, Within DEF Place
<1>7. f[i] \in live /\ f[i] # spare_chunk /\ f[i] \in Chunks
  BY <1>1, QueueFacts DEF Queue, Accounted
<1>8. PICK x \in Slots : x = Place(f, a)
  BY <1>6, <1>7 DEF Slots
<1>9. CASE live' = live /\ value' = value
  BY <1>9 DEF Content, Place
<1>10. ASSUME NEW p \in Producers, PushCopy(p) PROVE Content(x)' = Content(x)
  <2>1. /\ pc[p] = "reserve" /\ live' = live
        /\ WriteSlot(<<end_chunk, end_pos>>, item[p])
    BY <1>10 DEF PushCopy, Reserve, Goto
  <2>2. end_pos < ChunkSize /\ Place(f, b) = <<end_chunk, end_pos>>
    BY <1>2, <2>1, TakenPlace
  <2>3. PICK k \in live : k = end_chunk
    <3>1. n \in 0..n
      BY <1>1
    <3> QED BY <3>1, QueueFacts
  <2>4. PICK q \in 0..ChunkSize - 1 : q = end_pos
    BY <2>2 DEF Typed
  <2>5. value' = [value EXCEPT ![k][q] = item[p]]
    BY <2>1, <2>2, <2>3, <2>4 DEF WriteSlot
  <2>6. x # <<k, q>>
    BY <1>5, <1>8, <2>2, <2>3, <2>4
  <2> QED BY <2>1, <2>5, <2>6, Written
<1>11. ASSUME NEW p \in Producers, Fill(p) PROVE Content(x)' = Content(x)
  <2>1. slot[p] = Place(f, b) /\ slot[p] \in live \X (0..ChunkSize - 1)
    BY <1>2, <1>11, FillStep
  <2>2. PICK k \in live, q \in 0..ChunkSize - 1 : slot[p] = <<k, q>>
    BY <2>1
  <2>3. live' = live /\ WriteSlot(<<k, q>>, item[p]) /\ q < ChunkSize
    BY <1>11, <2>2 DEF Fill
  <2>4. value' = [value EXCEPT ![k][q] = item[p]]
    BY <2>3 DEF WriteSlot
  <2>5. x # <<k, q>>
    BY <1>5, <1>8, <2>1, <2>2
  <2> QED BY <2>3, <2>4, <2>5, Written
<1>12. ASSUME NEW p \in Producers, Allocate(p) PROVE Content(x)' = Content(x)
  <2>1. PICK k \in Chunks \ live :
          /\ live' = live \cup {k}
          /\ value' = [value EXCEPT ![k] = [j \in 0..ChunkSize - 1 |-> NULL]]
    BY <1>12 DEF Allocate
  <2> QED BY <1>6, <1>7, <1>8, <2>1 DEF Content, Typed
<1>13. ASSUME NEW c \in Consumers, Recycle(c) PROVE Content(x)' = Content(x)
  <2>1. value' = value /\ live' = live \ {spare_chunk}
    BY <1>13 DEF Recycle
  <2> QED BY <1>6, <1>7, <1>8, <2>1 DEF Content
<1>14. Content(x)' = Content(x) => Content(Place(f, a))' = Content(Place(f, a))
  BY <1>8 DEF Content, Place
<1>15. ASSUME NEW p \in Producers, Producer(p) PROVE Content(Place(f, a))' = Content(Place(f, a))
  <2>1. CASE LockPush(p) \/ BackPos(p) \/ TakeSpare(p) \/ AllocFails(p) \/ Count(p)
             \/ UnlockPush(p)
    <3>1. live' = live /\ value' = value
      BY <2>1 DEF LockPush, BackPos, Reserve, TakeSpare, AllocFails, Count, UnlockPush, memVars
    <3> QED BY <1>9, <3>1
  <2> QED BY <1>10, <1>11, <1>12, <1>14, <1>15, <2>1 DEF Producer
<1>16. ASSUME NEW c \in Consumers, Consumer(c) PROVE Content(Place(f, a))' = Content(Place(f, a))
  <2>1. CASE Start(c) \/ Front(c) \/ Read(c) \/ PopEmpty(c) \/ Pop(c) \/ UnlockPop(c)
             \/ LateRead(c)
    <3>1. live' = live /\ value' = value
      BY <2>1 DEF Start, Front, Read, PopEmpty, Pop, UnlockPop, LateRead, memVars
    <3> QED BY <1>9, <3>1
  <2> QED BY <1>13, <1>14, <1>16, <2>1 DEF Consumer
<1>17. CASE UNCHANGED vars
  BY <1>9, <1>17 DEF vars, memVars
<1> QED BY <1>15, <1>16, <1>17 DEF Next

\* A slot holds a value or nothing.
LEMMA ContentTyped ==
  ASSUME Typed, NEW x \in Slots
  PROVE  Content(x) \in Values \cup {NULL}
  BY ThreadsApart DEF Typed, Slots, Content

\* The types are kept: the chunk behind an emptied one exists, a pointer that is read is set.
LEMMA TypedStep ==
  ASSUME Typed, PushLocked, PopLocked, Linked, Linked', [Next]_vars
  PROVE  Typed'
<1> USE ThreadsApart
<1>1. begin_chunk' \in Chunks /\ end_chunk' \in Chunks
  <2>1. PICK n \in Nat : \E f : Queue(n, f)'
    BY DEF Linked
  <2>2. PICK f : Queue(n, f)'
    BY <2>1
  <2>3. 0 \in 0..n /\ n \in 0..n
    OBVIOUS
  <2> QED BY <2>2, <2>3 DEF Queue, Links
<1>2. ASSUME NEW p \in Producers, Producer(p) PROVE Typed'
  <2>1. size' \in Nat
    BY <1>2 DEF Typed, Producer, LockPush, PushCopy, BackPos, Reserve, TakeSpare, Allocate,
                AllocFails, Fill, Count, UnlockPush
  <2>2. end_pos' \in 0..ChunkSize
    <3>1. CASE PushCopy(p) \/ BackPos(p)
      <4>1. pc[p] = "reserve" /\ end_pos' = end_pos + 1
        BY <3>1 DEF PushCopy, BackPos, Reserve, Goto
      <4>2. end_pos # ChunkSize
        BY <4>1 DEF PushLocked
      <4> QED BY <4>1, <4>2 DEF Typed
    <3>2. CASE ~(PushCopy(p) \/ BackPos(p))
      BY <1>2, <3>2 DEF Typed, Producer, LockPush, TakeSpare, Allocate, Link, AllocFails, Fill,
                        Count, UnlockPush, endVars
    <3> QED BY <3>1, <3>2
  <2>3. spare_chunk' \in Chunks \cup {NULL} /\ live' \subseteq Chunks
    BY <1>2 DEF Typed, Producer, LockPush, PushCopy, BackPos, Reserve, TakeSpare, Allocate,
                AllocFails, Fill, Count, UnlockPush, memVars
  <2>4. next' \in [Chunks -> Chunks \cup {NULL}]
    <3>1. CASE UNCHANGED next
      BY <3>1 DEF Typed
    <3>2. CASE \E k \in Chunks : Link(p, k)
      <4>1. PICK k \in Chunks : next' = [next EXCEPT ![k] = NULL, ![end_chunk] = k]
        BY <3>2 DEF Link
      <4> QED BY <4>1 DEF Typed
    <3>3. UNCHANGED next \/ \E k \in Chunks : Link(p, k)
      BY <1>2 DEF Typed, Producer, LockPush, PushCopy, BackPos, Reserve, TakeSpare, Allocate,
                  AllocFails, Fill, Count, UnlockPush, endVars
    <3> QED BY <3>1, <3>2, <3>3
  <2>5. value' \in [Chunks -> [0..ChunkSize - 1 -> Values \cup {NULL}]]
    <3>1. CASE UNCHANGED value
      BY <3>1 DEF Typed
    <3>2. CASE PushCopy(p)
      <4>1. WriteSlot(<<end_chunk, end_pos>>, item[p])
        BY <3>2 DEF PushCopy
      <4> QED BY <4>1 DEF WriteSlot, Typed
    <3>3. CASE Fill(p)
      <4>1. PICK n \in Nat : \E f : Queue(n, f)
        BY DEF Linked
      <4>2. PICK f : Queue(n, f)
        BY <4>1
      <4>3. pc[p] = "fill" /\ WriteSlot(slot[p], item[p]) /\ live' = live
        BY <3>3 DEF Fill, Goto
      <4>4. slot[p] # NULL
        <5>1. PICK a \in Nat : a = begin_pos + size
          BY <4>2, QueueFacts
        <5>2. a < n * ChunkSize + ChunkSize /\ f \in [0..n -> Chunks]
          BY <4>2, <5>1, QueueFacts
        <5>3. a \div ChunkSize \in 0..n /\ a % ChunkSize \in 0..ChunkSize - 1
          BY <5>2, Within
        <5>4. Place(f, a) \in Slots
          BY <5>2, <5>3 DEF Place, Slots
        <5> QED BY <4>2, <4>3, <5>1, <5>4 DEF Queue, Reserved
      <4>5. PICK k \in Chunks, q \in 0..ChunkSize : slot[p] = <<k, q>>
        BY <4>4 DEF Typed, Slots
      <4> QED BY <4>3, <4>5 DEF WriteSlot, Typed
    <3>4. CASE Allocate(p)
      BY <3>4 DEF Allocate, Typed
    <3>5. UNCHANGED value \/ PushCopy(p) \/ Fill(p) \/ Allocate(p)
      BY <1>2 DEF Producer, LockPush, BackPos, TakeSpare, AllocFails, Count, UnlockPush, memVars
    <3> QED BY <3>1, <3>2, <3>3, <3>4, <3>5
  <2>6. spin_push' \in Producers \cup {NULL} /\ pushed' \in 0..MaxPush
    BY <1>2, QueueAssumption
    DEF Typed, Producer, LockPush, PushCopy, BackPos, Reserve, TakeSpare, Allocate,
        AllocFails, Fill, Count, UnlockPush, constVars
  <2>7. pc' \in [Threads -> ProducerLabels \cup ConsumerLabels] /\ pc'[p] \in ProducerLabels
        /\ \A q \in Producers : q # p => pc'[q] = pc[q]
    <3>1. \E l \in ProducerLabels : pc' = [pc EXCEPT ![p] = l]
      <4>1. CASE LockPush(p) \/ AllocFails(p) \/ Fill(p) \/ Count(p) \/ UnlockPush(p)
        BY <4>1 DEF LockPush, AllocFails, Fill, Count, UnlockPush, Goto, ProducerLabels
      <4>2. CASE PushCopy(p) \/ BackPos(p)
        BY <4>2 DEF PushCopy, BackPos, Reserve, Goto, ProducerLabels
      <4>3. CASE TakeSpare(p) \/ Allocate(p)
        BY <4>3 DEF TakeSpare, Allocate, Link, Goto, ProducerLabels
      <4> QED BY <1>2, <4>1, <4>2, <4>3 DEF Producer
    <3> QED BY <3>1 DEF Typed
  <2>8. slot' \in [Threads -> Slots \cup {NULL}]
    <3>1. <<end_chunk, end_pos>> \in Slots
      BY DEF Typed, Slots
    <3>2. CASE BackPos(p)
      BY <3>1, <3>2 DEF BackPos, Typed
    <3>3. CASE PushCopy(p) \/ UnlockPush(p)
      BY <3>3 DEF PushCopy, UnlockPush, Typed
    <3>4. CASE ~(BackPos(p) \/ PushCopy(p) \/ UnlockPush(p))
      <4>1. slot' = slot
        BY <1>2, <3>4 DEF Producer, LockPush, TakeSpare, Allocate, AllocFails, Fill, Count
      <4> QED BY <4>1 DEF Typed
    <3> QED BY <3>2, <3>3, <3>4
  <2>9. item' \in [Threads -> Values \cup {NULL}]
    <3>1. pushed < MaxPush => pushed + 1 \in Values
      BY QueueAssumption DEF Typed, Values
    <3>2. CASE LockPush(p) \/ UnlockPush(p)
      <4>1. \E v \in Values \cup {NULL} : item' = [item EXCEPT ![p] = v]
        BY <3>1, <3>2 DEF LockPush, UnlockPush
      <4> QED BY <4>1 DEF Typed
    <3>3. CASE ~(LockPush(p) \/ UnlockPush(p))
      <4>1. item' = item
        BY <1>2, <3>3 DEF Producer, PushCopy, BackPos, Reserve, TakeSpare, Allocate, AllocFails,
                          Fill, Count
      <4> QED BY <4>1 DEF Typed
    <3> QED BY <3>2, <3>3
  <2> QED
    BY <1>1, <1>2, <2>1, <2>2, <2>3, <2>4, <2>5, <2>6, <2>7, <2>8, <2>9, ProducersApart
    DEF Typed
<1>3. ASSUME NEW c \in Consumers, Consumer(c) PROVE Typed'
  <2>1. size' \in Nat
    BY <1>3 DEF Typed, Consumer, Start, Front, Read, PopEmpty, Pop, Recycle, UnlockPop, LateRead
  <2>2. begin_pos' \in 0..ChunkSize - 1
    BY <1>3 DEF Typed, Consumer, Start, Front, Read, PopEmpty, Pop, Recycle, UnlockPop,
                LateRead, beginVars
  <2>3. spare_chunk' \in Chunks \cup {NULL} /\ live' \subseteq Chunks
        /\ old' \in [Consumers -> Chunks \cup {NULL}]
    <3>1. CASE Pop(c)
      BY <3>1 DEF Typed, Pop, memVars
    <3>2. CASE Recycle(c)
      BY <3>2 DEF Typed, Recycle
    <3>3. CASE ~(Pop(c) \/ Recycle(c))
      <4>1. UNCHANGED <<spare_chunk, live, old>>
        BY <1>3, <3>3 DEF Consumer, Start, Front, Read, PopEmpty, UnlockPop, LateRead,
                          memVars, takenVars
      <4> QED BY <4>1 DEF Typed
    <3> QED BY <3>1, <3>2, <3>3
  <2>4. spin_pop' \in Consumers \cup {NULL}
    BY <1>3 DEF Typed, Consumer, Start, Front, Read, PopEmpty, Pop, Recycle, UnlockPop, LateRead
  <2>5. pc' \in [Threads -> ProducerLabels \cup ConsumerLabels] /\ pc'[c] \in ConsumerLabels
        /\ \A d \in Consumers : d # c => pc'[d] = pc[d]
    <3>1. \E l \in ConsumerLabels : pc' = [pc EXCEPT ![c] = l]
      BY <1>3 DEF Consumer, Start, Front, Read, PopEmpty, Pop, Recycle, UnlockPop, LateRead,
                  Goto, ConsumerLabels
    <3> QED BY <3>1 DEF Typed
  <2>6. <<begin_chunk, begin_pos>> \in Slots
    BY DEF Typed, Slots
  <2>7. slot' \in [Threads -> Slots \cup {NULL}]
    <3>1. CASE Start(c) \/ Front(c) \/ Pop(c)
      <4>1. \E x \in Slots \cup {NULL} : slot' = [slot EXCEPT ![c] = x]
        BY <2>6, <3>1 DEF Start, Front, Pop
      <4> QED BY <4>1 DEF Typed
    <3>2. CASE ~(Start(c) \/ Front(c) \/ Pop(c))
      <4>1. slot' = slot
        BY <1>3, <3>2 DEF Consumer, Read, PopEmpty, Recycle, UnlockPop, LateRead
      <4> QED BY <4>1 DEF Typed
    <3> QED BY <3>1, <3>2
  <2>8. Content(<<begin_chunk, begin_pos>>) \in Values \cup {NULL}
        /\ (slot[c] \in Slots => Content(slot[c]) \in Values \cup {NULL})
    BY <2>6, ContentTyped
  <2>9. popped' \in [Consumers -> Values \cup {NULL}]
    BY <1>3, <2>8 DEF Typed, Consumer, Start, Front, Read, PopEmpty, Pop, Recycle, UnlockPop,
                      LateRead, takenVars
  <2>10. item' \in [Threads -> Values \cup {NULL}]
    <3>1. CASE Read(c) \/ LateRead(c)
      <4>1. pc[c] \in {"read", "late"} /\ item' = [item EXCEPT ![c] = Content(slot[c])]
        BY <3>1 DEF Read, LateRead, Goto
      <4>2. slot[c] \in Slots
        BY <4>1 DEF PopLocked, Typed
      <4> QED BY <2>8, <4>1, <4>2 DEF Typed
    <3>2. CASE ~(Read(c) \/ LateRead(c))
      BY <1>3, <3>2 DEF Typed, Consumer, Start, Front, PopEmpty, Pop, Recycle, UnlockPop
    <3> QED BY <3>1, <3>2
  <2> QED
    BY <1>1, <1>3, <2>1, <2>2, <2>3, <2>4, <2>5, <2>7, <2>9, <2>10, ConsumersApart DEF Typed
<1>4. CASE UNCHANGED vars
  BY <1>4 DEF Typed, vars, beginVars, endVars, memVars, constVars, takenVars
<1> QED BY <1>2, <1>3, <1>4 DEF Next

\* The first value does not change while it is in the queue.
LEMMA FirstKept ==
  ASSUME Typed, PushLocked, PushLocked', Linked, [Next]_vars, size > 0,
         NEW x, x = <<begin_chunk, begin_pos>>
  PROVE  Content(x)' = Content(x)
<1>1. PICK n \in Nat : \E f : Queue(n, f)
  BY DEF Linked
<1>2. PICK f : Queue(n, f)
  BY <1>1
<1>3. PICK q \in 0..ChunkSize - 1 : q = begin_pos
  BY DEF Typed
<1>4. Place(f, q) = x
  BY <1>2, <1>3, PlaceFirst, QueueFacts
<1>5. q \in Nat /\ q < begin_pos + size
  BY <1>3 DEF Typed
<1>6. Content(Place(f, q))' = Content(Place(f, q))
  BY <1>2, <1>5, ContentKept
<1> QED BY <1>4, <1>6 DEF Content

\* With zqueue_front and zqueue_lock_front the acting consumer is the only one under way.
LEMMA ConsumerAlone ==
  ASSUME Typed, PopLocked, usage # "lock_pop", NEW c \in Consumers, Consumer(c)
  PROVE  \A d \in Consumers : d # c => pc[d] = "idle"
<1> USE ThreadsApart
<1>1. \A d \in Consumers : pc[d] # "idle" => Popping(d)
  BY DEF Typed, PopLocked, Popping, ConsumerLabels
<1>2. CASE pc[c] # "idle"
  BY <1>1, <1>2 DEF PopLocked
<1>3. CASE pc[c] = "idle"
  <2>1. Start(c)
    BY <1>3 DEF Consumer, Front, Read, PopEmpty, Pop, Recycle, UnlockPop, LateRead, Goto
  <2>2. IF usage = "front" THEN \A d \in Consumers : pc[d] = "idle" ELSE spin_pop = NULL
    BY <2>1 DEF Start
  <2> QED BY <1>1, <2>2 DEF PopLocked
<1> QED BY <1>2, <1>3

\* What a consumer read is what it pops.
LEMMA ReadsStep ==
  ASSUME Typed, PushLocked, PushLocked', PopLocked, Linked, Reads, [Next]_vars
  PROVE  Reads'
<1> USE ThreadsApart
<1>0. SUFFICES ASSUME usage' # "lock_pop" PROVE Reads'
  BY DEF Reads
<1>1. ASSUME NEW p \in Producers, Producer(p) PROVE Reads'
  <2>1. usage # "lock_pop"
    BY <1>0, <1>1, ProducersApart
  <2>2. size' \in {size, size + 1}
    BY <1>1 DEF Producer, LockPush, PushCopy, BackPos, Reserve, TakeSpare, Allocate,
                AllocFails, Fill, Count, UnlockPush
  <2>3. PICK x : x = <<begin_chunk, begin_pos>>
    OBVIOUS
  <2>4. <<begin_chunk', begin_pos'>> = x
    BY <1>1, <2>3, ProducersApart
  <2>5. size > 0 => Content(x)' = Content(x)
    BY <2>3, FirstKept
  <2>6. ASSUME NEW c \in Consumers
        PROVE  /\ pc'[c] \in {"idle", "front", "recycle", "unlock"} => item'[c] = popped'[c]
               /\ pc'[c] \in {"read", "pop"} => size' > 0
               /\ pc'[c] = "read" => slot'[c] = <<begin_chunk', begin_pos'>>
               /\ pc'[c] = "pop" => item'[c] = Content(x)'
    <3>1. /\ pc[c] \in {"idle", "front", "recycle", "unlock"} => item[c] = popped[c]
          /\ pc[c] \in {"read", "pop"} => size > 0
          /\ pc[c] = "read" => slot[c] = <<begin_chunk, begin_pos>>
          /\ pc[c] = "pop" => item[c] = Content(x)
      BY <2>1, <2>3 DEF Reads
    <3>2. /\ pc'[c] = pc[c] /\ slot'[c] = slot[c] /\ item'[c] = item[c]
          /\ popped' = popped
      BY <1>1, ProducersApart
    <3>3. size \in Nat /\ (size > 0 => size' > 0)
      BY <2>2 DEF Typed
    <3> QED BY <2>3, <2>4, <2>5, <3>1, <3>2, <3>3
  <2>7. Content(<<begin_chunk, begin_pos>>)' = Content(x)'
    BY <2>4 DEF Content
  <2> QED BY <2>6, <2>7 DEF Reads
<1>2. ASSUME NEW c \in Consumers, Consumer(c) PROVE Reads'
  <2>1. usage # "lock_pop"
    BY <1>0, <1>2, ConsumersApart
  <2>2. \A d \in Consumers : d # c => pc[d] = "idle" /\ item[d] = popped[d]
    BY <1>2, <2>1, ConsumerAlone DEF Reads
  <2>3. \A d \in Consumers : d # c => pc'[d] = "idle" /\ item'[d] = popped'[d]
    <3>1. \A d \in Consumers : d # c => pc'[d] = pc[d]
      BY <1>2 DEF Typed, Consumer, Start, Front, Read, PopEmpty, Pop, Recycle, UnlockPop,
                  LateRead, Goto
    <3>2. \A d \in Consumers : d # c => item'[d] = item[d]
      BY <1>2 DEF Typed, Consumer, Start, Front, Read, PopEmpty, Pop, Recycle, UnlockPop,
                  LateRead
    <3>3. \A d \in Consumers : d # c => popped'[d] = popped[d]
      BY <1>2 DEF Typed, Consumer, Start, Front, Read, PopEmpty, Pop, Recycle, UnlockPop,
                  LateRead, takenVars
    <3> QED BY <2>2, <3>1, <3>2, <3>3
  <2>4. SUFFICES /\ pc'[c] \in {"idle", "front", "recycle", "unlock"} => item'[c] = popped'[c]
                 /\ pc'[c] \in {"read", "pop"} => size' > 0
                 /\ pc'[c] = "read" => slot'[c] = <<begin_chunk', begin_pos'>>
                 /\ pc'[c] = "pop" => item'[c] = Content(<<begin_chunk, begin_pos>>)'
    BY <2>3 DEF Reads
  <2>5. /\ pc[c] \in {"idle", "front", "recycle", "unlock"} => item[c] = popped[c]
        /\ pc[c] \in {"read", "pop"} => size > 0
        /\ pc[c] = "read" => slot[c] = <<begin_chunk, begin_pos>>
        /\ pc[c] = "pop" => item[c] = Content(<<begin_chunk, begin_pos>>)
    BY <2>1 DEF Reads
  <2>6. CASE Start(c)
    <3>1. pc'[c] = "front" /\ pc[c] = "idle" /\ item' = item /\ popped' = popped
      BY <2>1, <2>6 DEF Start, Goto, Typed, takenVars
    <3> QED BY <2>5, <3>1
  <2>7. CASE Front(c)
    <3>1. /\ pc[c] = "front" /\ pc'[c] = IF size = 0 THEN "unlock" ELSE "read"
          /\ slot'[c] = IF size = 0 THEN NULL ELSE <<begin_chunk, begin_pos>>
          /\ item' = item /\ popped' = popped /\ size' = size
          /\ begin_chunk' = begin_chunk /\ begin_pos' = begin_pos
      BY <2>7 DEF Front, Goto, Typed, takenVars, beginVars
    <3>2. size \in Nat
      BY DEF Typed
    <3> QED BY <2>5, <3>1, <3>2
  <2>8. CASE Read(c)
    <3>1. /\ pc[c] = "read" /\ pc'[c] = "pop" /\ item'[c] = Content(slot[c]) /\ size' = size
          /\ begin_chunk' = begin_chunk /\ begin_pos' = begin_pos
          /\ live' = live /\ value' = value
      BY <2>8 DEF Read, Goto, Typed, beginVars, memVars
    <3>2. Content(<<begin_chunk, begin_pos>>)' = Content(<<begin_chunk, begin_pos>>)
      BY <3>1 DEF Content
    <3> QED BY <2>5, <3>1, <3>2
  <2>9. CASE PopEmpty(c)
    <3>1. size = 0 /\ pc[c] = "pop"
      BY <2>9 DEF PopEmpty, Goto
    <3> QED BY <2>5, <3>1
  <2>10. CASE Pop(c)
    <3>1. /\ pc[c] = "pop" /\ pc'[c] \in {"recycle", "unlock"} /\ item' = item
          /\ popped'[c] = Content(<<begin_chunk, begin_pos>>)
      BY <2>10 DEF Pop, Goto, Typed
    <3> QED BY <2>5, <3>1
  <2>11. CASE Recycle(c) \/ UnlockPop(c)
    <3>1. /\ pc[c] \in {"recycle", "unlock"} /\ pc'[c] \in {"idle", "unlock"}
          /\ item' = item /\ popped' = popped
      BY <2>1, <2>11 DEF Recycle, UnlockPop, Goto, Typed, takenVars
    <3> QED BY <2>5, <3>1
  <2>12. ~LateRead(c)
    BY <2>1 DEF LateRead, Goto, PopLocked
  <2> QED BY <1>2, <2>6, <2>7, <2>8, <2>9, <2>10, <2>11, <2>12 DEF Consumer
<1>3. CASE UNCHANGED vars
  BY <1>0, <1>3 DEF Reads, Content, vars, beginVars, memVars, takenVars, constVars
<1> QED BY <1>1, <1>2, <1>3 DEF Next

-----------------------------------------------------------------------------
(* The theorems.                                                           *)

\* The created queue has one chunk.
LEMMA QueueInit == Init => QueueInv
<1> SUFFICES ASSUME Init PROVE QueueInv
  OBVIOUS
<1> USE ThreadsApart
<1>1. PICK k \in Chunks : begin_chunk = k /\ end_chunk = k /\ live = {k}
  BY DEF Init
<1>2. Typed
  BY <1>1, QueueAssumption DEF Init, Typed, ProducerLabels, ConsumerLabels
<1>3. PushLocked /\ PopLocked /\ Reads
  BY DEF Init, PushLocked, PopLocked, Popping, Reads
<1>4. Linked
  <2> DEFINE f == [i \in 0..0 |-> k]
  <2>1. f \in [0..0 -> Chunks] /\ f[0] = k /\ \A i \in 0..0 : i = 0
    OBVIOUS
  <2>2. Extra = 0
    BY DEF Init, Extra, Reserving
  <2>3. 0 * ChunkSize + end_pos = begin_pos + size + Extra
    BY <2>2 DEF Init
  <2> HIDE DEF f
  <2>4. Links(next, begin_chunk, 0, f) /\ f[0] = end_chunk
    BY <1>1, <2>1 DEF Init, Links
  <2>5. Accounted(0, f)
    BY <1>1, <2>1 DEF Init, Accounted
  <2>6. Reserved(f)
    BY DEF Init, Reserved
  <2>7. Queue(0, f)
    BY <2>1, <2>3, <2>4, <2>5, <2>6 DEF Queue
  <2> QED BY <2>1, <2>7 DEF Linked
<1> QED BY <1>2, <1>3, <1>4 DEF QueueInv

\* QueueInv is inductive.
LEMMA QueueInvStep ==
  ASSUME QueueInv, [Next]_vars
  PROVE  QueueInv'
<1>1. PushLocked' /\ PopLocked'
  BY PushLockedStep, PopLockedStep DEF QueueInv
<1>2. Linked'
  BY <1>1, QueueStep DEF QueueInv
<1> QED BY <1>1, <1>2, TypedStep, ReadsStep DEF QueueInv

\* The types, the locks and the chain hold in every behaviour: no producer writes behind its
\* chunk, no consumer follows a link that is not there (queue.h:268-450).
THEOREM Inductive == Spec => []QueueInv
<1>1. QueueInv /\ [Next]_vars => QueueInv'
  BY QueueInvStep
<1> QED BY QueueInit, <1>1, PTL DEF Spec

\* Chunk is the chain, followed by NULL.
LEMMA ChunkIs ==
  ASSUME Typed, NEW n, NEW f, Queue(n, f)
  PROVE  /\ Cardinality(Chunks) \in Nat /\ n \in Nat /\ n < Cardinality(Chunks)
         /\ Chunk = [i \in 0..Cardinality(Chunks) |-> IF i <= n THEN f[i] ELSE NULL]
<1>1. PICK nx : nx = next
  OBVIOUS
<1>2. PICK b : b = begin_chunk
  OBVIOUS
<1>3. /\ nx \in [Chunks -> Chunks \cup {NULL}] /\ b \in Chunks /\ n \in Nat
      /\ f \in [0..n -> Chunks] /\ Links(nx, b, n, f)
  BY <1>1, <1>2 DEF Typed, Queue
<1>4. /\ n < Cardinality(Chunks)
      /\ Walk(nx, b) = [i \in 0..Cardinality(Chunks) |-> IF i <= n THEN f[i] ELSE NULL]
  BY <1>3, WalkIs
<1>5. Cardinality(Chunks) \in Nat
  BY QueueAssumption, FS_CardinalityType
<1> QED BY <1>1, <1>2, <1>3, <1>4, <1>5, ChunkWalks

\* The chunks from begin_chunk end at end_chunk, no chunk is used twice, freed too early or
\* leaked, for any number of threads and chunks (queue.h:113-125, 139-146).
THEOREM ChunksAreSound == Spec => []ChainSound
<1>1. QueueInv => ChainSound
  <2> SUFFICES ASSUME QueueInv PROVE ChainSound
    OBVIOUS
  <2> USE ThreadsApart
  <2>1. Typed /\ PushLocked /\ PopLocked /\ Linked
    BY DEF QueueInv
  <2>2. PICK n \in Nat : \E f : Queue(n, f)
    BY <2>1 DEF Linked
  <2>3. PICK f : Queue(n, f)
    BY <2>2
  <2>4. f \in [0..n -> Chunks] /\ f[n] = end_chunk /\ \A i \in 0..n : f[i] \in Chunks
    BY <2>3 DEF Queue
  <2>5. n \in 0..n
    OBVIOUS
  <2>6. \A k : k \in Chain <=> \E i \in 0..n : f[i] = k
    <3>1. PICK m \in Nat : m = Cardinality(Chunks)
      BY <2>1, <2>3, ChunkIs
    <3>2. n < m /\ Chunk = [i \in 0..m |-> IF i <= n THEN f[i] ELSE NULL]
      BY <2>1, <2>3, <3>1, ChunkIs
    <3>3. DOMAIN Chunk = 0..m /\ \A i \in 0..m : Chunk[i] = IF i <= n THEN f[i] ELSE NULL
      BY <3>2
    <3>4. \A i \in 0..n : i \in 0..m /\ Chunk[i] = f[i] /\ f[i] # NULL
      BY <2>4, <3>2, <3>3
    <3>5. \A i \in 0..m : Chunk[i] # NULL => i \in 0..n /\ Chunk[i] = f[i]
      BY <3>3
    <3> QED BY <3>3, <3>4, <3>5 DEF Chain
  <2> DEFINE apart == ({spare_chunk} \cup {old[c] : c \in Consumers}) \ {NULL}
  <2>7. \A k : k \in apart <=> k # NULL /\ (k = spare_chunk \/ \E c \in Consumers : old[c] = k)
    OBVIOUS
  <2>8. end_chunk \in Chain /\ next[end_chunk] = NULL
    BY <2>3, <2>4, <2>5, <2>6 DEF Queue, Links
  <2>9. Chain \cap apart = {}
    BY <2>3, <2>6, <2>7 DEF Queue, Accounted
  <2>10. \A c, d \in Consumers : old[c] = old[d] /\ old[c] # NULL => c = d
    BY <2>1 DEF PopLocked, Popping
  <2>11. \A c \in Consumers : old[c] # NULL => old[c] # spare_chunk
    BY <2>3 DEF Queue, Accounted
  <2>12. live = Chain \cup apart
    <3>1. live \subseteq Chunks /\ spare_chunk \in Chunks \cup {NULL}
          /\ \A c \in Consumers : old[c] \in Chunks \cup {NULL}
      BY <2>1 DEF Typed
    <3>2. \A k \in Chunks : k \in live <=> k \in Chain \/ k \in apart
      BY <2>3, <2>6, <2>7 DEF Queue, Accounted
    <3>3. \A k : k \in Chain \/ k \in apart => k \in Chunks
      BY <2>4, <2>6, <2>7, <3>1
    <3> QED BY <3>1, <3>2, <3>3
  <2> QED BY <2>8, <2>9, <2>10, <2>11, <2>12 DEF ChainSound
<1> QED BY <1>1, Inductive, PTL

\* size is the number of slots between the two ends, but for one that a producer has taken
\* and not counted (queue.h:107-126, 398-424).
THEOREM SizeIsDistance == Spec => []SizeMatches
<1>1. QueueInv => SizeMatches
  <2> SUFFICES ASSUME QueueInv PROVE SizeMatches
    OBVIOUS
  <2>1. Typed /\ PushLocked /\ Linked
    BY DEF QueueInv
  <2>2. PICK n \in Nat : \E f : Queue(n, f)
    BY <2>1 DEF Linked
  <2>3. PICK f : Queue(n, f)
    BY <2>2
  <2>4. PICK m \in Nat : m = Cardinality(Chunks)
    BY <2>1, <2>3, ChunkIs
  <2>5. n < m /\ Chunk = [i \in 0..m |-> IF i <= n THEN f[i] ELSE NULL]
    BY <2>1, <2>3, <2>4, ChunkIs
  <2>6. DOMAIN Chunk = 0..m /\ \A i \in 0..m : Chunk[i] = IF i <= n THEN f[i] ELSE NULL
    BY <2>5
  <2>7. end_chunk = f[n] /\ end_chunk # NULL /\ \A i \in 0..n : f[i] = f[n] => i = n
    <3>1. n \in 0..n /\ end_chunk \in Chunks
      BY <2>1 DEF Typed
    <3> QED BY <2>1, <2>3, <3>1, QueueFacts, ThreadsApart
  <2>8. n \in DOMAIN Chunk /\ Chunk[n] = end_chunk
    BY <2>5, <2>6, <2>7
  <2>9. ASSUME NEW i \in DOMAIN Chunk, Chunk[i] = end_chunk PROVE i = n
    <3>1. i \in 0..m /\ (i <= n => Chunk[i] = f[i]) /\ (~(i <= n) => Chunk[i] = NULL)
      BY <2>6
    <3>2. i <= n
      BY <2>7, <2>9, <3>1
    <3>3. i \in 0..n /\ f[i] = f[n]
      BY <2>7, <2>9, <3>1, <3>2
    <3> QED BY <2>7, <3>3
  <2>10. (CHOOSE i \in DOMAIN Chunk : Chunk[i] = end_chunk) = n
    BY <2>8, <2>9
  <2>11. PICK l \in Nat : l = n * ChunkSize
    BY <2>1, <2>3, QueueFacts
  <2>12. Distance = l + end_pos - begin_pos
    BY <2>10, <2>11 DEF Distance
  <2>13. l + end_pos = begin_pos + size + Extra /\ Extra \in {0, 1}
    BY <2>1, <2>3, <2>11, QueueFacts
  <2>14. Distance = size + Extra
    BY <2>1, <2>12, <2>13, QueueAssumption DEF Typed
  <2> QED BY <2>14, Zenon DEF SizeMatches, Extra, Reserving
<1> QED BY <1>1, Inductive, PTL

\* A value that is read through zqueue_front or zqueue_lock_front is the value that is
\* popped (queue.h:383-393).
THEOREM FrontReadsArePopped == Spec => []FrontReadsIntact
<1>1. QueueInv => FrontReadsIntact
  BY DEF QueueInv, Reads, FrontReadsIntact, ReadsIntact
<1> QED BY <1>1, Inductive, PTL

-----------------------------------------------------------------------------
(* The queue implements Fifo.                                              *)

\* The refinement mapping of FifoOfValues.
Items == [k \in 1..size |-> Content(SlotAt(k))]

\* What a slot can hold.
Held == Values \cup {NULL}

\* The items are what the counted places of the chain hold.
LEMMA ItemsAre ==
  ASSUME Typed, PushLocked, NEW n, NEW f, Queue(n, f)
  PROVE  /\ Items \in Seq(Held) /\ Len(Items) = size
         /\ \A k \in 1..size : Items[k] = Content(Place(f, begin_pos + (k - 1)))
<1> USE ThreadsApart
<1>1. PICK m \in Nat : m = Cardinality(Chunks)
  BY ChunkIs
<1>2. n \in Nat /\ n < m /\ Chunk = [i \in 0..m |-> IF i <= n THEN f[i] ELSE NULL]
  BY <1>1, ChunkIs
<1>3. PICK s \in Nat : s = size
  BY DEF Typed
<1>4. ASSUME NEW k \in 1..s
      PROVE  SlotAt(k) = Place(f, begin_pos + (k - 1)) /\ SlotAt(k) \in Slots
  <2>1. PICK a \in Nat : a = begin_pos + (k - 1)
    BY DEF Typed
  <2>2. a = begin_pos + k - 1
    BY <2>1 DEF Typed
  <2>3. a < n * ChunkSize + ChunkSize
    <3>1. PICK l \in Nat : l = n * ChunkSize
      BY QueueFacts
    <3>2. begin_pos + size < l + ChunkSize
      BY <3>1, QueueFacts
    <3>3. a < begin_pos + size
      BY <1>3, <2>1 DEF Typed
    <3> QED BY <2>1, <3>1, <3>2, <3>3 DEF Typed
  <2>4. a \div ChunkSize \in 0..n /\ a % ChunkSize \in 0..ChunkSize - 1
    BY <1>2, <2>3, Within
  <2>5. PICK d \in 0..n : d = a \div ChunkSize
    BY <2>4
  <2>6. Chunk[d] = f[d] /\ f[d] \in Chunks
    BY <1>2, QueueFacts
  <2>7. SlotAt(k) = <<Chunk[a \div ChunkSize], a % ChunkSize>>
    BY <2>2 DEF SlotAt
  <2> QED BY <2>1, <2>4, <2>5, <2>6, <2>7 DEF Place, Slots
<1>5. \A k \in 1..s : Content(SlotAt(k)) \in Held
  BY <1>4, ContentTyped DEF Held
<1>6. Items = [k \in 1..s |-> Content(SlotAt(k))]
  BY <1>3 DEF Items
<1>7. Items \in Seq(Held)
  BY <1>5, <1>6, IsASeq
<1>8. DOMAIN Items = 1..s /\ \A k \in 1..s : Items[k] = Content(SlotAt(k))
  BY <1>6
<1>9. Len(Items) = s
  <2>1. DOMAIN Items = 1..Len(Items) /\ Len(Items) \in Nat
    BY <1>7, LenProperties
  <2> QED BY <1>8, <2>1
<1> QED BY <1>3, <1>4, <1>7, <1>8, <1>9

\* The k-th item is what the k-th counted place of the chain holds.
Listed ==
  \A n, f : Queue(n, f) =>
    /\ Items \in Seq(Held) /\ Len(Items) = size
    /\ \A k \in 1..size : Items[k] = Content(Place(f, begin_pos + (k - 1)))

\* The items for every chain that Queue allows, of this state and of the next one.
LEMMA ItemsListed == QueueInv => Listed
  BY ItemsAre DEF QueueInv, Listed

\* The same in the next state.
LEMMA ItemsListedNext == QueueInv' => Listed'
  BY ItemsListed, PTL

\* The counted places of a state are still places of the next chain, and hold the same.
LEMMA ItemsStay ==
  ASSUME QueueInv, QueueInv', [Next]_vars, NEW n, NEW f, Queue(n, f), NEW m, NEW g, Queue(m, g)',
         \A a \in Nat : a < begin_pos + size => Place(g, a) = Place(f, a),
         begin_pos' = begin_pos, size' = size
  PROVE  Items' = Items
<1>1. Typed /\ PushLocked /\ PushLocked'
  BY DEF QueueInv
<1>2. /\ Items \in Seq(Held) /\ Len(Items) = size
      /\ \A k \in 1..size : Items[k] = Content(Place(f, begin_pos + (k - 1)))
  BY ItemsListed DEF Listed
<1>3. /\ Items' \in Seq(Held) /\ Len(Items') = size'
      /\ \A k \in 1..size' : Items'[k] = Content(Place(g, begin_pos + (k - 1)))'
  BY ItemsListedNext DEF Listed
<1>4. ASSUME NEW k \in 1..size PROVE Items'[k] = Items[k]
  <2>1. PICK a \in Nat : a = begin_pos + (k - 1)
    BY <1>1 DEF Typed
  <2>2. a < begin_pos + size
    BY <1>1, <2>1 DEF Typed
  <2>3. Content(Place(f, a))' = Content(Place(f, a))
    BY <1>1, <2>2, ContentKept
  <2>4. Place(g, a) = Place(f, a)
    BY <2>2
  <2>5. Content(Place(g, begin_pos + (k - 1)))' = Content(Place(f, a))'
    BY <2>1, <2>4 DEF Content, Place
  <2>6. Content(Place(f, begin_pos + (k - 1))) = Content(Place(f, a))
    BY <2>1
  <2> QED BY <1>2, <1>3, <2>3, <2>5, <2>6
<1> QED BY <1>2, <1>3, <1>4, SeqEqual

\* A step of Fifo.
FifoStep ==
  \/ Items' = Items /\ popped' = popped
  \/ \E v \in Values : Items' = Append(Items, v) /\ popped' = popped
  \/ \E c \in Consumers :
       /\ Items # <<>>
       /\ Items' = Tail(Items)
       /\ popped' = [popped EXCEPT ![c] = Head(Items)]

\* A value is put when it is counted.
LEMMA CountPuts ==
  ASSUME QueueInv, QueueInv', NEW p \in Producers, Count(p)
  PROVE  FifoStep
<1>1. Typed /\ PushLocked /\ PushLocked' /\ Linked
  BY DEF QueueInv
<1>2. PICK n \in Nat : \E f : Queue(n, f)
  BY <1>1 DEF Linked
<1>3. PICK f : Queue(n, f)
  BY <1>2
<1>4. Queue(n, f)' /\ Content(Place(f, begin_pos + size)) = item[p]
  BY <1>1, <1>3, CountStep
<1>5. /\ size' = size + 1 /\ begin_pos' = begin_pos /\ live' = live /\ value' = value
      /\ popped' = popped /\ pc[p] = "count"
  BY DEF Count, Goto, beginVars, memVars, takenVars
<1>6. item[p] \in Values
  BY <1>1, <1>5 DEF PushLocked
<1>7. /\ Items \in Seq(Held) /\ Len(Items) = size /\ size \in Nat
      /\ \A k \in 1..size : Items[k] = Content(Place(f, begin_pos + (k - 1)))
  BY <1>1, <1>3, ItemsListed DEF Listed, Typed
<1>8. /\ Items' \in Seq(Held) /\ Len(Items') = size + 1
      /\ \A k \in 1..size + 1 : Items'[k] = Content(Place(f, begin_pos + (k - 1)))'
  BY <1>4, <1>5, ItemsListedNext DEF Listed
<1>9. ASSUME NEW k \in 1..size + 1
      PROVE  Items'[k] = Content(Place(f, begin_pos + (k - 1)))
  BY <1>5, <1>8 DEF Content, Place
<1>10. Items'[size + 1] = item[p]
  <2>1. size + 1 \in 1..size + 1 /\ (size + 1) - 1 = size
    BY <1>7
  <2> QED BY <1>4, <1>9, <2>1
<1>11. \A k \in 1..size : Items'[k] = Items[k]
  <2>1. \A k \in 1..size : k \in 1..size + 1
    BY <1>7
  <2> QED BY <1>7, <1>9, <2>1
<1>12. item[p] \in Held
  BY <1>6 DEF Held
<1> DEFINE t == Append(Items, item[p])
<1>13. /\ t \in Seq(Held) /\ Len(t) = size + 1
       /\ \A k \in 1..size : t[k] = Items[k]
       /\ t[size + 1] = item[p]
  BY <1>7, <1>12, AppendProperties
<1> HIDE DEF t
<1>14. \A k \in 1..size + 1 : Items'[k] = t[k]
  <2>1. \A k \in 1..size + 1 : k \in 1..size \/ k = size + 1
    BY <1>7
  <2> QED BY <1>10, <1>11, <1>13, <2>1
<1>15. Items' = t
  BY <1>8, <1>13, <1>14, SeqEqual
<1> QED BY <1>5, <1>6, <1>15 DEF FifoStep, t

\* The first value is taken when its slot is popped.
LEMMA PopTakes ==
  ASSUME QueueInv, QueueInv', NEW c \in Consumers, Pop(c)
  PROVE  FifoStep
<1>1. Typed /\ PushLocked /\ PopLocked /\ Linked
  BY DEF QueueInv
<1>2. PICK n \in Nat : \E f : Queue(n, f)
  BY <1>1 DEF Linked
<1>3. PICK f : Queue(n, f)
  BY <1>2
<1>4. /\ size > 0 /\ size' = size - 1 /\ live' = live /\ value' = value
      /\ popped' = [popped EXCEPT ![c] = Content(<<begin_chunk, begin_pos>>)]
  BY DEF Pop, memVars
<1>5. /\ Items \in Seq(Held) /\ Len(Items) = size /\ size \in Nat
      /\ \A k \in 1..size : Items[k] = Content(Place(f, begin_pos + (k - 1)))
  BY <1>1, <1>3, ItemsListed DEF Listed, Typed
<1>6. Items # <<>>
  <2>1. Len(<<>>) = 0
    BY EmptySeq
  <2>2. Len(Items) # Len(<<>>)
    BY <1>4, <1>5, <2>1
  <2> QED BY <2>2, Zenon
<1>7. Head(Items) = Content(<<begin_chunk, begin_pos>>)
  <2>1. 1 \in 1..size /\ begin_pos + (1 - 1) = begin_pos
    BY <1>1, <1>4, <1>5 DEF Typed
  <2>2. Items[1] = Content(Place(f, begin_pos))
    BY <1>5, <2>1
  <2>3. PICK q \in 0..ChunkSize - 1 : q = begin_pos
    BY <1>1 DEF Typed
  <2>4. Place(f, q) = <<f[0], q>> /\ f[0] = begin_chunk
    BY <1>1, <1>3, PlaceFirst, QueueFacts
  <2>5. Head(Items) = Items[1]
    BY <1>5, <1>6
  <2> QED BY <2>2, <2>3, <2>4, <2>5
<1> DEFINE t == Tail(Items)
<1>8. t \in Seq(Held) /\ Len(t) = size - 1 /\ \A k \in 1..size - 1 : t[k] = Items[k + 1]
  BY <1>5, <1>6, HeadTailProperties
<1> HIDE DEF t
<1>9. \A k \in 1..size - 1 : k + 1 \in 1..size /\ (k + 1) - 1 = k
  BY <1>5
<1>10. \A k \in 1..size - 1 : t[k] = Content(Place(f, begin_pos + k))
  BY <1>5, <1>8, <1>9
<1>11. /\ Items' \in Seq(Held) /\ Len(Items') = size - 1
       /\ \A k \in 1..size - 1 : Items'[k] = Content(Place(f, begin_pos + k))
  <2>1. CASE begin_pos + 1 # ChunkSize
    <3>1. Queue(n, f)'
      BY <1>1, <1>3, <2>1, PopWithinStep
    <3>2. begin_pos' = begin_pos + 1
      BY <2>1 DEF Pop
    <3>3. /\ Items' \in Seq(Held) /\ Len(Items') = size - 1
          /\ \A k \in 1..size - 1 : Items'[k] = Content(Place(f, begin_pos + (k - 1)))'
      BY <1>4, <3>1, ItemsListedNext DEF Listed
    <3>4. ASSUME NEW k \in 1..size - 1
          PROVE  Content(Place(f, begin_pos + (k - 1)))' = Content(Place(f, begin_pos + k))
      <4>1. begin_pos' + (k - 1) = begin_pos + k
        BY <1>1, <1>5, <3>2 DEF Typed
      <4> QED BY <1>4, <4>1 DEF Content, Place
    <3> QED BY <3>3, <3>4
  <2>2. CASE begin_pos + 1 = ChunkSize
    <3> DEFINE g == Shorter(n, f)
    <3>1. n \in Nat \ {0} /\ Queue(n - 1, g)'
      BY <1>1, <1>3, <2>2, PopLastStep
    <3>2. begin_pos' = 0
      BY <2>2 DEF Pop
    <3>3. /\ Items' \in Seq(Held) /\ Len(Items') = size - 1
          /\ \A k \in 1..size - 1 : Items'[k] = Content(Place(g, begin_pos + (k - 1)))'
      BY <1>4, <3>1, ItemsListedNext DEF Listed
    <3>4. ASSUME NEW k \in 1..size - 1
          PROVE  Content(Place(g, begin_pos + (k - 1)))' = Content(Place(f, begin_pos + k))
      <4>1. PICK a \in Nat : a = k - 1
        BY <1>5
      <4>2. a = begin_pos' + (k - 1) /\ a + ChunkSize = begin_pos + k
        BY <1>1, <1>5, <2>2, <3>2, <4>1, QueueAssumption DEF Typed
      <4>3. PICK l \in Nat : l = n * ChunkSize
        BY <1>1, <1>3, QueueFacts
      <4>4. begin_pos + size < l + ChunkSize
        BY <1>1, <1>3, <4>3, QueueFacts
      <4>5. a < l
        BY <1>1, <1>5, <2>2, <4>1, <4>2, <4>3, <4>4, QueueAssumption DEF Typed
      <4>6. Place(g, a) = Place(f, a + ChunkSize)
        BY <3>1, <4>3, <4>5, ShorterPlace
      <4> HIDE DEF g
      <4>7. Content(Place(g, begin_pos + (k - 1)))' = Content(Place(f, a + ChunkSize))
        BY <1>4, <4>2, <4>6 DEF Content, Place
      <4> QED BY <4>2, <4>7
    <3> QED BY <3>3, <3>4
  <2> QED BY <2>1, <2>2
<1>12. Items' = t
  BY <1>8, <1>10, <1>11, SeqEqual
<1> QED BY <1>4, <1>6, <1>7, <1>12 DEF FifoStep, t

\* Every other step leaves the values and what was taken.
LEMMA OthersStutter ==
  ASSUME QueueInv, QueueInv', [Next]_vars,
         \A p \in Producers : ~Count(p), \A c \in Consumers : ~Pop(c)
  PROVE  FifoStep
<1>1. Typed /\ PushLocked /\ PopLocked /\ Linked /\ PushLocked'
  BY DEF QueueInv
<1>2. PICK n \in Nat : \E f : Queue(n, f)
  BY <1>1 DEF Linked
<1>3. PICK f : Queue(n, f)
  BY <1>2
<1>4. size' = size /\ begin_pos' = begin_pos /\ popped' = popped
  <2>1. ASSUME NEW p \in Producers, Producer(p)
        PROVE  size' = size /\ begin_pos' = begin_pos /\ popped' = popped
    BY <2>1 DEF Producer, LockPush, PushCopy, BackPos, Reserve, TakeSpare, Allocate, AllocFails,
                Fill, UnlockPush, beginVars, takenVars
  <2>2. ASSUME NEW c \in Consumers, Consumer(c)
        PROVE  size' = size /\ begin_pos' = begin_pos /\ popped' = popped
    BY <2>2 DEF Consumer, Start, Front, Read, PopEmpty, Recycle, UnlockPop, LateRead,
                beginVars, takenVars
  <2>3. CASE UNCHANGED vars
    BY <2>3 DEF vars, beginVars, takenVars
  <2> QED BY <2>1, <2>2, <2>3 DEF Next
<1>5. PICK m, g : /\ Queue(m, g)'
                  /\ \A a \in Nat : a < begin_pos + size => Place(g, a) = Place(f, a)
  BY <1>1, <1>3, ChainStep
<1>6. Items' = Items
  BY <1>3, <1>4, <1>5, ItemsStay
<1> QED BY <1>4, <1>6 DEF FifoStep

\* Every step is a step of Fifo or a stutter.
LEMMA FifoSteps ==
  ASSUME QueueInv, QueueInv', [Next]_vars
  PROVE  FifoStep
  BY CountPuts, PopTakes, OthersStutter

\* The mapping is the one of ZQueue.
LEMMA FifoStepIsStep ==
  ASSUME FifoStep
  PROVE  [FifoOfValues!Next]_<<Items, popped>>
  BY DEF FifoStep, FifoOfValues!Next, FifoOfValues!Put, FifoOfValues!Take, Items

\* The created queue is empty.
LEMMA FifoInit ==
  ASSUME Init
  PROVE  FifoOfValues!Init
<1>1. size = 0 /\ popped = [c \in Consumers |-> NULL]
  BY DEF Init
<1>2. [k \in 1..size |-> Content(SlotAt(k))] = <<>>
  BY <1>1
<1> QED BY <1>1, <1>2 DEF FifoOfValues!Init

\* Values leave the queue in the order in which they were counted, each to one consumer,
\* whatever producers and consumers do in between and however many they are
\* (queue.h:268-450).
THEOREM QueueIsFifo == Spec => ImplementsFifo
<1>1. QueueInv /\ QueueInv' /\ [Next]_vars => [FifoOfValues!Next]_<<Items, popped>>
  BY FifoSteps, FifoStepIsStep
<1>2. Init => FifoOfValues!Init
  BY FifoInit
<1> QED BY <1>1, <1>2, Inductive, PTL DEF Spec, ImplementsFifo, FifoOfValues!Spec, Items
=============================================================================
