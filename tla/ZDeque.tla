------------------------------- MODULE ZDeque -------------------------------
(***************************************************************************)
(* The chunked queue of zit/container/queue.h in the hands of one thread   *)
(* (or of threads that share one spin lock): push and pop at both ends,    *)
(* each call one step.  ZQueue models what threads with different locks    *)
(* may see of push and pop.                                                *)
(***************************************************************************)
EXTENDS Integers, Sequences, FiniteSets

CONSTANTS
  Chunks,     \* the addresses the allocator can return
  NULL,       \* no chunk, a zeroed slot
  ChunkSize,  \* chunk_size: slots of a chunk
  Values,     \* the values pushed
  MaxSize     \* bound on the values in the queue

ASSUME DequeAssumption ==
  /\ IsFiniteSet(Chunks)
  /\ NULL \notin Chunks \cup Values
  /\ ChunkSize \in Nat \ {0}
  /\ MaxSize \in Nat

VARIABLES
  size,       \* *que->size
  begin_chunk, begin_pos, end_chunk, end_pos, spare_chunk,
  next, prev, \* next[k]: k->next, prev[k]: k->prev
  value,      \* value[k][i]: slot i of chunk k
  live,       \* chunks that are allocated
  got         \* the value the last successful pop returned

beginVars == <<begin_chunk, begin_pos>>
endVars == <<end_chunk, end_pos>>
linkVars == <<next, prev>>
vars == <<size, beginVars, endVars, spare_chunk, linkVars, value, live, got>>

Slots == 0..ChunkSize - 1
Zeroed == [i \in Slots |-> NULL]

\* zqueue_create.
Init ==
  /\ size = 0
  /\ \E k \in Chunks : begin_chunk = k /\ end_chunk = k /\ live = {k}
  /\ begin_pos = 0 /\ end_pos = 0
  /\ spare_chunk = NULL
  /\ next = [k \in Chunks |-> NULL]
  /\ prev = [k \in Chunks |-> NULL]
  /\ value = [k \in Chunks |-> Zeroed]
  /\ got = NULL

\* A failed push leaves a position outside its chunk: the queue is of no use then.
Usable == begin_pos >= 0 /\ end_pos < ChunkSize

\* Chunk k is the spare one or, without a spare one, a chunk that the allocator returns.
Obtain(k) ==
  /\ IF spare_chunk # NULL THEN k = spare_chunk ELSE k \notin live
  /\ spare_chunk' = NULL
  /\ live' = live \cup {k}

\* The contents of the chunks once k was obtained: ZCHUNK_ALLOCX zeroes its chunk.
Memory(k) == IF k \in live THEN value ELSE [value EXCEPT ![k] = Zeroed]

\* Mutated form: the emptied chunk is dropped, neither kept spare nor freed.
RecycleForgotten(k) == UNCHANGED <<spare_chunk, live>>

\* Chunk k becomes the spare one and the spare one is freed.
Recycle(k) ==
  /\ spare_chunk' = k
  /\ live' = live \ {spare_chunk}

\* Mutated form: the old begin chunk does not point back to the new one.
LinkBeforeOneWay(k) ==
  /\ next' = [next EXCEPT ![k] = begin_chunk]
  /\ prev' = [prev EXCEPT ![k] = NULL]

LinkBefore(k) ==
  /\ next' = [next EXCEPT ![k] = begin_chunk]
  /\ prev' = [prev EXCEPT ![k] = NULL, ![begin_chunk] = k]

LinkAfter(k) ==
  /\ prev' = [prev EXCEPT ![k] = end_chunk]
  /\ next' = [next EXCEPT ![k] = NULL, ![end_chunk] = k]

\* Mutated form: the chunk that becomes the end chunk still points to the one given up.
CutAfterForgotten(k) == UNCHANGED next

CutAfter(k) == next' = [next EXCEPT ![k] = NULL]

NonEmpty == size > 0

\* The slot before the end position.
LastSlot ==
  IF end_pos > 0 THEN <<end_chunk, end_pos - 1>> ELSE <<prev[end_chunk], ChunkSize - 1>>

\* What a slot holds; a chunk reached through a NULL pointer holds nothing.
Content(x) == IF x[1] = NULL THEN NULL ELSE value[x[1]][x[2]]

-----------------------------------------------------------------------------
\* zqueue_push, zqueue_back_pos: the value goes to the end position; a chunk is appended
\* as soon as the end chunk is full.
Push(v) ==
  /\ Usable /\ size < MaxSize
  /\ size' = size + 1
  /\ UNCHANGED <<beginVars, got>>
  /\ \/ /\ end_pos + 1 < ChunkSize
        /\ end_pos' = end_pos + 1
        /\ value' = [value EXCEPT ![end_chunk][end_pos] = v]
        /\ UNCHANGED <<end_chunk, spare_chunk, linkVars, live>>
     \/ /\ end_pos + 1 = ChunkSize
        /\ end_pos' = 0
        /\ \E k \in Chunks :
             /\ Obtain(k)
             /\ value' = [Memory(k) EXCEPT ![end_chunk][end_pos] = v]
             /\ LinkAfter(k)
             /\ end_chunk' = k

\* The chunk to append cannot be had: the value is there but not counted.
PushFails(v) ==
  /\ Usable /\ size < MaxSize
  /\ end_pos + 1 = ChunkSize /\ spare_chunk = NULL
  /\ end_pos' = ChunkSize
  /\ value' = [value EXCEPT ![end_chunk][end_pos] = v]
  /\ UNCHANGED <<size, beginVars, end_chunk, spare_chunk, linkVars, live, got>>

\* zqueue_push_front: a chunk is prepended when the begin chunk has no slot before.
PushFront(v) ==
  /\ Usable /\ size < MaxSize
  /\ size' = size + 1
  /\ UNCHANGED <<endVars, got>>
  /\ \/ /\ begin_pos > 0
        /\ begin_pos' = begin_pos - 1
        /\ value' = [value EXCEPT ![begin_chunk][begin_pos - 1] = v]
        /\ UNCHANGED <<begin_chunk, spare_chunk, linkVars, live>>
     \/ /\ begin_pos = 0
        /\ begin_pos' = ChunkSize - 1
        /\ \E k \in Chunks :
             /\ Obtain(k)
             /\ value' = [Memory(k) EXCEPT ![k][ChunkSize - 1] = v]
             /\ LinkBefore(k)
             /\ begin_chunk' = k

\* The chunk to prepend cannot be had: begin_pos stays below the first slot.
PushFrontFails ==
  /\ Usable /\ size < MaxSize
  /\ begin_pos = 0 /\ spare_chunk = NULL
  /\ begin_pos' = -1
  /\ UNCHANGED <<size, begin_chunk, endVars, spare_chunk, linkVars, value, live, got>>

\* zqueue_pop: the chunk left behind is recycled.
Pop ==
  /\ Usable /\ NonEmpty
  /\ size' = size - 1
  /\ got' = value[begin_chunk][begin_pos]
  /\ UNCHANGED <<endVars, value>>
  /\ \/ /\ begin_pos + 1 < ChunkSize
        /\ begin_pos' = begin_pos + 1
        /\ UNCHANGED <<begin_chunk, spare_chunk, linkVars, live>>
     \/ /\ begin_pos + 1 = ChunkSize
        /\ begin_pos' = 0
        /\ begin_chunk' = next[begin_chunk]
        /\ prev' = [prev EXCEPT ![next[begin_chunk]] = NULL]
        /\ Recycle(begin_chunk)
        /\ UNCHANGED next

\* Mutated form: the slot at the end position is returned, not the one before.
PopBackReadsEnd ==
  /\ Usable /\ NonEmpty
  /\ size' = size - 1
  /\ got' = value[end_chunk][end_pos]
  /\ UNCHANGED <<beginVars, value>>
  /\ \/ /\ end_pos > 0
        /\ end_pos' = end_pos - 1
        /\ UNCHANGED <<end_chunk, spare_chunk, linkVars, live>>
     \/ /\ end_pos = 0
        /\ end_pos' = ChunkSize - 1
        /\ end_chunk' = prev[end_chunk]
        /\ CutAfter(prev[end_chunk])
        /\ Recycle(end_chunk)
        /\ UNCHANGED prev

\* zqueue_pop_back: an end chunk without values is recycled first.
PopBack ==
  /\ Usable /\ NonEmpty
  /\ size' = size - 1
  /\ got' = Content(LastSlot)
  /\ UNCHANGED <<beginVars, value>>
  /\ \/ /\ end_pos > 0
        /\ end_pos' = end_pos - 1
        /\ UNCHANGED <<end_chunk, spare_chunk, linkVars, live>>
     \/ /\ end_pos = 0
        /\ end_pos' = ChunkSize - 1
        /\ end_chunk' = prev[end_chunk]
        /\ CutAfter(prev[end_chunk])
        /\ Recycle(end_chunk)
        /\ UNCHANGED prev

\* A pop of an empty queue, and any use of one whose push failed, are not followed up.
Rest == (size = 0 \/ ~Usable) /\ UNCHANGED vars

Next ==
  \/ \E v \in Values : Push(v) \/ PushFails(v) \/ PushFront(v)
  \/ PushFrontFails \/ Pop \/ PopBack \/ Rest

Spec == Init /\ [][Next]_vars

-----------------------------------------------------------------------------
(* The calls that only look.                                               *)

\* Chunk[n]: the chunk that foreach and pop reach from begin_chunk by n links.
Chunk[n \in 0..Cardinality(Chunks)] ==
  IF n = 0 THEN begin_chunk
  ELSE IF Chunk[n - 1] = NULL THEN NULL ELSE next[Chunk[n - 1]]

Chain == {Chunk[n] : n \in DOMAIN Chunk} \ {NULL}

\* Visit[n]: the values zqueue_foreach operates on in the first n chunks.
Visit[n \in 0..Cardinality(Chunks)] ==
  IF n = 0 THEN <<>>
  ELSE LET k == Chunk[n - 1]
           from == IF n = 1 THEN begin_pos ELSE 0
           to == IF k = end_chunk THEN end_pos ELSE ChunkSize
       IN  Visit[n - 1] \o IF k = NULL THEN <<>>
                           ELSE [i \in 1..(to - from) |-> value[k][from + i - 1]]

Foreach == Visit[Cardinality(Chunks)]

\* zqueue_back.
Back == Content(LastSlot)

\* The value of the k-th slot from the begin position.  (A failed zqueue_push_front leaves
\* the position at -1: the values still begin at slot 0.)
ItemAt(k) ==
  LET at == (IF begin_pos < 0 THEN 0 ELSE begin_pos) + k - 1
  IN  Content(<<Chunk[at \div ChunkSize], at % ChunkSize>>)

Items == [k \in 1..size |-> ItemAt(k)]

-----------------------------------------------------------------------------
(* Safety                                                                  *)

\* The chunks from begin_chunk lead to end_chunk and no further; the spare chunk is not
\* one of them; no other chunk is allocated: pushes and pops at both ends neither leak a
\* chunk nor give up one that holds values (queue.h:105-188).
ChunksAccounted ==
  /\ end_chunk \in Chain
  /\ spare_chunk \notin Chain
  /\ live = Chain \cup ({spare_chunk} \ {NULL})

\* zqueue_foreach, which follows the links to their end and not the size, visits the
\* values that pop would return, in that order (queue.h:190-207, tests/tqueue.h:22-41).
ForeachVisitsItems == Usable => Foreach = Items

\* zqueue_back returns the value that pop_back would, also when it is in the chunk before
\* the end chunk (queue.h:213-223).
BackIsLastItem == Usable /\ size > 0 => Back = Items[size]

\* Pushes and pops at both ends are those of a sequence (queue.h:105-188).
DequeOfValues == INSTANCE Deque WITH Nothing <- NULL, items <- Items, taken <- got

ImplementsDeque == DequeOfValues!Spec
=============================================================================
