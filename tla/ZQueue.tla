------------------------------- MODULE ZQueue -------------------------------
(***************************************************************************)
(* The chunked queue of zit/container/queue.h, used by several threads: a  *)
(* list of chunks of chunk_size slots, filled at the end chunk and emptied *)
(* at the begin chunk.  The chunk that was emptied last is kept spare and  *)
(* the next one to be needed.  Producers and consumers take different spin *)
(* locks (or the consumer none): they meet only in size, in spare_chunk    *)
(* and in the chunks.  Behaviours with one lock for both are among those   *)
(* modelled.  Only pop_back and back read prev: it is left out.            *)
(***************************************************************************)
EXTENDS Integers, Sequences, FiniteSets

CONSTANTS
  Producers,    \* threads that push, all with the same spin lock
  Consumers,    \* threads that pop
  Chunks,       \* the addresses the allocator can return
  NULL,         \* no chunk, no slot, a zeroed or freed slot, a free spin lock
  ChunkSize,    \* chunk_size: slots of a chunk
  Usages,       \* the ways of zqueue's doc to take a value that the instance has
  MaxPush       \* bound on the values pushed in a behaviour; they are numbered

Threads == Producers \cup Consumers
Values == 1..MaxPush
Slots == Chunks \X (0..ChunkSize)

\* "front": one consumer without a lock calls zqueue_front, then zqueue_pop.
\* "lock_front": zqueue_lock_front, then zqueue_unlock_front.
\* "lock_pop": zqueue_lock_pop, and the value is read after it returned.
ASSUME QueueAssumption ==
  /\ Producers \cap Consumers = {}
  /\ NULL \notin Threads \cup Chunks \cup Values \cup Slots
  /\ IsFiniteSet(Chunks)
  /\ ChunkSize \in Nat \ {0}
  /\ MaxPush \in Nat
  /\ Usages \subseteq {"front", "lock_front", "lock_pop"}

VARIABLES
  size,         \* *que->size
  begin_chunk, begin_pos, end_chunk, end_pos, spare_chunk,
  next,         \* next[k]: k->next
  value,        \* value[k][i]: slot i of chunk k
  live,         \* chunks that are allocated
  spin_push,    \* holder of the producers' spin lock
  spin_pop,     \* holder of the consumers' spin lock
  usage,        \* how the consumers of this queue take values
  pushed,       \* number of pushes so far
  pc,           \* control point of every thread
  slot,         \* slot[t]: the slot t has a pointer to, <<chunk, position>>
  item,         \* item[t]: the value t pushes, the value t read
  popped,       \* popped[c]: the value in the slot c popped, when it popped it
  old           \* old[c]: the chunk c has emptied

beginVars == <<begin_chunk, begin_pos>>
endVars == <<end_chunk, end_pos, next>>
memVars == <<value, live>>
constVars == <<usage, pushed>>
takenVars == <<popped, old>>
vars == <<size, beginVars, endVars, spare_chunk, memVars, spin_push, spin_pop, constVars,
          pc, slot, item, takenVars>>

\* zqueue_create.
Init ==
  /\ size = 0
  /\ \E k \in Chunks : begin_chunk = k /\ end_chunk = k /\ live = {k}
  /\ begin_pos = 0 /\ end_pos = 0
  /\ spare_chunk = NULL
  /\ next = [k \in Chunks |-> NULL]
  /\ value = [k \in Chunks |-> [i \in 0..ChunkSize - 1 |-> NULL]]
  /\ spin_push = NULL /\ spin_pop = NULL
  /\ usage \in Usages
  /\ pushed = 0
  /\ pc = [t \in Threads |-> "idle"]
  /\ slot = [t \in Threads |-> NULL]
  /\ item = [t \in Threads |-> NULL]
  /\ popped = [c \in Consumers |-> NULL]
  /\ old = [c \in Consumers |-> NULL]

Goto(t, from, to) ==
  /\ pc[t] = from
  /\ pc' = [pc EXCEPT ![t] = to]

\* What is found at slot x: freed memory holds no value.
Content(x) == IF x[1] \in live /\ x[2] < ChunkSize THEN value[x[1]][x[2]] ELSE NULL

\* A write past the end of a chunk changes no slot.
WriteSlot(x, v) ==
  value' = IF x[2] < ChunkSize THEN [value EXCEPT ![x[1]][x[2]] = v] ELSE value

-----------------------------------------------------------------------------
(* A producer: zqueue_lock_push, or zqueue_lock_back_pos, the caller's     *)
(* write and zqueue_unlock_back_pos.                                       *)

\* Nobody pushes after a push that got no chunk: end_pos stays behind the chunk's last slot.
LockPush(p) ==
  /\ pushed < MaxPush
  /\ spin_push = NULL
  /\ end_pos < ChunkSize
  /\ Goto(p, "idle", "reserve")
  /\ spin_push' = p
  /\ pushed' = pushed + 1
  /\ item' = [item EXCEPT ![p] = pushed + 1]
  /\ UNCHANGED <<size, beginVars, endVars, spare_chunk, memVars, spin_pop, usage, slot,
                 takenVars>>

\* The slot at end_pos is taken; a new chunk is needed once the chunk has no other.
Reserve(p, following) ==
  /\ Goto(p, "reserve", IF end_pos + 1 < ChunkSize THEN following ELSE "spare")
  /\ end_pos' = end_pos + 1
  /\ UNCHANGED <<size, beginVars, end_chunk, next, spare_chunk, live, spin_push, spin_pop,
                 constVars, item, takenVars>>

\* zqueue_lock_push copies the value first.
PushCopy(p) ==
  /\ Reserve(p, "count")
  /\ WriteSlot(<<end_chunk, end_pos>>, item[p])
  /\ slot' = [slot EXCEPT ![p] = NULL]

\* zqueue_lock_back_pos returns a pointer for the caller to fill.
BackPos(p) ==
  /\ Reserve(p, "fill")
  /\ slot' = [slot EXCEPT ![p] = <<end_chunk, end_pos>>]
  /\ UNCHANGED value

\* Mutated form: the emptied end chunk does not point to the new one.
LinkForgotten(p, k) ==
  /\ Goto(p, pc[p], IF slot[p] = NULL THEN "count" ELSE "fill")
  /\ next' = [next EXCEPT ![k] = NULL]
  /\ end_chunk' = k
  /\ end_pos' = 0

\* Chunk k becomes the end chunk.
Link(p, k) ==
  /\ Goto(p, pc[p], IF slot[p] = NULL THEN "count" ELSE "fill")
  /\ next' = [next EXCEPT ![k] = NULL, ![end_chunk] = k]
  /\ end_chunk' = k
  /\ end_pos' = 0

\* Mutated form: the spare chunk is read and not exchanged for NULL.
TakeSpareNoXchg(p) ==
  /\ pc[p] = "spare"
  /\ \/ spare_chunk # NULL /\ Link(p, spare_chunk)
     \/ spare_chunk = NULL /\ Goto(p, "spare", "alloc") /\ UNCHANGED endVars
  /\ UNCHANGED <<size, beginVars, spare_chunk, memVars, spin_push, spin_pop, constVars,
                 slot, item, takenVars>>

\* zatm_xchg_ptr(&que->spare_chunk, NULL).
TakeSpare(p) ==
  /\ pc[p] = "spare"
  /\ \/ spare_chunk # NULL /\ Link(p, spare_chunk)
     \/ spare_chunk = NULL /\ Goto(p, "spare", "alloc") /\ UNCHANGED endVars
  /\ spare_chunk' = NULL
  /\ UNCHANGED <<size, beginVars, memVars, spin_push, spin_pop, constVars, slot, item,
                 takenVars>>

\* ZCHUNK_ALLOCX returns a zeroed chunk.
Allocate(p) ==
  /\ pc[p] = "alloc"
  /\ \E k \in Chunks \ live :
       /\ live' = live \cup {k}
       /\ value' = [value EXCEPT ![k] = [i \in 0..ChunkSize - 1 |-> NULL]]
       /\ Link(p, k)
  /\ UNCHANGED <<size, beginVars, spare_chunk, spin_push, spin_pop, constVars, slot, item,
                 takenVars>>

\* ZCHUNK_ALLOCX returns NULL: the lock is released; the value is not counted, but end_pos
\* stays behind the last slot of the chunk.
AllocFails(p) ==
  /\ Goto(p, "alloc", "idle")
  /\ spin_push' = NULL
  /\ UNCHANGED <<size, beginVars, endVars, spare_chunk, memVars, spin_pop, constVars, slot,
                 item, takenVars>>

\* The caller of zqueue_lock_back_pos writes its value.
Fill(p) ==
  /\ Goto(p, "fill", "count")
  /\ WriteSlot(slot[p], item[p])
  /\ UNCHANGED <<size, beginVars, endVars, spare_chunk, live, spin_push, spin_pop,
                 constVars, slot, item, takenVars>>

\* Mutated form: the size is not increased.
CountForgotten(p) ==
  /\ Goto(p, "count", "unlock")
  /\ UNCHANGED <<size, beginVars, endVars, spare_chunk, memVars, spin_push, spin_pop,
                 constVars, slot, item, takenVars>>

\* zatm_inc(que->size): from here on consumers see the value.
Count(p) ==
  /\ Goto(p, "count", "unlock")
  /\ size' = size + 1
  /\ UNCHANGED <<beginVars, endVars, spare_chunk, memVars, spin_push, spin_pop, constVars,
                 slot, item, takenVars>>

UnlockPush(p) ==
  /\ Goto(p, "unlock", "idle")
  /\ spin_push' = NULL
  /\ item' = [item EXCEPT ![p] = NULL]
  /\ slot' = [slot EXCEPT ![p] = NULL]
  /\ UNCHANGED <<size, beginVars, endVars, spare_chunk, memVars, spin_pop, constVars,
                 takenVars>>

-----------------------------------------------------------------------------
(* A consumer.                                                             *)

\* Mutated form: zqueue_lock_front does not wait for the spin lock.
StartUnlocked(c) ==
  /\ usage = "front" => \A d \in Consumers : pc[d] = "idle"
  /\ Goto(c, "idle", IF usage = "lock_pop" THEN "pop" ELSE "front")
  /\ spin_pop' = IF usage = "front" THEN NULL ELSE c
  /\ slot' = [slot EXCEPT ![c] = NULL]
  /\ UNCHANGED <<size, beginVars, endVars, spare_chunk, memVars, spin_push, constVars, item,
                 takenVars>>

\* A lockless consumer is alone (TaskServer!ScheduledOnce); the others take the lock.
Start(c) ==
  /\ IF usage = "front" THEN \A d \in Consumers : pc[d] = "idle" ELSE spin_pop = NULL
  /\ Goto(c, "idle", IF usage = "lock_pop" THEN "pop" ELSE "front")
  /\ spin_pop' = IF usage = "front" THEN NULL ELSE c
  /\ slot' = [slot EXCEPT ![c] = NULL]
  /\ UNCHANGED <<size, beginVars, endVars, spare_chunk, memVars, spin_push, constVars, item,
                 takenVars>>

\* zqueue_front: a pointer to the first value, if there is one.
Front(c) ==
  /\ Goto(c, "front", IF size = 0 THEN "unlock" ELSE "read")
  /\ slot' = [slot EXCEPT ![c] = IF size = 0 THEN NULL ELSE <<begin_chunk, begin_pos>>]
  /\ UNCHANGED <<size, beginVars, endVars, spare_chunk, memVars, spin_push, spin_pop,
                 constVars, item, takenVars>>

Read(c) ==
  /\ Goto(c, "read", "pop")
  /\ item' = [item EXCEPT ![c] = Content(slot[c])]
  /\ UNCHANGED <<size, beginVars, endVars, spare_chunk, memVars, spin_push, spin_pop,
                 constVars, slot, takenVars>>

PopEmpty(c) ==
  /\ size = 0
  /\ Goto(c, "pop", "unlock")
  /\ UNCHANGED <<size, beginVars, endVars, spare_chunk, memVars, spin_push, spin_pop,
                 constVars, slot, item, takenVars>>

\* zqueue_pop and its locked forms: the pointer is that of the slot left behind.
Pop(c) ==
  LET first == <<begin_chunk, begin_pos>>
      last == begin_pos + 1 = ChunkSize
  IN  /\ size > 0
      /\ Goto(c, "pop", IF last THEN "recycle" ELSE "unlock")
      /\ size' = size - 1
      /\ slot' = [slot EXCEPT ![c] = first]
      /\ popped' = [popped EXCEPT ![c] = Content(first)]
      /\ begin_pos' = IF last THEN 0 ELSE begin_pos + 1
      /\ begin_chunk' = IF last THEN next[begin_chunk] ELSE begin_chunk
      /\ old' = IF last THEN [old EXCEPT ![c] = begin_chunk] ELSE old
      /\ UNCHANGED <<endVars, spare_chunk, memVars, spin_push, spin_pop, constVars, item>>

\* The emptied chunk becomes the spare one, the spare one is freed.
Recycle(c) ==
  /\ Goto(c, "recycle", "unlock")
  /\ spare_chunk' = old[c]
  /\ live' = live \ {spare_chunk}
  /\ old' = [old EXCEPT ![c] = NULL]
  /\ UNCHANGED <<size, beginVars, endVars, value, spin_push, spin_pop, constVars, slot,
                 item, popped>>

UnlockPop(c) ==
  /\ Goto(c, "unlock", IF usage = "lock_pop" /\ slot[c] # NULL THEN "late" ELSE "idle")
  /\ spin_pop' = NULL
  /\ UNCHANGED <<size, beginVars, endVars, spare_chunk, memVars, spin_push, constVars, slot,
                 item, takenVars>>

\* The caller of zqueue_lock_pop reads the value through the pointer it got.
LateRead(c) ==
  /\ Goto(c, "late", "idle")
  /\ item' = [item EXCEPT ![c] = Content(slot[c])]
  /\ UNCHANGED <<size, beginVars, endVars, spare_chunk, memVars, spin_push, spin_pop,
                 constVars, slot, takenVars>>

-----------------------------------------------------------------------------
Producer(p) ==
  \/ LockPush(p) \/ PushCopy(p) \/ BackPos(p) \/ TakeSpare(p) \/ Allocate(p)
  \/ AllocFails(p) \/ Fill(p) \/ Count(p) \/ UnlockPush(p)

Consumer(c) ==
  \/ Start(c) \/ Front(c) \/ Read(c) \/ PopEmpty(c) \/ Pop(c) \/ Recycle(c)
  \/ UnlockPop(c) \/ LateRead(c)

Next == (\E p \in Producers : Producer(p)) \/ (\E c \in Consumers : Consumer(c))

Spec == Init /\ [][Next]_vars

-----------------------------------------------------------------------------
(* Safety                                                                  *)

\* Chunk[n]: the chunk reached from begin_chunk by n links.
Chunk[n \in 0..Cardinality(Chunks)] ==
  IF n = 0 THEN begin_chunk
  ELSE IF Chunk[n - 1] = NULL THEN NULL ELSE next[Chunk[n - 1]]

Chain == {Chunk[n] : n \in DOMAIN Chunk} \ {NULL}

\* The chunks from begin_chunk lead to end_chunk and end there; the spare chunk and those
\* being recycled are not among them; nothing else is allocated.  So no chunk is used
\* after it was freed, used twice or leaked, although producers and consumers exchange
\* spare_chunk without a common lock (queue.h:113-125, 139-146).
ChainSound ==
  LET apart == ({spare_chunk} \cup {old[c] : c \in Consumers}) \ {NULL}
  IN  /\ end_chunk \in Chain
      /\ next[end_chunk] = NULL
      /\ Chain \cap apart = {}
      /\ \A c, d \in Consumers : old[c] = old[d] /\ old[c] # NULL => c = d
      /\ \A c \in Consumers : old[c] # NULL => old[c] # spare_chunk
      /\ live = Chain \cup apart

\* Slots from the begin position to the end position.
Distance ==
  LET n == CHOOSE i \in DOMAIN Chunk : Chunk[i] = end_chunk
  IN  n * ChunkSize + end_pos - begin_pos

\* size counts the slots between the two positions, except the one that a producer has
\* reserved and not yet counted, or could not count (queue.h:107-126, 398-424).
SizeMatches ==
  LET reserved == \E p \in Producers : pc[p] \in {"spare", "alloc", "fill", "count"}
      failed == end_pos = ChunkSize /\ spin_push = NULL
  IN  Distance = size + IF reserved \/ failed THEN 1 ELSE 0

\* A consumer that has returned read the value it popped.
ReadsIntact == \A c \in Consumers : pc[c] = "idle" => item[c] = popped[c]

\* With zqueue_front and zqueue_lock_front the value is read before its slot is given up,
\* so no producer overwrites it and no consumer frees it (queue.h:383-393).
FrontReadsIntact == usage # "lock_pop" => ReadsIntact

\* The k-th counted slot from the begin position.
SlotAt(k) ==
  LET at == begin_pos + k - 1
  IN  <<Chunk[at \div ChunkSize], at % ChunkSize>>

\* The queue is a FIFO: a value is put when it is counted and taken when it is popped,
\* whatever the steps of other threads in between (queue.h:268-450).
FifoOfValues ==
  INSTANCE Fifo WITH
    Nothing <- NULL,
    items   <- [k \in 1..size |-> Content(SlotAt(k))],
    got     <- popped

ImplementsFifo == FifoOfValues!Spec
=============================================================================
