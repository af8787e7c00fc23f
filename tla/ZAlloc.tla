------------------------------- MODULE ZAlloc -------------------------------
(***************************************************************************)
(* The fixed-size block allocator of zit/memory/alloc.h.  Recycled blocks  *)
(* wait in a queue with a lock for each end (a FIFO: ZQueue shows it);     *)
(* fresh ones are cut from the last chunk of the memory queue, from its    *)
(* end to its beginning, under a third lock.                               *)
(***************************************************************************)
EXTENDS Integers, FiniteSets, SequencesExt

CONSTANTS
  Threads,  \* users of the allocator
  Capacity, \* blocks of a chunk
  MaxMem,   \* alloc->max_mem, in blocks
  Nil       \* no block

\* Blocks are numbered in the order in which they are cut.
MaxBlocks == MaxMem + 2 * Capacity
Blocks == 1..MaxBlocks

ASSUME ZAllocAssumption ==
  /\ Capacity \in Nat \ {0} /\ MaxMem \in Nat
  /\ Nil \notin Blocks

VARIABLES
  mem_end, \* mque->end_pos: blocks left in the last chunk
  chk_cnt, \* alloc->chk_cnt: chunks added to the first one
  rec_que, \* alloc->rec_que
  at,      \* at[u]: control point of thread u
  blk,     \* blk[u]: the block in its hands
  lost,    \* the block whose push failed, Nil before
  written  \* blocks that hold what their user wrote, the others are zero

memVars == <<mem_end, chk_cnt>>
userVars == <<at, blk>>
allocVars == <<memVars, rec_que, userVars, lost, written>>

\* Blocks cut so far.
Cut == Capacity * (chk_cnt + 1) - mem_end

\* zalloc_create: the first chunk is full.
AllocInit ==
  /\ mem_end = Capacity /\ chk_cnt = 0
  /\ rec_que = <<>>
  /\ at = [u \in Threads |-> "idle"]
  /\ blk = [u \in Threads |-> Nil]
  /\ lost = Nil /\ written = {}

Step(u, from, to) == at[u] = from /\ at' = [at EXCEPT ![u] = to]

Holds(u, b) == blk' = [blk EXCEPT ![u] = b]

\* zalloc_pop: a recycled block is taken ...
PopRecycled(u) ==
  /\ rec_que # <<>>
  /\ Step(u, "idle", "has")
  /\ Holds(u, Head(rec_que)) /\ rec_que' = Tail(rec_que)
  /\ UNCHANGED <<memVars, lost, written>>

\* ... or, if there was none, spin_mo is taken.
RecycledEmpty(u) ==
  /\ rec_que = <<>>
  /\ Step(u, "idle", "fresh")
  /\ UNCHANGED <<memVars, rec_que, blk, lost, written>>

\* Mutated form: mem_end is not moved.
CutBlockAgain(u) ==
  /\ mem_end > 0
  /\ Step(u, "fresh", "has")
  /\ Holds(u, Cut + 1)
  /\ UNCHANGED <<memVars, rec_que, lost, written>>

CutBlock(u) ==
  /\ mem_end > 0
  /\ Step(u, "fresh", "has")
  /\ Holds(u, Cut + 1) /\ mem_end' = mem_end - 1
  /\ UNCHANGED <<chk_cnt, rec_que, lost, written>>

\* Mutated form: the chunk is not counted.
AddChunkUncounted(u) ==
  /\ mem_end = 0 /\ MaxMem >= Capacity * (chk_cnt - 1)
  /\ Step(u, "fresh", "has")
  /\ chk_cnt' = chk_cnt + 1
  /\ Holds(u, Cut + 1) /\ mem_end' = Capacity - 1
  /\ UNCHANGED <<rec_que, lost, written>>

\* The limit is compared with the chunks added so far.
AddChunk(u) ==
  /\ mem_end = 0 /\ MaxMem >= Capacity * chk_cnt
  /\ Step(u, "fresh", "has")
  /\ chk_cnt' = chk_cnt + 1
  /\ Holds(u, Cut + 1) /\ mem_end' = Capacity - 1
  /\ UNCHANGED <<rec_que, lost, written>>

\* ZEMEM_OUTOFBOUNDS at the limit, ZEMEM_INSUFFICIENT if no chunk can be had.
PopFails(u) ==
  /\ mem_end = 0
  /\ Step(u, "fresh", "idle")
  /\ UNCHANGED <<memVars, rec_que, blk, lost, written>>

\* zalloc_push: the block is cleared without a lock ...
Clear(u) ==
  /\ Step(u, "has", "push")
  /\ written' = written \ {blk[u]}
  /\ UNCHANGED <<memVars, rec_que, blk, lost>>

\* ... and appended to the recycle queue.
PushBlock(u) ==
  /\ lost = Nil
  /\ Step(u, "push", "idle")
  /\ rec_que' = Append(rec_que, blk[u]) /\ Holds(u, Nil)
  /\ UNCHANGED <<memVars, lost, written>>

\* ZEMEM_INSUFFICIENT: the block fills a chunk of the recycle queue (any push may be the one
\* that does) and the next chunk cannot be had, so that it is not counted.
PushBlockFails(u) ==
  /\ lost = Nil /\ lost' = blk[u]
  /\ Step(u, "push", "idle") /\ Holds(u, Nil)
  /\ UNCHANGED <<memVars, rec_que, written>>

\* A push after that writes behind the chunk: it is not followed up.
PushBehind(u) == lost # Nil /\ at[u] = "push" /\ UNCHANGED allocVars

Allocator(u) ==
  \/ PopRecycled(u) \/ RecycledEmpty(u) \/ CutBlock(u) \/ AddChunk(u) \/ PopFails(u)
  \/ Clear(u) \/ PushBlock(u) \/ PushBlockFails(u) \/ PushBehind(u)

-----------------------------------------------------------------------------
Held == {blk[u] : u \in Threads} \ {Nil}

\* The memory is at most two chunks above the limit: the first chunk is not counted, and the
\* last one is added when the limit is reached (alloc.h:86-112).
MemoryBounded == Capacity * (chk_cnt + 1) <= MaxMem + 2 * Capacity
=============================================================================
