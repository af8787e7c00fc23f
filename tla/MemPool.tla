------------------------------ MODULE MemPool -------------------------------
(***************************************************************************)
(* Objects of variable size: the unfixed half of src/memory.c over the     *)
(* memory pool of zit/memory/mem_pool.h, a tree of free buffers by size    *)
(* class.  A pop takes the head of a list of equal keys with               *)
(* zrbtree_erasex.                                                         *)
(***************************************************************************)
EXTENDS RBTree

CONSTANTS
  Bufs,   \* the buffers that calloc can return
  Sizes,  \* sizes that users ask for
  Width   \* bits of uint32_t

VARIABLES
  buf,   \* buf[n]: item->buf in the data of node n
  class, \* class[b]: bytes of an allocated buffer, 0 for others
  obj    \* obj[b]: mode, size and ref of the object in b, NULL for free buffers

poolVars == <<vars, buf, class, obj>>

\* The highest bit of twice the size; the size itself when doubling overflows to zero.
PowerOf2(size) ==
  LET s == (2 * size) % 2^Width
  IN  IF s = 0 THEN size ELSE CHOOSE p \in {2^i : i \in 0..Width} : p <= s /\ s < 2 * p

PoolInit ==
  /\ Init /\ multiple
  /\ buf = [n \in Node |-> NULL]
  /\ class = [b \in Bufs |-> 0]
  /\ obj = [b \in Bufs |-> NULL]

\* zmem_pool_pop: the head of the size's list (zmem_pool_cmp accepts any), or calloc.
MemPop(b, size) ==
  LET n == Walk(t, t.root, PowerOf2(size))
  IN  IF n # NULL
        THEN /\ b = buf[n] /\ Erasex(n)
             /\ buf' = [buf EXCEPT ![n] = NULL] /\ UNCHANGED class
        ELSE /\ class[b] = 0 /\ class' = [class EXCEPT ![b] = PowerOf2(size)]
             /\ UNCHANGED <<vars, buf>>

\* zmem_pool_push: a node with the buffer is inserted, or the buffer freed.
MemPush(b, size) ==
  IF \E n \in free : KeyOf[n] = PowerOf2(size)
    THEN \E n \in free :
           LET h == Walk(t, t.root, KeyOf[n])
           IN  /\ KeyOf[n] = PowerOf2(size)
               /\ free' = free \ {n} /\ buf' = [buf EXCEPT ![n] = b]
               /\ t' = IF h # NULL THEN [t EXCEPT !.next[n] = t.next[h], !.next[h] = n]
                       ELSE InsertCase1(Attached(n,
                              IF t.root = NULL THEN NULL ELSE LastOnPath(t, t.root, KeyOf[n])), n)
               /\ UNCHANGED <<multiple, held, seen, class>>
    ELSE class' = [class EXCEPT ![b] = 0] /\ UNCHANGED <<vars, buf>>

\* zobj_pool_pop_unfixed
PopObj(b, size, mode) ==
  /\ obj[b] = NULL
  /\ MemPop(b, size)
  /\ obj' = [obj EXCEPT ![b] = [mode |-> mode, size |-> size, ref |-> 1]]

\* zobj_mem_clone_unfixed copies into another buffer, zobj_ref_clone counts.
CloneObj(b, c) ==
  /\ obj[b] # NULL
  /\ IF obj[b].mode = "MEMCPY"
       THEN /\ obj[c] = NULL /\ MemPop(c, obj[b].size)
            /\ obj' = [obj EXCEPT ![c] = obj[b]]
       ELSE /\ b = c /\ obj[b].ref < 2 /\ UNCHANGED <<vars, buf, class>>
            /\ obj' = [obj EXCEPT ![b].ref = @ + 1]

\* zobj_mem_release_unfixed and zobj_ref_release_unfixed
ReleaseObj(b) ==
  /\ obj[b] # NULL
  /\ IF obj[b].mode = "REF" /\ obj[b].ref > 1
       THEN obj' = [obj EXCEPT ![b].ref = @ - 1] /\ UNCHANGED <<vars, buf, class>>
       ELSE obj' = [obj EXCEPT ![b] = NULL] /\ MemPush(b, obj[b].size)

PoolNext ==
  \E b \in Bufs :
    \/ \E size \in Sizes, mode \in {"MEMCPY", "REF"} : PopObj(b, size, mode)
    \/ \E c \in Bufs : CloneObj(b, c)
    \/ ReleaseObj(b)

PoolSpec == PoolInit /\ [][PoolNext]_poolVars
=============================================================================
