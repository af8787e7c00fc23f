------------------------------- MODULE ZList --------------------------------
(***************************************************************************)
(* The linked list of zit/container/list.h and its node allocator, used by *)
(* threads through the calls zlist_lock_*: each holds the list's lock for  *)
(* its whole length and is a step.                                         *)
(***************************************************************************)
EXTENDS ZAlloc

VARIABLES
  head, tail, list_size, \* list->head, list->tail, *list->size
  nod_next, nod_prev,    \* nod->next and nod->prev of every block
  popped                 \* the node that the last pop returned

endsVars == <<head, tail, list_size>>
nodVars == <<nod_next, nod_prev>>
listVars == <<allocVars, endsVars, nodVars, popped>>

\* zlist_create
ListInit ==
  /\ AllocInit
  /\ head = Nil /\ tail = Nil /\ list_size = 0
  /\ nod_next = [b \in Blocks |-> Nil] /\ nod_prev = [b \in Blocks |-> Nil]
  /\ popped = Nil

\* zlist_alloc_node and zlist_recycle_node; clearing a block clears its links.
ListAllocator(u) ==
  /\ Allocator(u)
  /\ LET b == blk[u]
         clearing == at[u] = "has"
     IN  /\ nod_next' = IF clearing THEN [nod_next EXCEPT ![b] = Nil] ELSE nod_next
         /\ nod_prev' = IF clearing THEN [nod_prev EXCEPT ![b] = Nil] ELSE nod_prev
  /\ UNCHANGED <<endsVars, popped>>

\* The user writes the node's data and gives it to the list.
GiveNode(u) ==
  /\ Step(u, "has", "idle")
  /\ Holds(u, Nil) /\ written' = written \cup {blk[u]}
  /\ list_size' = list_size + 1
  /\ UNCHANGED <<memVars, rec_que, lost, popped>>

\* zlist_push
ListPush(u) ==
  LET b == blk[u]
  IN  /\ GiveNode(u)
      /\ tail' = b
      /\ IF list_size = 0
           THEN /\ head' = b
                /\ nod_prev' = [nod_prev EXCEPT ![b] = Nil]
                /\ nod_next' = [nod_next EXCEPT ![b] = Nil]
           ELSE /\ UNCHANGED head
                /\ nod_prev' = [nod_prev EXCEPT ![b] = tail]
                /\ nod_next' = [nod_next EXCEPT ![b] = Nil, ![tail] = b]

\* zlist_push_front
ListPushFront(u) ==
  LET b == blk[u]
  IN  /\ GiveNode(u)
      /\ head' = b
      /\ IF list_size = 0
           THEN /\ tail' = b
                /\ nod_prev' = [nod_prev EXCEPT ![b] = Nil]
                /\ nod_next' = [nod_next EXCEPT ![b] = Nil]
           ELSE /\ UNCHANGED tail
                /\ nod_next' = [nod_next EXCEPT ![b] = head]
                /\ nod_prev' = [nod_prev EXCEPT ![b] = Nil, ![head] = b]

\* A pop of an empty list counts down and up again.
TakeNode(u, b) ==
  /\ list_size > 0
  /\ Step(u, "idle", "has")
  /\ Holds(u, b) /\ popped' = b
  /\ list_size' = list_size - 1
  /\ UNCHANGED <<memVars, rec_que, lost, written>>

\* Mutated form: the new head keeps its link to the node that left.
ListPopKeepsPrev(u) ==
  /\ TakeNode(u, head)
  /\ head' = nod_next[head]
  /\ UNCHANGED <<tail, nodVars>>

\* Mutated form: the head is not moved.
ListPopKeepsHead(u) ==
  /\ TakeNode(u, head)
  /\ UNCHANGED <<head, tail, nodVars>>

\* zlist_pop; the tail stays when the last node leaves.
ListPop(u) ==
  /\ TakeNode(u, head)
  /\ head' = nod_next[head]
  /\ nod_prev' = IF head' = Nil THEN nod_prev ELSE [nod_prev EXCEPT ![head'] = Nil]
  /\ UNCHANGED <<tail, nod_next>>

\* zlist_pop_back; the head stays when the last node leaves.
ListPopBack(u) ==
  /\ TakeNode(u, tail)
  /\ tail' = nod_prev[tail]
  /\ nod_next' = IF tail' = Nil THEN nod_next ELSE [nod_next EXCEPT ![tail'] = Nil]
  /\ UNCHANGED <<head, nod_prev>>

ListNext ==
  \E u \in Threads :
    \/ ListAllocator(u)
    \/ ListPush(u) \/ ListPushFront(u) \/ ListPop(u) \/ ListPopBack(u)

ListSpec == ListInit /\ [][ListNext]_listVars

-----------------------------------------------------------------------------
\* The nodes from b along next; visit[n] follows at most n links.
Visited(next, b) ==
  LET visit[n \in 0..MaxBlocks] ==
        IF n = 0 THEN <<b>>
        ELSE IF next[Last(visit[n - 1])] = Nil THEN visit[n - 1]
        ELSE Append(visit[n - 1], next[Last(visit[n - 1])])
  IN  visit[MaxBlocks]

\* What zlist_foreach, which does not look at the size, visits.
ListForeach == IF head = Nil THEN <<>> ELSE Visited(nod_next, head)

\* What pops would return.
Contents == IF list_size = 0 THEN <<>> ELSE SubSeq(Visited(nod_next, head), 1, list_size)

\* The links of both directions lead through the same nodes from one end to the other, so
\* that zlist_foreach and pops at both ends agree, but for one case: on a list that
\* zlist_pop_back has emptied foreach visits the node that was popped, wherever that is now,
\* and nothing behind it (list.h:140-163).
LinksAgree ==
  /\ list_size > 0 => ListForeach = Contents /\ Visited(nod_prev, tail) = Reverse(Contents)
  /\ list_size = 0 => ListForeach \in {<<>>, <<popped>>}

\* Every block cut so far is in one place: recycled, in the list, with one thread, or lost
\* by the push that could not get a chunk, one block at most; what is recycled is zero and
\* what is in the list is what was written (alloc.h:75-130).
BlocksSound ==
  LET listed == ToSet(Contents)
      recycled == ToSet(rec_que)
      missing == {lost} \ {Nil}
  IN  /\ 1..Cut = listed \cup recycled \cup Held \cup missing
      /\ Cut = Len(Contents) + Len(rec_que) + Cardinality({u \in Threads : blk[u] # Nil})
                + Cardinality(missing)
      /\ recycled \cap written = {} /\ listed \subseteq written

\* The list is a sequence for all its users together.
ListDeque == INSTANCE Deque WITH
  Values <- Blocks, Nothing <- Nil, items <- Contents, taken <- popped

ListImplementsDeque == ListDeque!Spec
=============================================================================
