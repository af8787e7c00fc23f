----------------------------- MODULE TaskServer -----------------------------
(***************************************************************************)
(* The task server of src/task.c: posters hand reference-counted (or       *)
(* copied) task objects to the missions that subscribe their type, and a   *)
(* pool of workers runs the handlers.  A mission is a queue of tasks with  *)
(* a status; a READY mission is scheduled through the queue mis_ready and  *)
(* the semaphore sem_ready.  Every access that another thread can observe  *)
(* is a step of its own; accesses that a held spin lock hides are joined.  *)
(* Queues are sequences here: ZQueue models the chunks beneath them.       *)
(***************************************************************************)
EXTENDS Integers, Sequences, FiniteSets

CONSTANTS
  Workers,      \* the threads of svr->workers
  Posters,      \* the application's threads that call ztsk_svr_post
  Missions,     \* the missions (zmis_t)
  Types,        \* the task types (zotype_t)
  Objs,         \* the task objects the object pool can hold: its memory limit
  None,         \* NULL, a free spin lock, no task in hand
  Mode,         \* Mode[m]: "SERIAL" or "CONCURRENT" (zmis_t.mode)
  Subscribers,  \* Subscribers[t]: the missions on the list zrbtree_operate walks
  CloneMode,    \* CloneMode[t]: "REF" or "MEMCPY" (ZCLONE_MODE_*)
  BatchMax,     \* most tasks a worker takes from a serial mission (128 in the code)
  MaxPosts,     \* bound on the posts of a behaviour
  MayStop,      \* whether the application stops the server
  CreateMayFail \* whether zthread_create may fail

Threads == Workers \cup Posters
Entries == [obj : Objs, num : Nat]

ASSUME ConstantsAssumption ==
  /\ Workers \cap Posters = {} /\ Missions \cap Threads = {}
  /\ IsFiniteSet(Workers) /\ IsFiniteSet(Posters)
  /\ None \notin Threads \cup Missions \cup Objs \cup Entries \cup (Missions \X Nat)
  /\ None \notin [type : Types, num : Nat]
  /\ Mode \in [Missions -> {"SERIAL", "CONCURRENT"}]
  /\ Subscribers \in [Types -> Seq(Missions)]
  /\ CloneMode \in [Types -> {"REF", "MEMCPY"}]
  /\ BatchMax \in Nat \ {0}
  /\ MaxPosts \in Nat
  /\ MayStop \in BOOLEAN /\ CreateMayFail \in BOOLEAN

VARIABLES
  server,     \* the thread that owns the server: creating, running, joining, stopped
  is_run,     \* value of the loop condition !svr->is_run || *svr->is_run
  mis_ready,  \* svr->mis_ready: missions waiting for a worker
  sem_ready,  \* svr->sem_ready
  subs_spin,  \* svr->subscribers->spin: the poster that walks the subscribers
  tasks,      \* tasks[m]: m->tasks
  status,     \* status[m]: m->status
  spin_stat,  \* spin_stat[m]: the thread that holds m->spin_stat
  ref,        \* ref[o]: references to object o; 0 when o is in the pool
  data,       \* data[o]: what o holds, [type, num]; None once the pool cleared it
  posts,      \* number of tasks posted so far; numbers the tasks
  pc,         \* control point of every thread
  mis,        \* the mission a thread works on
  tsk,        \* a worker's buddy, a poster's task to enqueue
  hint,       \* hint[p]: the task ztsk_svr_post was called with
  rest,       \* rest[p]: subscribers still to be served, the current one first
  more,       \* more[w]: outcome of the size test in ztsk_switch_mis_status
  cnt         \* cnt[w]: tasks done in this turn of a serial mission

serverVars == <<server, is_run>>
readyVars == <<mis_ready, sem_ready>>
missionVars == <<tasks, status, spin_stat>>
objVars == <<ref, data, posts>>
posterVars == <<subs_spin, hint, rest>>
workerVars == <<more, cnt>>
vars == <<serverVars, readyVars, missionVars, objVars, posterVars, workerVars,
          pc, mis, tsk>>

WorkerLabels == {"new", "loop", "wait", "pop", "front", "cpop", "oper", "rel", "spop",
                 "swlock", "swtest", "swset", "swsem", "swunlock", "done"}
PosterLabels == {"idle", "post", "clone", "enq", "stat", "wake", "sem", "unlock"}

TypeOK ==
  /\ server \in {"creating", "running", "joining", "stopped"}
  /\ is_run \in BOOLEAN
  /\ mis_ready \in Seq(Missions)
  /\ sem_ready \in Nat
  /\ subs_spin \in Posters \cup {None}
  /\ tasks \in [Missions -> Seq(Entries)]
  /\ status \in [Missions -> {"IDLE", "READY"}]
  /\ spin_stat \in [Missions -> Threads \cup {None}]
  /\ ref \in [Objs -> Int]
  /\ data \in [Objs -> [type : Types, num : Nat] \cup {None}]
  /\ posts \in Nat
  /\ pc \in [Threads -> WorkerLabels \cup PosterLabels]
  /\ \A w \in Workers : pc[w] \in WorkerLabels
  /\ \A p \in Posters : pc[p] \in PosterLabels
  /\ mis \in [Threads -> Missions \cup {None}]
  /\ tsk \in [Threads -> Entries \cup {None}]
  /\ hint \in [Posters -> Entries \cup {None}]
  /\ rest \in [Posters -> Seq(Missions)]
  /\ more \in [Workers -> BOOLEAN]
  /\ cnt \in [Workers -> 0..BatchMax]

\* ztsk_svr_create, zmis_create and the subscriptions are done; no thread runs yet.
Init ==
  /\ server = "creating"
  /\ is_run = TRUE
  /\ mis_ready = <<>>
  /\ sem_ready = 0
  /\ subs_spin = None
  /\ tasks = [m \in Missions |-> <<>>]
  /\ status = [m \in Missions |-> "IDLE"]
  /\ spin_stat = [m \in Missions |-> None]
  /\ ref = [o \in Objs |-> 0]
  /\ data = [o \in Objs |-> None]
  /\ posts = 0
  /\ pc = [t \in Threads |-> IF t \in Workers THEN "new" ELSE "idle"]
  /\ mis = [t \in Threads |-> None]
  /\ tsk = [t \in Threads |-> None]
  /\ hint = [p \in Posters |-> None]
  /\ rest = [p \in Posters |-> <<>>]
  /\ more = [w \in Workers |-> FALSE]
  /\ cnt = [w \in Workers |-> 0]

-----------------------------------------------------------------------------
(* Operators shared by the steps.                                          *)

Goto(t, from, to) ==
  /\ pc[t] = from
  /\ pc' = [pc EXCEPT ![t] = to]

\* zqueue_pop: an empty queue is left alone.
PopFront(q) == IF q = <<>> THEN q ELSE Tail(q)

Serial(m) == Mode[m] = "SERIAL"

\* Mutated form: the object is cleared on the first release, whoever else holds it.
ReleaseObjEager(o) ==
  /\ ref' = [ref EXCEPT ![o] = @ - 1]
  /\ data' = [data EXCEPT ![o] = None]

\* tsk->release: drop one reference; the last one clears the object into the pool.
\* A MEMCPY object carries one reference from zobj_pool_pop or clone to release.
ReleaseObj(o) ==
  /\ ref' = [ref EXCEPT ![o] = @ - 1]
  /\ data' = [data EXCEPT ![o] = IF ref[o] = 1 THEN None ELSE @]

FreeObjs == {o \in Objs : ref[o] = 0}

-----------------------------------------------------------------------------
(* The thread that owns the server: ztsk_svr_run, ztsk_svr_stop.           *)

CreateWorker(w) ==
  /\ server = "creating"
  /\ Goto(w, "new", "loop")
  /\ UNCHANGED <<serverVars, readyVars, missionVars, objVars, posterVars, workerVars,
                 mis, tsk>>

\* All threads exist, or a creation failed and worker_num is cut to the ones made.
RunReturns ==
  /\ server = "creating"
  /\ CreateMayFail \/ \A w \in Workers : pc[w] # "new"
  /\ server' = "running"
  /\ UNCHANGED <<is_run, readyVars, missionVars, objVars, posterVars, workerVars,
                 pc, mis, tsk>>

StopCalled ==
  /\ MayStop
  /\ server = "running"
  /\ server' = "joining"
  /\ is_run' = FALSE
  /\ UNCHANGED <<readyVars, missionVars, objVars, posterVars, workerVars, pc, mis, tsk>>

StopReturns ==
  /\ server = "joining"
  /\ \A w \in Workers : pc[w] \in {"new", "done"}
  /\ server' = "stopped"
  /\ UNCHANGED <<is_run, readyVars, missionVars, objVars, posterVars, workerVars,
                 pc, mis, tsk>>

-----------------------------------------------------------------------------
(* A poster: zobj_pool_pop, then ztsk_svr_post, which calls ztsk_post on   *)
(* every subscriber of the type while zrbtree_operate holds the tree lock. *)

\* The application takes an object from the pool, fills it and calls ztsk_svr_post.
PopTask(p) ==
  /\ posts < MaxPosts
  /\ Goto(p, "idle", "post")
  /\ \E o \in FreeObjs, t \in Types :
       /\ ref' = [ref EXCEPT ![o] = 1]
       /\ data' = [data EXCEPT ![o] = [type |-> t, num |-> posts + 1]]
       /\ hint' = [hint EXCEPT ![p] = [obj |-> o, num |-> posts + 1]]
       /\ rest' = [rest EXCEPT ![p] = Subscribers[t]]
  /\ posts' = posts + 1
  /\ UNCHANGED <<serverVars, readyVars, missionVars, subs_spin, workerVars, mis, tsk>>

\* zrbtree_operate finds no node of the type: the task is released.
NoSubscriber(p) ==
  /\ rest[p] = <<>>
  /\ Goto(p, "post", "idle")
  /\ ReleaseObj(hint[p].obj)
  /\ hint' = [hint EXCEPT ![p] = None]
  /\ UNCHANGED <<serverVars, readyVars, missionVars, posts, subs_spin, rest, workerVars,
                 mis, tsk>>

\* zrbtree_operate takes the tree lock and finds the list of the type.
WalkLock(p) ==
  /\ rest[p] # <<>>
  /\ subs_spin = None
  /\ Goto(p, "post", "clone")
  /\ subs_spin' = p
  /\ UNCHANGED <<serverVars, readyVars, missionVars, objVars, hint, rest, workerVars,
                 mis, tsk>>

\* Mutated form: every subscriber gets the task itself, uncounted.
CloneForgotten(p) ==
  /\ Goto(p, "clone", "enq")
  /\ mis' = [mis EXCEPT ![p] = Head(rest[p])]
  /\ tsk' = [tsk EXCEPT ![p] = hint[p]]
  /\ UNCHANGED <<serverVars, readyVars, missionVars, objVars, posterVars, workerVars>>

\* The last subscriber gets the task itself, the ones before it a clone.  A failed
\* clone of a MEMCPY task hands over the task itself although the walk goes on (a
\* cleared task has no clone function: the process would crash there).
CloneTask(p) ==
  LET e == hint[p]
      copy(o) == /\ ref' = [ref EXCEPT ![o] = 1]
                 /\ data' = [data EXCEPT ![o] = data[e.obj]]
                 /\ tsk' = [tsk EXCEPT ![p] = [obj |-> o, num |-> e.num]]
      itself == tsk' = [tsk EXCEPT ![p] = e]
      byRef == CloneMode[data[e.obj].type] = "REF"
  IN  /\ Goto(p, "clone", "enq")
      /\ data[e.obj] # None
      /\ mis' = [mis EXCEPT ![p] = Head(rest[p])]
      /\ \/ Len(rest[p]) = 1 /\ itself /\ UNCHANGED <<ref, data>>
         \/ /\ Len(rest[p]) > 1 /\ byRef
            /\ itself
            /\ ref' = [ref EXCEPT ![e.obj] = @ + 1]
            /\ UNCHANGED data
         \/ Len(rest[p]) > 1 /\ ~byRef /\ \E o \in FreeObjs : copy(o)
         \/ /\ Len(rest[p]) > 1 /\ ~byRef /\ FreeObjs = {}
            /\ itself
            /\ UNCHANGED <<ref, data>>
      /\ UNCHANGED <<serverVars, readyVars, missionVars, posts, posterVars, workerVars>>

\* zqueue_lock_back_pos .. zqueue_unlock_back_pos: the size counts the entry last.  (When
\* no chunk can be had the queue is of no use afterwards, see ZQueue!AllocFails: that the
\* call, or the push to mis_ready, fails so is not followed up here.)
Enqueue(p) ==
  /\ Goto(p, "enq", "stat")
  /\ tasks' = [tasks EXCEPT ![mis[p]] = Append(@, tsk[p])]
  /\ tsk' = [tsk EXCEPT ![p] = None]
  /\ UNCHANGED <<serverVars, readyVars, status, spin_stat, objVars, posterVars,
                 workerVars, mis>>

\* Mutated form: the status is tested without spin_stat.
StatLockSkipped(p) ==
  /\ Goto(p, "stat", "wake")
  /\ UNCHANGED <<serverVars, readyVars, missionVars, objVars, posterVars, workerVars,
                 mis, tsk>>

StatLock(p) ==
  /\ Goto(p, "stat", "wake")
  /\ spin_stat[mis[p]] = None
  /\ spin_stat' = [spin_stat EXCEPT ![mis[p]] = p]
  /\ UNCHANGED <<serverVars, readyVars, tasks, status, objVars, posterVars, workerVars,
                 mis, tsk>>

\* Mutated form: the mission is queued whatever its status.
WakeAlways(p) ==
  /\ Goto(p, "wake", "sem")
  /\ status' = [status EXCEPT ![mis[p]] = "READY"]
  /\ mis_ready' = Append(mis_ready, mis[p])
  /\ UNCHANGED <<serverVars, sem_ready, tasks, spin_stat, objVars, posterVars, workerVars,
                 mis, tsk>>

\* Under spin_stat: an idle mission becomes READY and is queued.
WakeIdle(p) ==
  /\ Goto(p, "wake", "sem")
  /\ status[mis[p]] = "IDLE"
  /\ status' = [status EXCEPT ![mis[p]] = "READY"]
  /\ mis_ready' = Append(mis_ready, mis[p])
  /\ UNCHANGED <<serverVars, sem_ready, tasks, spin_stat, objVars, posterVars, workerVars,
                 mis, tsk>>

WakeReady(p) ==
  /\ Goto(p, "wake", "unlock")
  /\ status[mis[p]] = "READY"
  /\ UNCHANGED <<serverVars, readyVars, missionVars, objVars, posterVars, workerVars,
                 mis, tsk>>

\* Mutated form: the mission is queued but the semaphore is not posted.
SemPostForgotten(p) ==
  /\ Goto(p, "sem", "unlock")
  /\ UNCHANGED <<serverVars, readyVars, missionVars, objVars, posterVars, workerVars,
                 mis, tsk>>

SemPost(p) ==
  /\ Goto(p, "sem", "unlock")
  /\ sem_ready' = sem_ready + 1
  /\ UNCHANGED <<serverVars, mis_ready, missionVars, objVars, posterVars, workerVars,
                 mis, tsk>>

\* ztsk_post returns; the walk goes on with the next subscriber, or the tree lock is
\* released and ztsk_svr_post returns.
StatUnlock(p) ==
  LET last == Len(rest[p]) = 1
  IN  /\ Goto(p, "unlock", IF last THEN "idle" ELSE "clone")
      /\ spin_stat' = [spin_stat EXCEPT ![mis[p]] = None]
      /\ rest' = [rest EXCEPT ![p] = Tail(@)]
      /\ subs_spin' = IF last THEN None ELSE subs_spin
      /\ hint' = IF last THEN [hint EXCEPT ![p] = None] ELSE hint
      /\ mis' = [mis EXCEPT ![p] = None]
      /\ UNCHANGED <<serverVars, readyVars, tasks, status, objVars, workerVars, tsk>>

-----------------------------------------------------------------------------
(* A worker: zproc_tsk_svr.                                                *)

LoopTest(w) ==
  /\ Goto(w, "loop", IF is_run THEN "wait" ELSE "done")
  /\ UNCHANGED <<serverVars, readyVars, missionVars, objVars, posterVars, workerVars,
                 mis, tsk>>

SemWait(w) ==
  /\ sem_ready > 0
  /\ Goto(w, "wait", "pop")
  /\ sem_ready' = sem_ready - 1
  /\ UNCHANGED <<serverVars, mis_ready, missionVars, objVars, posterVars, workerVars,
                 mis, tsk>>

\* zsem_wait returns after 1000 ms without a post.
SemTimeout(w) ==
  /\ sem_ready = 0
  /\ Goto(w, "wait", "loop")
  /\ UNCHANGED <<serverVars, readyVars, missionVars, objVars, posterVars, workerVars,
                 mis, tsk>>

\* zqueue_lock_pop(svr->mis_ready) and mis = *ppmis.
PopReady(w) ==
  /\ Goto(w, "pop", IF mis_ready = <<>> THEN "loop" ELSE "front")
  /\ mis' = IF mis_ready = <<>> THEN mis ELSE [mis EXCEPT ![w] = Head(mis_ready)]
  /\ mis_ready' = PopFront(mis_ready)
  /\ cnt' = [cnt EXCEPT ![w] = 0]
  /\ UNCHANGED <<serverVars, sem_ready, missionVars, objVars, posterVars, more, tsk>>

\* Mutated form: the batch is one task too long.
FrontTaskOffByOne(w) ==
  LET m == mis[w]
  IN  /\ Goto(w, "front", IF Serial(m) THEN "oper" ELSE "cpop")
      /\ tasks[m] # <<>>
      /\ Serial(m) => cnt[w] <= BatchMax
      /\ tsk' = [tsk EXCEPT ![w] = Head(tasks[m])]
      /\ UNCHANGED <<serverVars, readyVars, missionVars, objVars, posterVars, workerVars,
                     mis>>

\* zqueue_front finds a task: a concurrent mission pops it first, a serial one runs it.
FrontTask(w) ==
  LET m == mis[w]
  IN  /\ Goto(w, "front", IF Serial(m) THEN "oper" ELSE "cpop")
      /\ tasks[m] # <<>>
      /\ Serial(m) => cnt[w] < BatchMax
      /\ tsk' = [tsk EXCEPT ![w] = Head(tasks[m])]
      /\ UNCHANGED <<serverVars, readyVars, missionVars, objVars, posterVars, workerVars,
                     mis>>

\* The queue is empty or the batch is used up: ztsk_switch_mis_status is called.
FrontStop(w) ==
  LET m == mis[w]
  IN  /\ Goto(w, "front", "swlock")
      /\ tasks[m] = <<>> \/ (Serial(m) /\ cnt[w] = BatchMax)
      /\ UNCHANGED <<serverVars, readyVars, missionVars, objVars, posterVars, workerVars,
                     mis, tsk>>

\* Mutated form: the mission is switched before its task is popped.
ConcurrentPopForgotten(w) ==
  /\ Goto(w, "cpop", "swlock")
  /\ UNCHANGED <<serverVars, readyVars, missionVars, objVars, posterVars, workerVars,
                 mis, tsk>>

ConcurrentPop(w) ==
  /\ Goto(w, "cpop", "swlock")
  /\ tasks' = [tasks EXCEPT ![mis[w]] = PopFront(@)]
  /\ UNCHANGED <<serverVars, readyVars, status, spin_stat, objVars, posterVars,
                 workerVars, mis, tsk>>

\* ztsk_operate: the handler of the subscriber runs on the task.
Operate(w) ==
  /\ Goto(w, "oper", "rel")
  /\ UNCHANGED <<serverVars, readyVars, missionVars, objVars, posterVars, workerVars,
                 mis, tsk>>

\* ztsk_operate: tsk->release.  (mis and tsk are dead after a concurrent task.)
Release(w) ==
  LET serial == Serial(mis[w])
  IN  /\ Goto(w, "rel", IF serial THEN "spop" ELSE "loop")
      /\ ReleaseObj(tsk[w].obj)
      /\ tsk' = IF serial THEN tsk ELSE [tsk EXCEPT ![w] = None]
      /\ mis' = IF serial THEN mis ELSE [mis EXCEPT ![w] = None]
      /\ UNCHANGED <<serverVars, readyVars, missionVars, posts, posterVars, workerVars>>

\* Serial missions pop a task after its handler ran.
SerialPop(w) ==
  /\ Goto(w, "spop", "front")
  /\ tasks' = [tasks EXCEPT ![mis[w]] = PopFront(@)]
  /\ cnt' = [cnt EXCEPT ![w] = @ + 1]
  /\ tsk' = [tsk EXCEPT ![w] = None]
  /\ UNCHANGED <<serverVars, readyVars, status, spin_stat, objVars, posterVars, more, mis>>

(* ztsk_switch_mis_status.                                                 *)

\* Mutated form: the switch does not take spin_stat.
SwitchLockSkipped(w) ==
  /\ Goto(w, "swlock", "swtest")
  /\ UNCHANGED <<serverVars, readyVars, missionVars, objVars, posterVars, workerVars,
                 mis, tsk>>

SwitchLock(w) ==
  /\ Goto(w, "swlock", "swtest")
  /\ spin_stat[mis[w]] = None
  /\ spin_stat' = [spin_stat EXCEPT ![mis[w]] = w]
  /\ UNCHANGED <<serverVars, readyVars, tasks, status, objVars, posterVars, workerVars,
                 mis, tsk>>

\* zqueue_size(mis->tasks) > 0: posters may still append after this read.
SwitchTest(w) ==
  /\ Goto(w, "swtest", "swset")
  /\ more' = [more EXCEPT ![w] = tasks[mis[w]] # <<>>]
  /\ UNCHANGED <<serverVars, readyVars, missionVars, objVars, posterVars, cnt, mis, tsk>>

\* Mutated form: a mission with tasks left is not queued again.
SwitchReadyLost(w) ==
  /\ more[w]
  /\ Goto(w, "swset", "swsem")
  /\ UNCHANGED <<serverVars, readyVars, missionVars, objVars, posterVars, workerVars,
                 mis, tsk>>

SwitchReady(w) ==
  /\ more[w]
  /\ Goto(w, "swset", "swsem")
  /\ status' = [status EXCEPT ![mis[w]] = "READY"]
  /\ mis_ready' = Append(mis_ready, mis[w])
  /\ UNCHANGED <<serverVars, sem_ready, tasks, spin_stat, objVars, posterVars, workerVars,
                 mis, tsk>>

SwitchSem(w) ==
  /\ Goto(w, "swsem", "swunlock")
  /\ sem_ready' = sem_ready + 1
  /\ UNCHANGED <<serverVars, mis_ready, missionVars, objVars, posterVars, workerVars,
                 mis, tsk>>

SwitchIdle(w) ==
  /\ ~more[w]
  /\ Goto(w, "swset", "swunlock")
  /\ status' = [status EXCEPT ![mis[w]] = "IDLE"]
  /\ UNCHANGED <<serverVars, readyVars, tasks, spin_stat, objVars, posterVars, workerVars,
                 mis, tsk>>

\* Mutated form: a worker with no task in hand returns without unlocking.
SwitchUnlockForgotten(w) ==
  LET m == mis[w]
      back == tsk[w] = None
  IN  /\ Goto(w, "swunlock", IF back THEN "loop" ELSE "oper")
      /\ spin_stat' = IF back THEN spin_stat ELSE [spin_stat EXCEPT ![m] = None]
      /\ mis' = IF back THEN [mis EXCEPT ![w] = None] ELSE mis
      /\ UNCHANGED <<serverVars, readyVars, tasks, status, objVars, posterVars, workerVars,
                     tsk>>

\* A concurrent mission's task runs only now, when others may take the mission.
SwitchUnlock(w) ==
  LET m == mis[w]
      back == tsk[w] = None
  IN  /\ Goto(w, "swunlock", IF back THEN "loop" ELSE "oper")
      /\ spin_stat' = [spin_stat EXCEPT ![m] = None]
      /\ mis' = IF back THEN [mis EXCEPT ![w] = None] ELSE mis
      /\ UNCHANGED <<serverVars, readyVars, tasks, status, objVars, posterVars, workerVars,
                     tsk>>

-----------------------------------------------------------------------------
Poster(p) ==
  \/ PopTask(p) \/ NoSubscriber(p) \/ WalkLock(p) \/ CloneTask(p) \/ Enqueue(p)
  \/ StatLock(p) \/ WakeIdle(p) \/ WakeReady(p) \/ SemPost(p) \/ StatUnlock(p)

Worker(w) ==
  \/ LoopTest(w) \/ SemWait(w) \/ SemTimeout(w) \/ PopReady(w)
  \/ FrontTask(w) \/ FrontStop(w) \/ ConcurrentPop(w)
  \/ Operate(w) \/ Release(w) \/ SerialPop(w)
  \/ SwitchLock(w) \/ SwitchTest(w) \/ SwitchReady(w) \/ SwitchIdle(w)
  \/ SwitchSem(w) \/ SwitchUnlock(w)

Owner == RunReturns \/ StopCalled \/ StopReturns \/ \E w \in Workers : CreateWorker(w)

\* The server is stopped and no poster can post: nothing is left to do.  Objects queued
\* when the workers left stay where they are: ztsk_svr_stop does not drain the missions.
Finished ==
  /\ server = "stopped"
  /\ posts = MaxPosts \/ FreeObjs = {}
  /\ \A p \in Posters : pc[p] = "idle"
  /\ UNCHANGED vars

Next ==
  \/ Owner
  \/ \E p \in Posters : Poster(p)
  \/ \E w \in Workers : Worker(w)
  \/ Finished

Spec == Init /\ [][Next]_vars

\* Threads keep running: a poster finishes a call it started, a worker that can take a
\* step takes one, the owner finishes its loops.  Nobody has to post or to stop.
Fairness ==
  /\ \A p \in Posters : WF_vars(Poster(p) /\ pc[p] # "idle")
  /\ \A w \in Workers : WF_vars(Worker(w))
  /\ WF_vars(RunReturns \/ StopReturns \/ \E w \in Workers : CreateWorker(w))

FairSpec == Spec /\ Fairness

-----------------------------------------------------------------------------
(* Safety                                                                  *)

\* Worker w has taken a mission and not given it back: it alone may pop the mission's
\* queue.  A concurrent task runs after its mission has been given back.
Owns(w) ==
  \/ pc[w] \in {"front", "cpop", "spop", "swlock", "swtest", "swset"}
  \/ pc[w] \in {"oper", "rel"} /\ Serial(mis[w])

\* A mission is scheduled at most once: no two workers own it, it is not in mis_ready
\* while a worker owns it, and it is not in mis_ready twice.  zqueue_front and zqueue_pop
\* on m->tasks (task.c:123-143) take no lock and rely on this alone.
ScheduledOnce ==
  /\ \A v, w \in Workers : Owns(v) /\ Owns(w) /\ mis[v] = mis[w] => v = w
  /\ \A w \in Workers, i \in DOMAIN mis_ready : Owns(w) => mis_ready[i] # mis[w]
  /\ \A i, j \in DOMAIN mis_ready : mis_ready[i] = mis_ready[j] => i = j

Scheduled(m) ==
  \/ \E i \in DOMAIN mis_ready : mis_ready[i] = m
  \/ \E w \in Workers : Owns(w) /\ mis[w] = m

\* No wakeup is lost: a mission with a task in its queue is in mis_ready or owned by a
\* worker, or a poster has yet to test its status (task.c:83-97 against 303-311).
NoLostWakeup ==
  \A m \in Missions :
    tasks[m] # <<>> =>
      Scheduled(m) \/ \E p \in Posters : pc[p] \in {"stat", "wake"} /\ mis[p] = m

\* sem_ready counts mis_ready: each queued mission is matched by one unit of the
\* semaphore, a worker between zsem_wait and zqueue_lock_pop, or a post to come.  So a
\* woken worker never finds mis_ready empty (task.c:117-120).
SemaphoreMatches ==
  Len(mis_ready) = sem_ready
                   + Cardinality({w \in Workers : pc[w] = "pop"})
                   + Cardinality({p \in Posters : pc[p] = "sem"})
                   + Cardinality({w \in Workers : pc[w] = "swsem"})

\* The task at the head of a serial mission has been released but not popped.
HeadReleased(m) == \E w \in Workers : pc[w] = "spop" /\ mis[w] = m

\* Positions of m->tasks that hold a reference.
Queued(m) == {i \in DOMAIN tasks[m] : i > 1 \/ ~HeadReleased(m)}

\* Worker w holds the popped task of a concurrent mission.
HoldsPopped(w) ==
  /\ tsk[w] # None
  /\ ~Serial(mis[w])
  /\ pc[w] # "cpop"

\* The poster's own reference, until the last subscriber is served.
HoldsHint(p) ==
  /\ hint[p] # None
  /\ pc[p] \in {"post", "clone"} \/ Len(rest[p]) > 1

Holders(o) ==
  (UNION {{<<m, i>> : i \in {j \in Queued(m) : tasks[m][j].obj = o}} : m \in Missions})
  \cup {<<w, "popped">> : w \in {v \in Workers : HoldsPopped(v) /\ tsk[v].obj = o}}
  \cup {<<p, "hint">> : p \in {q \in Posters : HoldsHint(q) /\ hint[q].obj = o}}
  \cup {<<p, "clone">> : p \in {q \in Posters : tsk[q] # None /\ tsk[q].obj = o}}

\* An object has one reference for every queue entry, worker and poster that will still
\* use it: it is never recycled while held (double release) and never leaks
\* (memory.c:115-170, task.c:278-331).
RefsMatchHolders == \A o \in Objs : ref[o] = Cardinality(Holders(o))

\* What a handler will find in a queued task, or finds in the task it runs on, is what
\* was posted: the pool has neither cleared nor reissued the object.
ContentIntact ==
  LET intact(e) == data[e.obj] # None /\ data[e.obj].num = e.num
  IN  /\ \A m \in Missions : \A i \in Queued(m) : intact(tasks[m][i])
      /\ \A w \in Workers : pc[w] = "oper" => intact(tsk[w])

\* The server implements the promise made in MissionExec: a task leaves the abstract
\* backlog when a worker takes it off zqueue_front and is executed until the worker is
\* done with it; in particular a serial mission runs one task at a time, in post order.
SpecOfMissions ==
  INSTANCE MissionExec WITH
    Executors  <- Workers,
    Items      <- 1..MaxPosts,
    SerialMode <- {m \in Missions : Serial(m)},
    Idle       <- None,
    pending    <- [m \in Missions |->
                     LET taken == \E w \in Workers :
                                    /\ mis[w] = m
                                    /\ \/ pc[w] \in {"cpop", "spop"}
                                       \/ pc[w] \in {"oper", "rel"} /\ Serial(m)
                         left == IF taken THEN Tail(tasks[m]) ELSE tasks[m]
                     IN  [i \in DOMAIN left |-> left[i].num]],
    exec       <- [w \in Workers |->
                     IF tsk[w] = None THEN None ELSE <<mis[w], tsk[w].num>>]

ImplementsMissionExec == SpecOfMissions!Spec

(* Liveness                                                                *)

\* Every task posted reaches the handler of every mission that subscribes its type, or
\* the server is stopped: no wakeup is lost and no mission starves (FairSpec).
Delivered ==
  \A n \in 1..MaxPosts, m \in Missions :
    (\E p \in Posters : /\ pc[p] = "post" /\ hint[p].num = n
                        /\ \E i \in DOMAIN rest[p] : rest[p][i] = m)
      ~> \/ \E w \in Workers : pc[w] = "oper" /\ mis[w] = m /\ tsk[w].num = n
         \/ ~is_run

\* Every object taken from the pool returns to it, or the server is stopped (FairSpec).
Recycled == \A o \in Objs : ref[o] # 0 ~> ref[o] = 0 \/ ~is_run

\* ztsk_svr_stop returns: every worker leaves its loop, whatever it was doing (FairSpec).
StopCompletes == server = "joining" ~> server = "stopped"
=============================================================================
