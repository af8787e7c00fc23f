-------------------------- MODULE TaskServerProofs --------------------------
(***************************************************************************)
(* What holds of TaskServer for any number of workers, posters, missions,  *)
(* objects, subscribers and posts: its types, that a mission is scheduled  *)
(* at most once, that no wakeup is lost, that the semaphore counts the     *)
(* missions that wait for a worker, that it implements MissionExec, and    *)
(* that an object is referenced once for each holder and holds what was    *)
(* posted as long as it has one.                                           *)
(***************************************************************************)
EXTENDS TaskServer, FiniteSetTheorems, FunctionTheorems, SequenceTheorems, TLAPS

(***************************************************************************)
(* The local variables of a thread hold what its control point relies on.  *)
(***************************************************************************)
PosterLocals(p) ==
  /\ pc[p] # "idle" => hint[p] \in Entries
  /\ pc[p] \in {"clone", "enq", "stat", "wake", "sem", "unlock"} => rest[p] # <<>>
  /\ pc[p] \in {"enq", "stat", "wake", "sem", "unlock"} => mis[p] \in Missions
  /\ pc[p] = "enq" => tsk[p] \in Entries

WorkerLocals(w) ==
  /\ pc[w] \notin {"new", "loop", "wait", "pop", "done"} => mis[w] \in Missions
  /\ pc[w] \in {"new", "loop", "wait", "pop", "done", "front"} => tsk[w] = None
  /\ pc[w] \in {"cpop", "oper", "rel", "spop"} => tsk[w] \in Entries
  /\ pc[w] \in {"cpop", "swlock", "swtest", "swset", "swsem", "swunlock"}
       => tsk[w] = None \/ ~Serial(mis[w])
  /\ pc[w] = "spop" => Serial(mis[w])
  /\ pc[w] \in {"oper", "rel", "spop"} /\ Serial(mis[w]) => cnt[w] < BatchMax

Locals ==
  /\ \A p \in Posters : PosterLocals(p)
  /\ \A w \in Workers : WorkerLocals(w)

(***************************************************************************)
(* What the sequence operations of the model return.                       *)
(***************************************************************************)
LEMMA TailTyped ==
  ASSUME NEW S, NEW q \in Seq(S), q # <<>>
  PROVE  Tail(q) \in Seq(S) /\ (Len(q) # 1 => Tail(q) # <<>>)
  <1>1. Tail(q) \in Seq(S) /\ Len(Tail(q)) = Len(q) - 1
    BY HeadTailProperties
  <1>2. Len(q) \in Nat \ {0} /\ Len(<<>>) = 0
    BY EmptySeq
  <1>3. ASSUME Len(q) # 1
        PROVE  Tail(q) # <<>>
    <2>1. Len(Tail(q)) # Len(<<>>)
      BY <1>1, <1>2, <1>3
    <2> QED
      BY <2>1, Zenon
  <1> QED
    BY <1>1, <1>3

LEMMA PopFrontTyped ==
  ASSUME NEW S, NEW q \in Seq(S)
  PROVE  PopFront(q) \in Seq(S)
  BY DEF PopFront

\* StatUnlock is done with the current subscriber.
LEMMA RestTyped ==
  ASSUME rest \in [Posters -> Seq(Missions)], NEW p \in Posters, rest[p] # <<>>,
         rest' = [rest EXCEPT ![p] = Tail(@)]
  PROVE  rest' \in [Posters -> Seq(Missions)]
  <1>1. PICK left \in Seq(Missions) : rest' = [rest EXCEPT ![p] = left]
    BY TailTyped
  <1> QED
    BY <1>1

LEMMA InitTyped == Init => TypeOK /\ Locals
  BY ConstantsAssumption DEF Init, TypeOK, Locals, PosterLocals, WorkerLocals, Threads,
     WorkerLabels, PosterLabels

LEMMA PosterTyped ==
  ASSUME TypeOK, Locals, NEW p \in Posters, Poster(p)
  PROVE  TypeOK' /\ Locals'
  <1> USE ConstantsAssumption DEF TypeOK, Locals, PosterLocals, WorkerLocals, Threads, Goto,
          WorkerLabels, PosterLabels, serverVars, readyVars, missionVars, objVars,
          posterVars, workerVars
  <1>1. CASE PopTask(p)
    <2>1. PICK o \in Objs, t \in Types :
            /\ ref' = [ref EXCEPT ![o] = 1]
            /\ data' = [data EXCEPT ![o] = [type |-> t, num |-> posts + 1]]
            /\ hint' = [hint EXCEPT ![p] = [obj |-> o, num |-> posts + 1]]
            /\ rest' = [rest EXCEPT ![p] = Subscribers[t]]
      BY <1>1 DEF PopTask, FreeObjs
    <2>2. /\ [type |-> t, num |-> posts + 1] \in [type : Types, num : Nat]
          /\ [obj |-> o, num |-> posts + 1] \in Entries
          /\ Subscribers[t] \in Seq(Missions)
      BY DEF Entries
    <2>3. TypeOK'
      BY <1>1, <2>1, <2>2 DEF PopTask
    <2>4. Locals'
      BY <1>1, <2>1, <2>2 DEF PopTask
    <2> QED
      BY <2>3, <2>4
  <1>2. CASE NoSubscriber(p)
    BY <1>2 DEF NoSubscriber, ReleaseObj, Entries
  <1>3. CASE WalkLock(p)
    BY <1>3 DEF WalkLock
  <1>4. CASE CloneTask(p)
    <2> HIDE DEF TypeOK, Locals, PosterLocals, WorkerLocals, Goto
    <2>1. /\ pc[p] = "clone" /\ pc' = [pc EXCEPT ![p] = "enq"]
          /\ data[hint[p].obj] # None
          /\ mis' = [mis EXCEPT ![p] = Head(rest[p])]
          /\ UNCHANGED <<serverVars, readyVars, missionVars, posts, posterVars, workerVars>>
      BY <1>4 DEF CloneTask, Goto
    <2>2. \/ UNCHANGED <<ref, data>> /\ tsk' = [tsk EXCEPT ![p] = hint[p]]
          \/ /\ ref' = [ref EXCEPT ![hint[p].obj] = @ + 1] /\ UNCHANGED data
             /\ tsk' = [tsk EXCEPT ![p] = hint[p]]
          \/ \E o \in FreeObjs :
               /\ ref' = [ref EXCEPT ![o] = 1]
               /\ data' = [data EXCEPT ![o] = data[hint[p].obj]]
               /\ tsk' = [tsk EXCEPT ![p] = [obj |-> o, num |-> hint[p].num]]
      BY <1>4, Zenon DEF CloneTask
    <2>3. /\ hint[p] \in Entries /\ rest[p] \in Seq(Missions) /\ rest[p] # <<>>
          /\ ref \in [Objs -> Int]
          /\ data \in [Objs -> [type : Types, num : Nat] \cup {None}]
      BY <2>1 DEF TypeOK, Locals, PosterLocals
    <2>4. /\ hint[p].obj \in Objs /\ hint[p].num \in Nat
          /\ \A o \in Objs : [obj |-> o, num |-> hint[p].num] \in Entries
      BY <2>3 DEF Entries
    <2>5. data[hint[p].obj] \in [type : Types, num : Nat]
      BY <2>1, <2>3, <2>4
    <2>6. Head(rest[p]) \in Missions
      BY <2>3
    <2>7. ref' \in [Objs -> Int]
      BY <2>2, <2>3, <2>4 DEF FreeObjs
    <2>8. data' \in [Objs -> [type : Types, num : Nat] \cup {None}]
      BY <2>2, <2>3, <2>4, <2>5 DEF FreeObjs
    <2>9. \E e \in Entries : tsk' = [tsk EXCEPT ![p] = e]
      BY <2>2, <2>3, <2>4 DEF FreeObjs
    <2>10. TypeOK'
      BY <2>1, <2>6, <2>7, <2>8, <2>9 DEF TypeOK
    <2>11. Locals'
      BY <2>1, <2>6, <2>9 DEF TypeOK, Locals, PosterLocals, WorkerLocals
    <2> QED
      BY <2>10, <2>11
  <1>5. CASE Enqueue(p)
    BY <1>5 DEF Enqueue
  <1>6. CASE StatLock(p)
    BY <1>6 DEF StatLock
  <1>7. CASE WakeIdle(p)
    BY <1>7 DEF WakeIdle
  <1>8. CASE WakeReady(p)
    BY <1>8 DEF WakeReady
  <1>9. CASE SemPost(p)
    BY <1>9 DEF SemPost
  <1>10. CASE StatUnlock(p)
    <2> HIDE DEF TypeOK, Locals, PosterLocals, WorkerLocals, Goto
    <2>1. /\ rest[p] \in Seq(Missions) /\ rest[p] # <<>>
          /\ hint[p] \in Entries
      BY <1>10 DEF StatUnlock, TypeOK, Locals, PosterLocals, Goto
    <2>2. /\ pc[p] = "unlock"
          /\ spin_stat' = [spin_stat EXCEPT ![mis[p]] = None]
          /\ rest' = [rest EXCEPT ![p] = Tail(@)]
          /\ mis' = [mis EXCEPT ![p] = None]
          /\ UNCHANGED <<serverVars, readyVars, tasks, status, objVars, workerVars, tsk>>
      BY <1>10 DEF StatUnlock, Goto
    <2>3. \/ /\ Len(rest[p]) = 1 /\ subs_spin' = None
             /\ pc' = [pc EXCEPT ![p] = "idle"] /\ hint' = [hint EXCEPT ![p] = None]
          \/ /\ Len(rest[p]) # 1 /\ subs_spin' = subs_spin
             /\ pc' = [pc EXCEPT ![p] = "clone"] /\ hint' = hint
      BY <1>10 DEF StatUnlock, Goto
    <2>4. /\ Tail(rest[p]) \in Seq(Missions)
          /\ Len(rest[p]) # 1 => Tail(rest[p]) # <<>>
      BY <2>1, TailTyped
    <2>5. /\ rest' \in [Posters -> Seq(Missions)]
          /\ subs_spin' \in Posters \cup {None}
          /\ hint' \in [Posters -> Entries \cup {None}]
      <3>1. rest' \in [Posters -> Seq(Missions)]
        <4>1. rest \in [Posters -> Seq(Missions)]
          BY DEF TypeOK
        <4> QED
          BY <2>1, <2>2, <4>1, RestTyped, Zenon
      <3>2. subs_spin' \in Posters \cup {None}
        BY <2>3 DEF TypeOK
      <3>3. hint' \in [Posters -> Entries \cup {None}]
        <4>1. hint \in [Posters -> Entries \cup {None}]
          BY DEF TypeOK
        <4> QED
          BY <2>3, <4>1
      <3> QED
        BY <3>1, <3>2, <3>3
    <2>6. TypeOK'
      <3>1. /\ pc' \in [Threads -> WorkerLabels \cup PosterLabels]
            /\ \A w \in Workers : pc'[w] \in WorkerLabels
            /\ \A q \in Posters : pc'[q] \in PosterLabels
        <4>1. PICK to \in {"idle", "clone"} : pc' = [pc EXCEPT ![p] = to]
          BY <2>3
        <4>2. to \in PosterLabels /\ p \notin Workers
          BY ConstantsAssumption DEF PosterLabels, Threads
        <4> QED
          BY <4>1, <4>2 DEF TypeOK
      <3>2. /\ mis' \in [Threads -> Missions \cup {None}]
            /\ spin_stat' \in [Missions -> Threads \cup {None}]
        BY <2>2 DEF TypeOK
      <3> QED
        BY <2>2, <2>5, <3>1, <3>2 DEF TypeOK
    <2>7. \A w \in Workers : WorkerLocals(w)'
      <3>1. \A w \in Workers : /\ pc'[w] = pc[w] /\ mis'[w] = mis[w]
                               /\ tsk'[w] = tsk[w] /\ cnt'[w] = cnt[w]
        BY <2>2, <2>3 DEF TypeOK, workerVars
      <3> QED
        BY <3>1 DEF Locals, WorkerLocals
    <2>8. \A q \in Posters \ {p} : PosterLocals(q)'
      <3>1. \A q \in Posters \ {p} :
              /\ pc'[q] = pc[q] /\ mis'[q] = mis[q] /\ tsk'[q] = tsk[q]
              /\ rest'[q] = rest[q] /\ hint'[q] = hint[q]
        BY <2>2, <2>3 DEF TypeOK
      <3> QED
        BY <3>1 DEF Locals, PosterLocals
    <2>9. PosterLocals(p)'
      <3>1. /\ rest'[p] = Tail(rest[p]) /\ mis'[p] = None /\ tsk'[p] = tsk[p]
            /\ pc'[p] \in {"idle", "clone"}
            /\ pc'[p] = "clone" => Len(rest[p]) # 1 /\ hint'[p] = hint[p]
        BY <2>2, <2>3 DEF TypeOK
      <3> QED
        BY <2>1, <2>2, <2>4, <3>1 DEF Locals, PosterLocals
    <2> QED
      BY <2>6, <2>7, <2>8, <2>9 DEF Locals
  <1> QED
    BY <1>1, <1>2, <1>3, <1>4, <1>5, <1>6, <1>7, <1>8, <1>9, <1>10 DEF Poster

LEMMA WorkerTyped ==
  ASSUME TypeOK, Locals, NEW w \in Workers, Worker(w)
  PROVE  TypeOK' /\ Locals'
  <1> USE ConstantsAssumption DEF TypeOK, Locals, PosterLocals, WorkerLocals, Threads, Goto,
          WorkerLabels, PosterLabels, serverVars, readyVars, missionVars, objVars,
          posterVars, workerVars
  <1>1. CASE LoopTest(w)
    BY <1>1 DEF LoopTest
  <1>2. CASE SemWait(w)
    BY <1>2 DEF SemWait
  <1>3. CASE SemTimeout(w)
    BY <1>3 DEF SemTimeout
  <1>4. CASE PopReady(w)
    BY <1>4 DEF PopReady, PopFront
  <1>5. CASE FrontTask(w)
    BY <1>5 DEF FrontTask
  <1>6. CASE FrontStop(w)
    BY <1>6 DEF FrontStop
  <1>7. CASE ConcurrentPop(w)
    <2> HIDE DEF TypeOK, Locals, PosterLocals, WorkerLocals, Goto
    <2>1. tasks \in [Missions -> Seq(Entries)] /\ mis[w] \in Missions
      BY <1>7 DEF ConcurrentPop, TypeOK, Locals, WorkerLocals, Goto
    <2>2. /\ pc[w] = "cpop" /\ pc' = [pc EXCEPT ![w] = "swlock"]
          /\ tasks' = [tasks EXCEPT ![mis[w]] = PopFront(@)]
          /\ UNCHANGED <<serverVars, readyVars, status, spin_stat, objVars, posterVars,
                         workerVars, mis, tsk>>
      BY <1>7 DEF ConcurrentPop, Goto
    <2>3. tasks' \in [Missions -> Seq(Entries)]
      BY <2>1, <2>2, PopFrontTyped
    <2>4. TypeOK'
      BY <2>2, <2>3 DEF TypeOK
    <2>5. Locals'
      BY <2>2 DEF TypeOK, Locals, PosterLocals, WorkerLocals
    <2> QED
      BY <2>4, <2>5
  <1>8. CASE Operate(w)
    BY <1>8 DEF Operate
  <1>9. CASE Release(w)
    BY <1>9 DEF Release, ReleaseObj, Entries
  <1>10. CASE SerialPop(w)
    <2> HIDE DEF TypeOK, Locals, PosterLocals, WorkerLocals, Goto
    <2>1. /\ tasks \in [Missions -> Seq(Entries)] /\ mis[w] \in Missions
          /\ cnt[w] \in 0..BatchMax /\ cnt[w] < BatchMax
      BY <1>10 DEF SerialPop, TypeOK, Locals, WorkerLocals, Goto
    <2>2. /\ pc[w] = "spop" /\ pc' = [pc EXCEPT ![w] = "front"]
          /\ tasks' = [tasks EXCEPT ![mis[w]] = PopFront(@)]
          /\ cnt' = [cnt EXCEPT ![w] = @ + 1]
          /\ tsk' = [tsk EXCEPT ![w] = None]
          /\ UNCHANGED <<serverVars, readyVars, status, spin_stat, objVars, posterVars,
                         more, mis>>
      BY <1>10 DEF SerialPop, Goto
    <2>3. tasks' \in [Missions -> Seq(Entries)]
      BY <2>1, <2>2, PopFrontTyped
    <2>4. cnt[w] + 1 \in 0..BatchMax
      BY <2>1
    <2>5. TypeOK'
      BY <2>2, <2>3, <2>4 DEF TypeOK
    <2>6. Locals'
      BY <2>2, <2>4 DEF TypeOK, Locals, PosterLocals, WorkerLocals
    <2> QED
      BY <2>5, <2>6
  <1>11. CASE SwitchLock(w)
    BY <1>11 DEF SwitchLock
  <1>12. CASE SwitchTest(w)
    BY <1>12 DEF SwitchTest
  <1>13. CASE SwitchReady(w)
    <2> HIDE DEF TypeOK, Locals, PosterLocals, WorkerLocals, Goto
    <2>1. mis_ready \in Seq(Missions) /\ mis[w] \in Missions
      BY <1>13 DEF SwitchReady, TypeOK, Locals, WorkerLocals, Goto
    <2>2. /\ pc[w] = "swset" /\ pc' = [pc EXCEPT ![w] = "swsem"]
          /\ status' = [status EXCEPT ![mis[w]] = "READY"]
          /\ mis_ready' = Append(mis_ready, mis[w])
          /\ UNCHANGED <<serverVars, sem_ready, tasks, spin_stat, objVars, posterVars,
                         workerVars, mis, tsk>>
      BY <1>13 DEF SwitchReady, Goto
    <2>3. mis_ready' \in Seq(Missions)
      BY <2>1, <2>2, AppendProperties
    <2>4. TypeOK'
      BY <2>2, <2>3 DEF TypeOK
    <2>5. Locals'
      BY <2>2 DEF TypeOK, Locals, PosterLocals, WorkerLocals
    <2> QED
      BY <2>4, <2>5
  <1>14. CASE SwitchIdle(w)
    BY <1>14 DEF SwitchIdle
  <1>15. CASE SwitchSem(w)
    BY <1>15 DEF SwitchSem
  <1>16. CASE SwitchUnlock(w)
    <2> HIDE DEF TypeOK, Locals, PosterLocals, WorkerLocals, Goto
    <2>1. /\ pc[w] = "swunlock"
          /\ spin_stat' = [spin_stat EXCEPT ![mis[w]] = None]
          /\ UNCHANGED <<serverVars, readyVars, tasks, status, objVars, posterVars,
                         workerVars, tsk>>
      BY <1>16 DEF SwitchUnlock, Goto
    <2>2. \/ /\ tsk[w] = None /\ pc' = [pc EXCEPT ![w] = "loop"]
             /\ mis' = [mis EXCEPT ![w] = None]
          \/ tsk[w] # None /\ pc' = [pc EXCEPT ![w] = "oper"] /\ mis' = mis
      BY <1>16 DEF SwitchUnlock, Goto
    <2>3. TypeOK'
      <3>1. PICK to \in WorkerLabels : pc' = [pc EXCEPT ![w] = to]
        BY <2>2
      <3>2. PICK m \in Missions \cup {None} : mis' = [mis EXCEPT ![w] = m]
        BY <2>2 DEF TypeOK
      <3>3. /\ pc' \in [Threads -> WorkerLabels \cup PosterLabels]
            /\ \A v \in Workers : pc'[v] \in WorkerLabels
            /\ \A p \in Posters : pc'[p] \in PosterLabels
        BY <3>1 DEF TypeOK
      <3>4. /\ mis' \in [Threads -> Missions \cup {None}]
            /\ spin_stat' \in [Missions -> Threads \cup {None}]
        BY <2>1, <3>2 DEF TypeOK
      <3> QED
        BY <2>1, <3>3, <3>4 DEF TypeOK
    <2>4. \A p \in Posters : PosterLocals(p)'
      <3>1. \A t \in Threads : t # w => pc'[t] = pc[t] /\ mis'[t] = mis[t]
        BY <2>2 DEF TypeOK
      <3>2. \A p \in Posters : p \in Threads /\ p # w
        BY ConstantsAssumption
      <3> QED
        BY <2>1, <3>1, <3>2 DEF Locals, PosterLocals
    <2>5. \A v \in Workers : WorkerLocals(v)'
      <3>1. \A v \in Workers \ {w} : pc'[v] = pc[v] /\ mis'[v] = mis[v]
        BY <2>1, <2>2 DEF TypeOK
      <3>2. pc'[w] = (IF tsk[w] = None THEN "loop" ELSE "oper") /\ (tsk[w] # None => mis' = mis)
        BY <2>2 DEF TypeOK
      <3>3. \A v \in Workers \ {w} : WorkerLocals(v)'
        BY <2>1, <3>1 DEF Locals, WorkerLocals
      <3>4. WorkerLocals(w)'
        BY <2>1, <3>2 DEF TypeOK, Locals, WorkerLocals
      <3> QED
        BY <3>3, <3>4
    <2> QED
      BY <2>3, <2>4, <2>5 DEF Locals
  <1> QED
    BY <1>1, <1>2, <1>3, <1>4, <1>5, <1>6, <1>7, <1>8, <1>9, <1>10, <1>11, <1>12, <1>13,
       <1>14, <1>15, <1>16 DEF Worker

LEMMA OwnerTyped ==
  ASSUME TypeOK, Locals, Owner
  PROVE  TypeOK' /\ Locals'
  <1> USE ConstantsAssumption DEF TypeOK, Locals, PosterLocals, WorkerLocals, Threads, Goto,
          WorkerLabels, PosterLabels, serverVars, readyVars, missionVars, objVars,
          posterVars, workerVars
  <1>1. CASE RunReturns
    BY <1>1 DEF RunReturns
  <1>2. CASE StopCalled
    BY <1>2 DEF StopCalled
  <1>3. CASE StopReturns
    BY <1>3 DEF StopReturns
  <1>4. ASSUME NEW w \in Workers, CreateWorker(w)
        PROVE  TypeOK' /\ Locals'
    BY <1>4 DEF CreateWorker
  <1> QED
    BY <1>1, <1>2, <1>3, <1>4 DEF Owner

LEMMA UnchangedTyped ==
  ASSUME TypeOK, Locals, UNCHANGED vars
  PROVE  TypeOK' /\ Locals'
  BY DEF TypeOK, Locals, PosterLocals, WorkerLocals, vars, serverVars, readyVars,
     missionVars, objVars, posterVars, workerVars

(***************************************************************************)
(* Every variable of the server keeps its type, and a thread never uses a  *)
(* local variable it has not set (task.c:99-153, 278-316).                 *)
(***************************************************************************)
THEOREM Typing == Spec => [](TypeOK /\ Locals)
  <1>1. Init => TypeOK /\ Locals
    BY InitTyped
  <1>2. TypeOK /\ Locals /\ [Next]_vars => (TypeOK /\ Locals)'
    BY PosterTyped, WorkerTyped, OwnerTyped, UnchangedTyped DEF Next, Finished
  <1>3. QED
    BY <1>1, <1>2, PTL DEF Spec

(***************************************************************************)
(* A mission is scheduled at most once.  ScheduledOnce is not inductive:   *)
(* a poster queues a mission it reads IDLE, so an IDLE mission must be in  *)
(* nobody's hands.  StatusInv says what the status stands for.             *)
(***************************************************************************)
StatusInv ==
  /\ \A w \in Workers : Owns(w) => status[mis[w]] = "READY"
  /\ \A i \in DOMAIN mis_ready : status[mis_ready[i]] = "READY"
  /\ \A m \in Missions : status[m] = "READY" => Scheduled(m)

\* A step that neither schedules a mission nor gives one back.
Quiet ==
  /\ UNCHANGED <<mis_ready, status>>
  /\ \A w \in Workers : Owns(w)' <=> Owns(w)
  /\ \A w \in Workers : Owns(w) => mis'[w] = mis[w]

LEMMA QuietKeeps ==
  ASSUME ScheduledOnce, StatusInv, Quiet
  PROVE  ScheduledOnce' /\ StatusInv'
  BY DEF ScheduledOnce, StatusInv, Quiet, Scheduled

LEMMA PosterQuiet ==
  ASSUME TypeOK, NEW p \in Posters, Poster(p), ~WakeIdle(p)
  PROVE  Quiet
  <1> USE ConstantsAssumption DEF Quiet, Owns, Goto, readyVars, missionVars
  <1>1. pc \in [Threads -> WorkerLabels \cup PosterLabels]
        /\ mis \in [Threads -> Missions \cup {None}]
        /\ \A w \in Workers : w # p /\ w \in Threads
    BY DEF TypeOK, Threads
  <1>2. UNCHANGED <<mis_ready, status>>
    BY DEF Poster, PopTask, NoSubscriber, WalkLock, CloneTask, Enqueue, StatLock, WakeReady,
       SemPost, StatUnlock
  <1>3. /\ \E l \in WorkerLabels \cup PosterLabels : pc' = [pc EXCEPT ![p] = l]
        /\ \E m : mis' = [mis EXCEPT ![p] = m]
    <2>1. mis = [mis EXCEPT ![p] = mis[p]]
      BY <1>1
    <2> QED
      BY <2>1 DEF Poster, PopTask, NoSubscriber, WalkLock, CloneTask, Enqueue, StatLock, WakeReady,
         SemPost, StatUnlock, PosterLabels
  <1> QED
    BY <1>1, <1>2, <1>3

LEMMA WorkerQuiet ==
  ASSUME TypeOK, Locals, NEW w \in Workers,
         Worker(w), ~PopReady(w), ~SwitchReady(w), ~SwitchIdle(w)
  PROVE  Quiet
  <1>1. /\ pc \in [Threads -> WorkerLabels \cup PosterLabels]
        /\ mis \in [Threads -> Missions \cup {None}]
        /\ Workers \subseteq Threads
        /\ WorkerLocals(w)
    BY DEF TypeOK, Threads, Locals
  <1> USE <1>1 DEF Quiet, Owns, Goto, readyVars, missionVars
  <1>2. CASE LoopTest(w)
    BY <1>2 DEF LoopTest
  <1>3. CASE SemWait(w)
    BY <1>3 DEF SemWait
  <1>4. CASE SemTimeout(w)
    BY <1>4 DEF SemTimeout
  <1>5. CASE FrontTask(w)
    BY <1>5 DEF FrontTask
  <1>6. CASE FrontStop(w)
    BY <1>6 DEF FrontStop
  <1>7. CASE ConcurrentPop(w)
    BY <1>7 DEF ConcurrentPop
  <1>8. CASE Operate(w)
    BY <1>8 DEF Operate
  <1>9. CASE Release(w)
    BY <1>9 DEF Release
  <1>10. CASE SerialPop(w)
    BY <1>10 DEF SerialPop
  <1>11. CASE SwitchLock(w)
    BY <1>11 DEF SwitchLock
  <1>12. CASE SwitchTest(w)
    BY <1>12 DEF SwitchTest
  <1>13. CASE SwitchSem(w)
    BY <1>13 DEF SwitchSem
  <1>14. CASE SwitchUnlock(w)
    BY <1>14 DEF SwitchUnlock, WorkerLocals
  <1> QED
    BY <1>2, <1>3, <1>4, <1>5, <1>6, <1>7, <1>8, <1>9, <1>10, <1>11, <1>12, <1>13, <1>14
       DEF Worker

LEMMA OwnerQuiet ==
  ASSUME TypeOK, Owner \/ UNCHANGED vars
  PROVE  Quiet
  <1>1. /\ pc \in [Threads -> WorkerLabels \cup PosterLabels]
        /\ Workers \subseteq Threads
    BY DEF TypeOK, Threads
  <1> QED
    BY <1>1 DEF Owner, RunReturns, StopCalled, StopReturns, CreateWorker, Quiet, Owns, Goto,
       vars, readyVars, missionVars

\* A poster queues an idle mission: nobody owns it and it is not queued (StatusInv).
LEMMA WakeIdleSchedules ==
  ASSUME TypeOK, Locals, ScheduledOnce, StatusInv, NEW p \in Posters, WakeIdle(p)
  PROVE  ScheduledOnce' /\ StatusInv'
  <1> DEFINE m == mis[p]
  <1>1. /\ m \in Missions /\ status[m] = "IDLE"
        /\ status' = [status EXCEPT ![m] = "READY"]
        /\ mis_ready \in Seq(Missions) /\ mis_ready' = Append(mis_ready, m)
        /\ status \in [Missions -> {"IDLE", "READY"}]
        /\ mis' = mis
    BY DEF WakeIdle, Goto, TypeOK, Locals, PosterLocals
  <1>2. \A w \in Workers : (Owns(w)' <=> Owns(w)) /\ (Owns(w) => mis[w] \in Missions)
    BY ConstantsAssumption DEF WakeIdle, Goto, Owns, TypeOK, Locals, WorkerLocals, Threads
  <1>3. /\ \A w \in Workers : Owns(w) => mis[w] # m
        /\ \A i \in DOMAIN mis_ready : mis_ready[i] # m /\ mis_ready[i] \in Missions
    BY <1>1, ElementOfSeq, LenProperties DEF StatusInv
  <1>4. /\ DOMAIN mis_ready = 1..Len(mis_ready) /\ Len(mis_ready) \in Nat
        /\ DOMAIN mis_ready' = 1..(Len(mis_ready) + 1)
        /\ \A i \in DOMAIN mis_ready : mis_ready'[i] = mis_ready[i]
        /\ mis_ready'[Len(mis_ready) + 1] = m
    BY <1>1, AppendProperties, LenProperties
  <1>5. \A i \in DOMAIN mis_ready' : i = Len(mis_ready) + 1 \/ i \in DOMAIN mis_ready
    BY <1>4
  <1> HIDE DEF m
  <1>6. ScheduledOnce'
    BY <1>1, <1>2, <1>3, <1>4, <1>5 DEF ScheduledOnce
  <1>7. StatusInv'
    BY <1>1, <1>2, <1>3, <1>4, <1>5 DEF StatusInv, Scheduled
  <1> QED
    BY <1>6, <1>7

\* A worker with tasks left queues the mission it owned, and owns it no longer.
LEMMA SwitchReadySchedules ==
  ASSUME TypeOK, Locals, ScheduledOnce, StatusInv, NEW w \in Workers, SwitchReady(w)
  PROVE  ScheduledOnce' /\ StatusInv'
  <1> DEFINE m == mis[w]
  <1>1. /\ m \in Missions /\ Owns(w)
        /\ status' = [status EXCEPT ![m] = "READY"]
        /\ mis_ready \in Seq(Missions) /\ mis_ready' = Append(mis_ready, m)
        /\ status \in [Missions -> {"IDLE", "READY"}]
        /\ mis' = mis
    BY DEF SwitchReady, Goto, TypeOK, Locals, WorkerLocals, Owns
  <1>2. /\ ~Owns(w)'
        /\ \A v \in Workers : v # w => (Owns(v)' <=> Owns(v))
        /\ \A v \in Workers : Owns(v) => mis[v] \in Missions
    BY DEF SwitchReady, Goto, Owns, TypeOK, Locals, WorkerLocals, Threads
  <1>3. /\ \A v \in Workers : v # w /\ Owns(v) => mis[v] # m
        /\ \A i \in DOMAIN mis_ready : mis_ready[i] # m /\ mis_ready[i] \in Missions
    BY <1>1, ElementOfSeq, LenProperties DEF ScheduledOnce
  <1>4. /\ DOMAIN mis_ready = 1..Len(mis_ready) /\ Len(mis_ready) \in Nat
        /\ DOMAIN mis_ready' = 1..(Len(mis_ready) + 1)
        /\ \A i \in DOMAIN mis_ready : mis_ready'[i] = mis_ready[i]
        /\ mis_ready'[Len(mis_ready) + 1] = m
    BY <1>1, AppendProperties, LenProperties
  <1>5. \A i \in DOMAIN mis_ready' : i = Len(mis_ready) + 1 \/ i \in DOMAIN mis_ready
    BY <1>4
  <1> HIDE DEF m
  <1>6. ScheduledOnce'
    BY <1>1, <1>2, <1>3, <1>4, <1>5 DEF ScheduledOnce
  <1>7. StatusInv'
    <2>1. \A n \in Missions : n # m /\ Scheduled(n) => Scheduled(n)'
      BY <1>1, <1>2, <1>4 DEF Scheduled, m
    <2>2. \A n \in Missions : n = m => Scheduled(n)'
      <3>1. Len(mis_ready) + 1 \in DOMAIN mis_ready'
        BY <1>4
      <3> QED
        BY <1>4, <3>1 DEF Scheduled
    <2>3. \A v \in Workers : Owns(v)' => status'[mis'[v]] = "READY"
      BY <1>1, <1>2, <1>3 DEF StatusInv
    <2>4. \A i \in DOMAIN mis_ready' : status'[mis_ready'[i]] = "READY"
      BY <1>1, <1>3, <1>4, <1>5 DEF StatusInv
    <2>5. \A n \in Missions : status'[n] = "READY" => Scheduled(n)'
      BY <1>1, <2>1, <2>2 DEF StatusInv
    <2> QED
      BY <2>3, <2>4, <2>5 DEF StatusInv
  <1> QED
    BY <1>6, <1>7

\* A worker without tasks left sets the mission it owned idle.
LEMMA SwitchIdleSchedules ==
  ASSUME TypeOK, Locals, ScheduledOnce, StatusInv, NEW w \in Workers, SwitchIdle(w)
  PROVE  ScheduledOnce' /\ StatusInv'
  <1> DEFINE m == mis[w]
  <1>1. /\ m \in Missions /\ Owns(w)
        /\ status' = [status EXCEPT ![m] = "IDLE"]
        /\ mis_ready \in Seq(Missions) /\ mis_ready' = mis_ready
        /\ status \in [Missions -> {"IDLE", "READY"}]
        /\ mis' = mis
    BY DEF SwitchIdle, Goto, TypeOK, Locals, WorkerLocals, Owns, readyVars
  <1>2. /\ ~Owns(w)'
        /\ \A v \in Workers : v # w => (Owns(v)' <=> Owns(v))
        /\ \A v \in Workers : Owns(v) => mis[v] \in Missions
    BY DEF SwitchIdle, Goto, Owns, TypeOK, Locals, WorkerLocals, Threads
  <1>3. /\ \A v \in Workers : v # w /\ Owns(v) => mis[v] # m
        /\ \A i \in DOMAIN mis_ready : mis_ready[i] # m /\ mis_ready[i] \in Missions
    BY <1>1, ElementOfSeq, LenProperties DEF ScheduledOnce
  <1> HIDE DEF m
  <1>4. ScheduledOnce'
    BY <1>1, <1>2, <1>3 DEF ScheduledOnce
  <1>5. StatusInv'
    <2>1. \A n \in Missions : n # m /\ Scheduled(n) => Scheduled(n)'
      BY <1>1, <1>2 DEF Scheduled, m
    <2> QED
      BY <1>1, <1>2, <1>3, <2>1 DEF StatusInv
  <1> QED
    BY <1>4, <1>5

\* A worker takes the first queued mission and owns it.
LEMMA PopReadySchedules ==
  ASSUME TypeOK, Locals, ScheduledOnce, StatusInv, NEW w \in Workers, PopReady(w)
  PROVE  ScheduledOnce' /\ StatusInv'
  <1>1. /\ mis_ready \in Seq(Missions) /\ status' = status /\ pc[w] = "pop"
        /\ pc \in [Threads -> WorkerLabels \cup PosterLabels] /\ w \in Threads
        /\ mis \in [Threads -> Missions \cup {None}]
    BY DEF PopReady, Goto, TypeOK, missionVars, Threads
  <1>2. CASE mis_ready = <<>>
    <2>1. Quiet
      BY <1>1, <1>2 DEF PopReady, Goto, Quiet, Owns, PopFront, Threads
    <2> QED
      BY <2>1, QuietKeeps
  <1>3. CASE mis_ready # <<>>
    <2>1. /\ pc' = [pc EXCEPT ![w] = "front"]
          /\ mis' = [mis EXCEPT ![w] = Head(mis_ready)]
          /\ mis_ready' = Tail(mis_ready)
      BY <1>3 DEF PopReady, Goto, PopFront
    <2>2. /\ Owns(w)' /\ ~Owns(w) /\ mis'[w] = mis_ready[1]
          /\ \A v \in Workers : v # w => (Owns(v)' <=> Owns(v)) /\ mis'[v] = mis[v]
      BY <1>1, <2>1 DEF Owns, Threads
    <2>3. /\ DOMAIN mis_ready = 1..Len(mis_ready) /\ Len(mis_ready) \in Nat \ {0}
          /\ DOMAIN mis_ready' = 1..(Len(mis_ready) - 1)
          /\ \A i \in DOMAIN mis_ready' : mis_ready'[i] = mis_ready[i + 1]
      BY <1>1, <1>3, <2>1, HeadTailProperties, LenProperties, EmptySeq
    <2>4. /\ 1 \in DOMAIN mis_ready
          /\ \A i \in DOMAIN mis_ready' : i + 1 \in DOMAIN mis_ready /\ i + 1 # 1
          /\ \A i \in DOMAIN mis_ready : i # 1 => i - 1 \in DOMAIN mis_ready'
          /\ \A i \in DOMAIN mis_ready : i # 1 => mis_ready'[i - 1] = mis_ready[i]
          /\ \A i, j \in DOMAIN mis_ready' : i + 1 = j + 1 => i = j
      BY <2>3
    <2>5. ScheduledOnce'
      <3>1. \A i \in DOMAIN mis_ready' : mis_ready'[i] # mis_ready[1]
        BY <2>3, <2>4 DEF ScheduledOnce
      <3>2. \A v \in Workers : Owns(v) => mis[v] # mis_ready[1]
        BY <2>4 DEF ScheduledOnce
      <3>3. \A v \in Workers, i \in DOMAIN mis_ready' : Owns(v) => mis_ready'[i] # mis[v]
        BY <2>3, <2>4 DEF ScheduledOnce
      <3>4. \A u, v \in Workers : Owns(u)' /\ Owns(v)' /\ mis'[u] = mis'[v] => u = v
        BY <2>2, <3>2 DEF ScheduledOnce
      <3>5. \A v \in Workers, i \in DOMAIN mis_ready' : Owns(v)' => mis_ready'[i] # mis'[v]
        BY <2>2, <3>1, <3>3
      <3>6. \A i, j \in DOMAIN mis_ready' : mis_ready'[i] = mis_ready'[j] => i = j
        <4> SUFFICES ASSUME NEW i \in DOMAIN mis_ready', NEW j \in DOMAIN mis_ready',
                            mis_ready'[i] = mis_ready'[j]
                     PROVE  i = j
          OBVIOUS
        <4>1. mis_ready[i + 1] = mis_ready[j + 1]
          BY <2>3
        <4>2. i + 1 = j + 1
          BY <2>4, <4>1 DEF ScheduledOnce
        <4> QED
          BY <2>4, <4>2
      <3> QED
        BY <3>4, <3>5, <3>6 DEF ScheduledOnce
    <2>6. \A n \in Missions : Scheduled(n) => Scheduled(n)'
      BY <2>2, <2>4 DEF Scheduled
    <2>7. StatusInv'
      <3>1. mis_ready[1] \in Missions /\ \A n \in Missions : status'[n] = status[n]
        BY <1>1, <2>4, ElementOfSeq, <2>3
      <3>2. \A v \in Workers : Owns(v)' => status'[mis'[v]] = "READY"
        BY <1>1, <2>2, <2>4 DEF StatusInv
      <3>3. \A i \in DOMAIN mis_ready' : status'[mis_ready'[i]] = "READY"
        BY <1>1, <2>3, <2>4 DEF StatusInv
      <3>4. \A n \in Missions : status'[n] = "READY" => Scheduled(n)'
        BY <3>1, <2>6 DEF StatusInv
      <3> QED
        BY <3>2, <3>3, <3>4 DEF StatusInv
    <2> QED
      BY <2>5, <2>7
  <1> QED
    BY <1>2, <1>3

\* Before any thread runs no mission is queued or owned.
LEMMA InitSchedules ==
  ASSUME Init
  PROVE  ScheduledOnce /\ StatusInv
  <1>1. \A w \in Workers : pc[w] = "new" /\ ~Owns(w)
    BY DEF Init, Owns, Threads
  <1>2. DOMAIN mis_ready = {}
    BY EmptySeq DEF Init
  <1>3. \A m \in Missions : status[m] # "READY"
    BY DEF Init
  <1> QED
    BY <1>1, <1>2, <1>3 DEF ScheduledOnce, StatusInv

LEMMA NextSchedules ==
  ASSUME TypeOK, Locals, ScheduledOnce, StatusInv, [Next]_vars
  PROVE  ScheduledOnce' /\ StatusInv'
  <1>1. ASSUME NEW p \in Posters, Poster(p)
        PROVE  ScheduledOnce' /\ StatusInv'
    BY <1>1, WakeIdleSchedules, PosterQuiet, QuietKeeps
  <1>2. ASSUME NEW w \in Workers, Worker(w)
        PROVE  ScheduledOnce' /\ StatusInv'
    BY <1>2, PopReadySchedules, SwitchReadySchedules, SwitchIdleSchedules, WorkerQuiet,
       QuietKeeps
  <1>3. ASSUME Owner \/ UNCHANGED vars
        PROVE  ScheduledOnce' /\ StatusInv'
    BY <1>3, OwnerQuiet, QuietKeeps
  <1> QED
    BY <1>1, <1>2, <1>3 DEF Next, Finished

(***************************************************************************)
(* A mission is scheduled at most once: the pop and front of m->tasks      *)
(* without a lock (task.c:123-143) have one caller at a time.              *)
(***************************************************************************)
THEOREM OneOwnerPerMission == Spec => []ScheduledOnce
  <1>1. Init => ScheduledOnce /\ StatusInv
    BY InitSchedules
  <1>2. TypeOK /\ Locals /\ ScheduledOnce /\ StatusInv /\ [Next]_vars
          => (ScheduledOnce /\ StatusInv)'
    BY NextSchedules
  <1>3. QED
    BY <1>1, <1>2, Typing, PTL DEF Spec

(***************************************************************************)
(* No wakeup is lost.  Two more facts are needed: the spin lock is held by *)
(* the thread that tests or sets the status, and while a worker is about   *)
(* to set a mission idle, a task can only be there if its poster has yet   *)
(* to take the spin lock.                                                  *)
(***************************************************************************)
LockedLabels == {"wake", "sem", "unlock", "swtest", "swset", "swsem", "swunlock"}

LockInv == \A t \in Threads : pc[t] \in LockedLabels => spin_stat[mis[t]] = t

WakeInv ==
  /\ \A m \in Missions :
       tasks[m] # <<>> /\ status[m] = "IDLE"
         => \E p \in Posters : pc[p] \in {"stat", "wake"} /\ mis[p] = m
  /\ \A w \in Workers :
       pc[w] = "swset" /\ ~more[w] /\ tasks[mis[w]] # <<>>
         => \E p \in Posters : pc[p] = "stat" /\ mis[p] = mis[w]

\* What a step of thread t does to the control points, missions and spin locks.
OthersKeep(t) == \A u \in Threads : u # t => pc'[u] = pc[u] /\ mis'[u] = mis[u]

KeepsLocks(t) ==
  /\ pc'[t] \in LockedLabels => pc[t] \in LockedLabels /\ mis'[t] = mis[t]
  /\ UNCHANGED spin_stat

TakesLock(t) ==
  /\ mis'[t] = mis[t] /\ mis[t] \in Missions
  /\ spin_stat[mis[t]] = None
  /\ spin_stat' = [spin_stat EXCEPT ![mis[t]] = t]

FreesLock(t) ==
  /\ pc[t] \in LockedLabels /\ pc'[t] \notin LockedLabels
  /\ spin_stat' = [spin_stat EXCEPT ![mis[t]] = None]

LockStep(t) == OthersKeep(t) /\ (KeepsLocks(t) \/ TakesLock(t) \/ FreesLock(t))

LEMMA LockKept ==
  ASSUME TypeOK, Locals, LockInv, NEW t \in Threads,
         LockStep(t)
  PROVE  LockInv'
  <1>1. /\ pc \in [Threads -> WorkerLabels \cup PosterLabels]
        /\ mis \in [Threads -> Missions \cup {None}]
        /\ spin_stat \in [Missions -> Threads \cup {None}]
        /\ None \notin Threads
    BY ConstantsAssumption DEF TypeOK
  <1>2. \A u \in Threads : pc[u] \in LockedLabels => mis[u] \in Missions
    BY <1>1 DEF Locals, PosterLocals, WorkerLocals, LockedLabels, Threads, TypeOK,
       WorkerLabels, PosterLabels
  <1>3. OthersKeep(t)
    BY DEF LockStep
  <1>4. CASE KeepsLocks(t)
    BY <1>3, <1>4 DEF OthersKeep, KeepsLocks, LockInv
  <1>5. CASE TakesLock(t)
    BY <1>1, <1>2, <1>3, <1>5 DEF OthersKeep, TakesLock, LockInv
  <1>6. CASE FreesLock(t)
    BY <1>1, <1>2, <1>3, <1>6 DEF OthersKeep, FreesLock, LockInv
  <1> QED
    BY <1>4, <1>5, <1>6 DEF LockStep

LEMMA PosterLocks ==
  ASSUME TypeOK, Locals, NEW p \in Posters, Poster(p)
  PROVE  LockStep(p)
  <1>1. /\ pc \in [Threads -> WorkerLabels \cup PosterLabels]
        /\ mis \in [Threads -> Missions \cup {None}]
        /\ p \in Threads /\ PosterLocals(p)
    BY DEF TypeOK, Threads, Locals
  <1> USE <1>1 DEF Goto, LockedLabels, LockStep, OthersKeep, KeepsLocks, TakesLock, FreesLock,
          missionVars
  <1>2. CASE StatLock(p)
    BY <1>2 DEF StatLock, PosterLocals
  <1>3. CASE StatUnlock(p)
    BY <1>3 DEF StatUnlock
  <1>4. CASE PopTask(p)
    BY <1>4 DEF PopTask
  <1>5. CASE NoSubscriber(p)
    BY <1>5 DEF NoSubscriber
  <1>6. CASE WalkLock(p)
    BY <1>6 DEF WalkLock
  <1>7. CASE CloneTask(p)
    BY <1>7 DEF CloneTask
  <1>8. CASE Enqueue(p)
    BY <1>8 DEF Enqueue
  <1>9. CASE WakeIdle(p)
    BY <1>9 DEF WakeIdle
  <1>10. CASE WakeReady(p)
    BY <1>10 DEF WakeReady
  <1>11. CASE SemPost(p)
    BY <1>11 DEF SemPost
  <1> QED
    BY <1>2, <1>3, <1>4, <1>5, <1>6, <1>7, <1>8, <1>9, <1>10, <1>11 DEF Poster

LEMMA WorkerLocks ==
  ASSUME TypeOK, Locals, NEW w \in Workers, Worker(w)
  PROVE  LockStep(w)
  <1>1. /\ pc \in [Threads -> WorkerLabels \cup PosterLabels]
        /\ mis \in [Threads -> Missions \cup {None}]
        /\ w \in Threads /\ WorkerLocals(w)
    BY DEF TypeOK, Threads, Locals
  <1> USE <1>1 DEF Goto, LockedLabels, LockStep, OthersKeep, KeepsLocks, TakesLock, FreesLock,
          missionVars
  <1>2. CASE SwitchLock(w)
    BY <1>2 DEF SwitchLock, WorkerLocals
  <1>3. CASE SwitchUnlock(w)
    BY <1>3 DEF SwitchUnlock
  <1>4. CASE LoopTest(w)
    BY <1>4 DEF LoopTest
  <1>5. CASE SemWait(w)
    BY <1>5 DEF SemWait
  <1>6. CASE SemTimeout(w)
    BY <1>6 DEF SemTimeout
  <1>7. CASE PopReady(w)
    BY <1>7 DEF PopReady
  <1>8. CASE FrontTask(w)
    BY <1>8 DEF FrontTask
  <1>9. CASE FrontStop(w)
    BY <1>9 DEF FrontStop
  <1>10. CASE ConcurrentPop(w)
    BY <1>10 DEF ConcurrentPop
  <1>11. CASE Operate(w)
    BY <1>11 DEF Operate
  <1>12. CASE Release(w)
    BY <1>12 DEF Release
  <1>13. CASE SerialPop(w)
    BY <1>13 DEF SerialPop
  <1>14. CASE SwitchTest(w)
    BY <1>14 DEF SwitchTest
  <1>15. CASE SwitchReady(w)
    BY <1>15 DEF SwitchReady
  <1>16. CASE SwitchIdle(w)
    BY <1>16 DEF SwitchIdle
  <1>17. CASE SwitchSem(w)
    BY <1>17 DEF SwitchSem
  <1> QED
    BY <1>2, <1>3, <1>4, <1>5, <1>6, <1>7, <1>8, <1>9, <1>10, <1>11, <1>12, <1>13, <1>14,
       <1>15, <1>16, <1>17 DEF Worker

LEMMA NextLocks ==
  ASSUME TypeOK, Locals, LockInv, [Next]_vars
  PROVE  LockInv'
  <1>1. ASSUME NEW p \in Posters, Poster(p)
        PROVE  LockInv'
    BY <1>1, PosterLocks, LockKept DEF Threads
  <1>2. ASSUME NEW w \in Workers, Worker(w)
        PROVE  LockInv'
    BY <1>2, WorkerLocks, LockKept DEF Threads
  <1>3. ASSUME UNCHANGED vars
        PROVE  LockInv'
    BY <1>3 DEF vars, missionVars, LockInv
  <1>4. ASSUME Owner
        PROVE  LockInv'
    <2>1. pc \in [Threads -> WorkerLabels \cup PosterLabels] /\ Workers \subseteq Threads
      BY DEF TypeOK, Threads
    <2>2. /\ UNCHANGED <<mis, spin_stat>>
          /\ \A t \in Threads : pc'[t] = pc[t] \/ pc'[t] = "loop"
      BY <1>4, <2>1 DEF Owner, RunReturns, StopCalled, StopReturns, CreateWorker, Goto,
         missionVars
    <2> QED
      BY <2>2 DEF LockInv, LockedLabels
  <1> QED
    BY <1>1, <1>2, <1>3, <1>4 DEF Next, Finished

\* A step that adds no task, sets no mission idle and disturbs no poster about to wake
\* one and no worker about to set one idle.
WakeFrame ==
  /\ \A m \in Missions : tasks'[m] # <<>> => tasks[m] # <<>>
  /\ \A m \in Missions : status'[m] = "IDLE" => status[m] = "IDLE"
  /\ \A p \in Posters : pc[p] = "stat" => pc'[p] = "stat" /\ mis'[p] = mis[p]
  /\ \A p \in Posters :
       pc[p] = "wake"
         => (pc'[p] = "wake" /\ mis'[p] = mis[p]) \/ status'[mis[p]] = "READY"
  /\ \A w \in Workers :
       pc'[w] = "swset" => pc[w] = "swset" /\ mis'[w] = mis[w] /\ more'[w] = more[w]

LEMMA FrameKeepsWake ==
  ASSUME TypeOK, Locals, WakeInv, WakeFrame
  PROVE  WakeInv'
  <1>1. \A w \in Workers : pc[w] = "swset" => mis[w] \in Missions
    BY DEF Locals, WorkerLocals
  <1>2. ASSUME NEW m \in Missions, tasks'[m] # <<>>, status'[m] = "IDLE"
        PROVE  \E p \in Posters : pc'[p] \in {"stat", "wake"} /\ mis'[p] = m
    <2>1. PICK p \in Posters : pc[p] \in {"stat", "wake"} /\ mis[p] = m
      BY <1>2 DEF WakeInv, WakeFrame
    <2>2. pc'[p] \in {"stat", "wake"} /\ mis'[p] = m
      BY <1>2, <2>1 DEF WakeFrame
    <2> QED
      BY <2>2
  <1>3. ASSUME NEW w \in Workers, pc'[w] = "swset", ~more'[w], tasks'[mis'[w]] # <<>>
        PROVE  \E p \in Posters : pc'[p] = "stat" /\ mis'[p] = mis'[w]
    <2>1. pc[w] = "swset" /\ mis'[w] = mis[w] /\ ~more[w] /\ tasks[mis[w]] # <<>>
      BY <1>1, <1>3 DEF WakeFrame
    <2>2. PICK p \in Posters : pc[p] = "stat" /\ mis[p] = mis[w]
      BY <2>1 DEF WakeInv
    <2> QED
      BY <2>1, <2>2 DEF WakeFrame
  <1> QED
    BY <1>2, <1>3 DEF WakeInv

LEMMA PosterWakes ==
  ASSUME TypeOK, Locals, LockInv, WakeInv, NEW p \in Posters, Poster(p)
  PROVE  WakeInv'
  <1>1. /\ pc \in [Threads -> WorkerLabels \cup PosterLabels]
        /\ mis \in [Threads -> Missions \cup {None}]
        /\ status \in [Missions -> {"IDLE", "READY"}]
        /\ tasks \in [Missions -> Seq(Entries)]
        /\ p \in Threads /\ p \notin Workers /\ PosterLocals(p)
        /\ Workers \subseteq Threads /\ Posters \subseteq Threads
    BY ConstantsAssumption DEF TypeOK, Threads, Locals
  <1> USE <1>1 DEF Goto
  <1>2. CASE Enqueue(p)
    <2>1. /\ mis[p] \in Missions /\ pc' = [pc EXCEPT ![p] = "stat"]
          /\ \A m \in Missions : m # mis[p] => tasks'[m] = tasks[m]
          /\ UNCHANGED <<status, mis, more>>
      BY <1>2 DEF Enqueue, PosterLocals, workerVars
    <2>2. pc'[p] = "stat" /\ pc[p] = "enq" /\ \A t \in Threads : t # p => pc'[t] = pc[t]
      BY <1>2, <2>1 DEF Enqueue
    <2>3. \A w \in Workers : pc[w] = "swset" => mis[w] \in Missions
      BY DEF Locals, WorkerLocals
    <2>4. ASSUME NEW m \in Missions, tasks'[m] # <<>>, status'[m] = "IDLE"
          PROVE  \E q \in Posters : pc'[q] \in {"stat", "wake"} /\ mis'[q] = m
      <3>1. CASE m = mis[p]
        BY <2>1, <2>2, <3>1
      <3>2. CASE m # mis[p]
        <4>1. PICK q \in Posters : pc[q] \in {"stat", "wake"} /\ mis[q] = m
          BY <2>1, <2>4, <3>2 DEF WakeInv
        <4> QED
          BY <2>1, <2>2, <4>1
      <3> QED
        BY <3>1, <3>2
    <2>5. ASSUME NEW w \in Workers, pc'[w] = "swset", ~more'[w], tasks'[mis'[w]] # <<>>
          PROVE  \E q \in Posters : pc'[q] = "stat" /\ mis'[q] = mis'[w]
      <3>1. CASE mis[w] = mis[p]
        BY <2>1, <2>2, <3>1
      <3>2. CASE mis[w] # mis[p]
        <4>1. pc[w] = "swset" /\ ~more[w] /\ tasks[mis[w]] # <<>>
          BY <2>1, <2>2, <2>3, <2>5, <3>2
        <4>2. PICK q \in Posters : pc[q] = "stat" /\ mis[q] = mis[w]
          BY <4>1 DEF WakeInv
        <4> QED
          BY <2>1, <2>2, <4>2
      <3> QED
        BY <3>1, <3>2
    <2> QED
      BY <2>4, <2>5 DEF WakeInv
  <1>3. CASE StatLock(p)
    <2>1. /\ pc[p] = "stat" /\ pc' = [pc EXCEPT ![p] = "wake"]
          /\ spin_stat[mis[p]] = None
          /\ UNCHANGED <<tasks, status, mis, more>>
      BY <1>3 DEF StatLock, workerVars
    <2>2. \A w \in Workers : pc[w] = "swset" => mis[w] # mis[p]
      BY <2>1, ConstantsAssumption DEF LockInv, LockedLabels
    <2>3. pc'[p] = "wake" /\ \A t \in Threads : t # p => pc'[t] = pc[t]
      BY <2>1
    <2>4. ASSUME NEW m \in Missions, tasks'[m] # <<>>, status'[m] = "IDLE"
          PROVE  \E q \in Posters : pc'[q] \in {"stat", "wake"} /\ mis'[q] = m
      <3>1. PICK q \in Posters : pc[q] \in {"stat", "wake"} /\ mis[q] = m
        BY <2>1, <2>4 DEF WakeInv
      <3> QED
        BY <2>1, <2>3, <3>1
    <2>5. ASSUME NEW w \in Workers, pc'[w] = "swset", ~more'[w], tasks'[mis'[w]] # <<>>
          PROVE  \E q \in Posters : pc'[q] = "stat" /\ mis'[q] = mis'[w]
      <3>1. pc[w] = "swset" /\ ~more[w] /\ tasks[mis[w]] # <<>>
        BY <2>1, <2>3, <2>5
      <3>2. PICK q \in Posters : pc[q] = "stat" /\ mis[q] = mis[w]
        BY <3>1 DEF WakeInv
      <3> QED
        BY <2>1, <2>2, <2>3, <3>1, <3>2
    <2> QED
      BY <2>4, <2>5 DEF WakeInv
  <1> USE DEF WakeFrame, missionVars, workerVars
  <1>4. CASE StatUnlock(p)
    BY <1>4, FrameKeepsWake DEF StatUnlock
  <1>5. CASE PopTask(p)
    BY <1>5, FrameKeepsWake DEF PopTask
  <1>6. CASE NoSubscriber(p)
    BY <1>6, FrameKeepsWake DEF NoSubscriber
  <1>7. CASE WalkLock(p)
    BY <1>7, FrameKeepsWake DEF WalkLock
  <1>8. CASE CloneTask(p)
    BY <1>8, FrameKeepsWake DEF CloneTask
  <1>9. CASE WakeIdle(p)
    BY <1>9, FrameKeepsWake DEF WakeIdle, PosterLocals
  <1>10. CASE WakeReady(p)
    BY <1>10, FrameKeepsWake DEF WakeReady
  <1>11. CASE SemPost(p)
    BY <1>11, FrameKeepsWake DEF SemPost
  <1> QED
    BY <1>2, <1>3, <1>4, <1>5, <1>6, <1>7, <1>8, <1>9, <1>10, <1>11 DEF Poster

LEMMA WorkerWakes ==
  ASSUME TypeOK, Locals, WakeInv, NEW w \in Workers, Worker(w)
  PROVE  WakeInv'
  <1>1. /\ pc \in [Threads -> WorkerLabels \cup PosterLabels]
        /\ mis \in [Threads -> Missions \cup {None}]
        /\ status \in [Missions -> {"IDLE", "READY"}]
        /\ tasks \in [Missions -> Seq(Entries)]
        /\ more \in [Workers -> BOOLEAN]
        /\ w \in Threads /\ w \notin Posters /\ WorkerLocals(w)
        /\ Workers \subseteq Threads /\ Posters \subseteq Threads
    BY ConstantsAssumption DEF TypeOK, Threads, Locals
  <1> USE <1>1 DEF Goto
  <1>2. CASE SwitchTest(w)
    <2>1. /\ pc' = [pc EXCEPT ![w] = "swset"]
          /\ more' = [more EXCEPT ![w] = tasks[mis[w]] # <<>>]
          /\ UNCHANGED <<tasks, status, mis>>
      BY <1>2 DEF SwitchTest, missionVars
    <2>2. \A p \in Posters : pc'[p] = pc[p]
      BY <2>1
    <2>3. \A v \in Workers : v # w => pc'[v] = pc[v] /\ more'[v] = more[v]
      BY <2>1
    <2>4. more'[w] = (tasks[mis[w]] # <<>>)
      BY <2>1
    <2>5. \A m \in Missions : tasks'[m] # <<>> /\ status'[m] = "IDLE"
            => \E p \in Posters : pc'[p] \in {"stat", "wake"} /\ mis'[p] = m
      BY <2>1, <2>2 DEF WakeInv
    <2>6. ASSUME NEW v \in Workers, pc'[v] = "swset", ~more'[v], tasks'[mis'[v]] # <<>>
          PROVE  \E p \in Posters : pc'[p] = "stat" /\ mis'[p] = mis'[v]
      <3>1. v # w
        BY <2>1, <2>4, <2>6
      <3> QED
        BY <2>1, <2>2, <2>3, <2>6, <3>1 DEF WakeInv
    <2> QED
      BY <2>5, <2>6 DEF WakeInv
  <1>3. CASE SwitchIdle(w)
    <2>1. /\ pc[w] = "swset" /\ ~more[w] /\ mis[w] \in Missions
          /\ pc' = [pc EXCEPT ![w] = "swunlock"]
          /\ status' = [status EXCEPT ![mis[w]] = "IDLE"]
          /\ UNCHANGED <<tasks, mis, more>>
      BY <1>3 DEF SwitchIdle, WorkerLocals, workerVars
    <2>2. /\ \A p \in Posters : pc'[p] = pc[p]
          /\ \A v \in Workers : pc'[v] = "swset" => pc[v] = "swset"
      BY <2>1
    <2>3. ASSUME NEW m \in Missions, tasks'[m] # <<>>, status'[m] = "IDLE"
          PROVE  \E p \in Posters : pc'[p] \in {"stat", "wake"} /\ mis'[p] = m
      <3>1. CASE m = mis[w]
        <4>1. PICK p \in Posters : pc[p] = "stat" /\ mis[p] = mis[w]
          BY <2>1, <2>3, <3>1 DEF WakeInv
        <4> QED
          BY <2>1, <2>2, <3>1, <4>1
      <3>2. CASE m # mis[w]
        BY <2>1, <2>2, <2>3, <3>2 DEF WakeInv
      <3> QED
        BY <3>1, <3>2
    <2>4. \A v \in Workers : pc'[v] = "swset" /\ ~more'[v] /\ tasks'[mis'[v]] # <<>>
            => \E p \in Posters : pc'[p] = "stat" /\ mis'[p] = mis'[v]
      BY <2>1, <2>2 DEF WakeInv
    <2> QED
      BY <2>3, <2>4 DEF WakeInv
  <1> USE DEF WakeFrame, missionVars, workerVars
  <1>4. CASE LoopTest(w)
    BY <1>4, FrameKeepsWake DEF LoopTest
  <1>5. CASE SemWait(w)
    BY <1>5, FrameKeepsWake DEF SemWait
  <1>6. CASE SemTimeout(w)
    BY <1>6, FrameKeepsWake DEF SemTimeout
  <1>7. CASE PopReady(w)
    BY <1>7, FrameKeepsWake DEF PopReady
  <1>8. CASE FrontTask(w)
    BY <1>8, FrameKeepsWake DEF FrontTask
  <1>9. CASE FrontStop(w)
    BY <1>9, FrameKeepsWake DEF FrontStop
  <1>10. CASE ConcurrentPop(w)
    BY <1>10, FrameKeepsWake DEF ConcurrentPop, PopFront
  <1>11. CASE Operate(w)
    BY <1>11, FrameKeepsWake DEF Operate
  <1>12. CASE Release(w)
    BY <1>12, FrameKeepsWake DEF Release
  <1>13. CASE SerialPop(w)
    BY <1>13, FrameKeepsWake DEF SerialPop, PopFront
  <1>14. CASE SwitchLock(w)
    BY <1>14, FrameKeepsWake DEF SwitchLock
  <1>15. CASE SwitchReady(w)
    BY <1>15, FrameKeepsWake DEF SwitchReady
  <1>16. CASE SwitchSem(w)
    BY <1>16, FrameKeepsWake DEF SwitchSem
  <1>17. CASE SwitchUnlock(w)
    BY <1>17, FrameKeepsWake DEF SwitchUnlock
  <1> QED
    BY <1>2, <1>3, <1>4, <1>5, <1>6, <1>7, <1>8, <1>9, <1>10, <1>11, <1>12, <1>13, <1>14,
       <1>15, <1>16, <1>17 DEF Worker

LEMMA NextWakes ==
  ASSUME TypeOK, Locals, LockInv, WakeInv, [Next]_vars
  PROVE  WakeInv'
  <1>1. ASSUME Owner \/ UNCHANGED vars
        PROVE  WakeInv'
    <2>1. /\ UNCHANGED <<tasks, status, mis, more>>
          /\ \A t \in Threads : pc'[t] = pc[t] \/ (pc[t] = "new" /\ pc'[t] = "loop")
      <3>1. pc \in [Threads -> WorkerLabels \cup PosterLabels]
        BY DEF TypeOK
      <3>2. CASE UNCHANGED vars
        BY <3>2 DEF vars, missionVars, workerVars
      <3>3. CASE RunReturns \/ StopCalled \/ StopReturns
        BY <3>3 DEF RunReturns, StopCalled, StopReturns, missionVars, workerVars
      <3>4. CASE \E w \in Workers : CreateWorker(w)
        BY <3>1, <3>4 DEF CreateWorker, Goto, missionVars, workerVars
      <3> QED
        BY <1>1, <3>2, <3>3, <3>4 DEF Owner
    <2>2. WakeFrame
      BY <2>1 DEF WakeFrame, Threads
    <2> QED
      BY <2>2, FrameKeepsWake
  <1> QED
    BY <1>1, PosterWakes, WorkerWakes DEF Next, Finished

(***************************************************************************)
(* No wakeup is lost: a mission with a task waiting is queued, owned by a  *)
(* worker, or about to be woken by a poster (task.c:83-97, 303-311).       *)
(***************************************************************************)
THEOREM WakeupsReachMissions == Spec => []NoLostWakeup
  <1>1. ASSUME Init
        PROVE  LockInv /\ WakeInv
    <2>1. /\ \A t \in Threads : pc[t] \in {"new", "idle"}
          /\ Workers \subseteq Threads
          /\ \A m \in Missions : tasks[m] = <<>>
      BY <1>1 DEF Init, Threads
    <2> QED
      BY <2>1 DEF LockInv, WakeInv, LockedLabels
  <1>2. Init => ScheduledOnce /\ StatusInv
    BY InitSchedules
  <1>3. TypeOK /\ Locals /\ ScheduledOnce /\ StatusInv /\ LockInv /\ WakeInv /\ [Next]_vars
          => (ScheduledOnce /\ StatusInv /\ LockInv /\ WakeInv)'
    BY NextSchedules, NextLocks, NextWakes
  <1>4. TypeOK /\ StatusInv /\ WakeInv => NoLostWakeup
    BY DEF TypeOK, StatusInv, WakeInv, NoLostWakeup
  <1>5. QED
    BY <1>1, <1>2, <1>3, <1>4, Typing, PTL DEF Spec

(***************************************************************************)
(* The threads of a set that are at a label, before and after thread t     *)
(* went from one label to another.                                         *)
(***************************************************************************)
At(S, f, l) == {u \in S : f[u] = l}

Here(S, f, l, t) == IF t \in S /\ f[t] = l THEN 1 ELSE 0

Moves(S, f, g, l, t) ==
  /\ Cardinality(At(S, f, l)) \in Nat
  /\ Cardinality(At(S, g, l)) \in Nat
  /\ Cardinality(At(S, g, l)) =
       Cardinality(At(S, f, l)) + Here(S, g, l, t) - Here(S, f, l, t)

LEMMA AtMoves ==
  ASSUME NEW S, IsFiniteSet(S), NEW f, NEW g, NEW t, NEW l,
         \A u \in S : u # t => g[u] = f[u]
  PROVE  Moves(S, f, g, l, t)
  <1> DEFINE F == At(S, f, l)
             G == At(S, g, l)
  <1>1. F \in SUBSET S /\ G \in SUBSET S
    BY DEF At
  <1>2. IsFiniteSet(F) /\ IsFiniteSet(G)
    BY <1>1, FS_Subset
  <1>3. Cardinality(F) \in Nat /\ Cardinality(G) \in Nat
    BY <1>2, FS_CardinalityType
  <1>4. F \ {t} = G \ {t}
    BY DEF At
  <1>5. Cardinality(F \ {t}) = Cardinality(F) - Here(S, f, l, t)
    <2>1. t \in F <=> t \in S /\ f[t] = l
      BY DEF At
    <2>2. Cardinality(F \ {t}) = IF t \in F THEN Cardinality(F) - 1 ELSE Cardinality(F)
      BY <1>2, FS_RemoveElement, Zenon
    <2> QED
      BY <1>3, <2>1, <2>2 DEF Here
  <1>6. Cardinality(G \ {t}) = Cardinality(G) - Here(S, g, l, t)
    <2>1. t \in G <=> t \in S /\ g[t] = l
      BY DEF At
    <2>2. Cardinality(G \ {t}) = IF t \in G THEN Cardinality(G) - 1 ELSE Cardinality(G)
      BY <1>2, FS_RemoveElement, Zenon
    <2> QED
      BY <1>3, <2>1, <2>2 DEF Here
  <1>7. Here(S, f, l, t) \in {0, 1} /\ Here(S, g, l, t) \in {0, 1}
    BY DEF Here
  <1> HIDE DEF F, G
  <1>8. Cardinality(G) = Cardinality(F) + Here(S, g, l, t) - Here(S, f, l, t)
    BY <1>3, <1>4, <1>5, <1>6, <1>7
  <1> QED
    BY <1>3, <1>8 DEF F, G, Moves

(***************************************************************************)
(* The posts that mis_ready has still to get, and the ones already taken.  *)
(***************************************************************************)
Coming(f) ==
  Cardinality(At(Workers, f, "pop")) + Cardinality(At(Posters, f, "sem"))
  + Cardinality(At(Workers, f, "swsem"))

\* What a thread at a label adds to them.
Weight(t, l) ==
  IF (t \in Workers /\ l \in {"pop", "swsem"}) \/ (t \in Posters /\ l = "sem") THEN 1 ELSE 0

LEMMA ComingMoves ==
  ASSUME NEW f, NEW g, NEW t,
         \A u \in Workers \cup Posters : u # t => g[u] = f[u]
  PROVE  /\ Coming(f) \in Nat /\ Coming(g) \in Nat
         /\ Coming(g) = Coming(f) + Weight(t, g[t]) - Weight(t, f[t])
  <1> DEFINE card(S, h, k) == Cardinality(At(S, h, k))
             here(S, h, k) == Here(S, h, k, t)
  <1>1. IsFiniteSet(Workers) /\ IsFiniteSet(Posters) /\ Workers \cap Posters = {}
    BY ConstantsAssumption
  <1>2. /\ Moves(Workers, f, g, "pop", t) /\ Moves(Workers, f, g, "swsem", t)
        /\ Moves(Posters, f, g, "sem", t)
    BY <1>1, AtMoves
  <1>4. ASSUME NEW h
        PROVE  here(Workers, h, "pop") + here(Workers, h, "swsem") + here(Posters, h, "sem")
                 = Weight(t, h[t])
    <2>1. CASE t \in Workers
      BY <1>1, <2>1 DEF Here, Weight
    <2>2. CASE t \in Posters
      BY <1>1, <2>2 DEF Here, Weight
    <2>3. CASE t \notin Workers \cup Posters
      BY <2>3 DEF Here, Weight
    <2> QED
      BY <2>1, <2>2, <2>3
  <1>5. \A S, h, k : here(S, h, k) \in {0, 1}
    BY DEF Here
  <1>6. \A h : Coming(h) = card(Workers, h, "pop") + card(Posters, h, "sem")
                          + card(Workers, h, "swsem")
    BY DEF Coming
  <1>7. \A S, k : Moves(S, f, g, k, t) =>
          /\ card(S, f, k) \in Nat /\ card(S, g, k) \in Nat
          /\ card(S, g, k) = card(S, f, k) + here(S, g, k) - here(S, f, k)
    BY DEF Moves
  <1> HIDE DEF card, here
  <1> QED
    BY <1>2, <1>4, <1>5, <1>6, <1>7

(***************************************************************************)
(* The semaphore.                                                          *)
(***************************************************************************)
LEMMA ComingSum ==
  ASSUME NEW f, NEW n \in Nat
  PROVE  n + Coming(f) = n + Cardinality({w \in Workers : f[w] = "pop"})
                           + Cardinality({p \in Posters : f[p] = "sem"})
                           + Cardinality({w \in Workers : f[w] = "swsem"})
  <1>1. \A l : Moves(Workers, f, f, l, f) /\ Moves(Posters, f, f, l, f)
    BY ConstantsAssumption, AtMoves
  <1>2. /\ Cardinality(At(Workers, f, "pop")) \in Nat
        /\ Cardinality(At(Posters, f, "sem")) \in Nat
        /\ Cardinality(At(Workers, f, "swsem")) \in Nat
    BY <1>1, Zenon DEF Moves
  <1> QED
    BY <1>2 DEF Coming, At

\* A step of t that moves the counts together.
LEMMA SemaphoreMoves ==
  ASSUME TypeOK, TypeOK', SemaphoreMatches, NEW t \in Threads, NEW l,
         pc' = [pc EXCEPT ![t] = l],
         Len(mis_ready') - sem_ready' - Weight(t, l)
           = Len(mis_ready) - sem_ready - Weight(t, pc[t])
  PROVE  SemaphoreMatches'
  <1>1. /\ pc \in [Threads -> WorkerLabels \cup PosterLabels]
        /\ sem_ready \in Nat /\ sem_ready' \in Nat
        /\ mis_ready \in Seq(Missions) /\ mis_ready' \in Seq(Missions)
    BY DEF TypeOK
  <1>2. Len(mis_ready) \in Nat /\ Len(mis_ready') \in Nat
    BY <1>1, LenProperties
  <1>3. pc'[t] = l /\ \A u \in Workers \cup Posters : u # t => pc'[u] = pc[u]
    BY <1>1 DEF Threads
  <1>4. /\ Coming(pc) \in Nat /\ Coming(pc') \in Nat
        /\ Coming(pc') = Coming(pc) + Weight(t, l) - Weight(t, pc[t])
    <2>1. PICK f, g : f = pc /\ g = pc'
      BY Zenon
    <2>2. g[t] = l /\ \A u \in Workers \cup Posters : u # t => g[u] = f[u]
      BY <1>3, <2>1, Zenon
    <2>3. /\ Coming(f) \in Nat /\ Coming(g) \in Nat
          /\ Coming(g) = Coming(f) + Weight(t, g[t]) - Weight(t, f[t])
      BY <2>2, ComingMoves
    <2> QED
      BY <2>1, <2>2, <2>3
  <1>5. Weight(t, l) \in {0, 1} /\ Weight(t, pc[t]) \in {0, 1}
    BY DEF Weight
  <1>6. Len(mis_ready) = sem_ready + Coming(pc)
    BY <1>1, ComingSum DEF SemaphoreMatches
  <1>7. Len(mis_ready') = sem_ready' + Coming(pc')
    <2>1. PICK L, M, s, r, c, d \in Nat, v, w \in {0, 1} :
            /\ L = Len(mis_ready) /\ M = Len(mis_ready')
            /\ s = sem_ready /\ r = sem_ready' /\ c = Coming(pc) /\ d = Coming(pc')
            /\ v = Weight(t, pc[t]) /\ w = Weight(t, l)
      BY <1>1, <1>2, <1>4, <1>5, Zenon
    <2>2. M - r - w = L - s - v
      BY <2>1
    <2>3. d = c + w - v /\ L = s + c
      BY <1>4, <1>6, <2>1
    <2>4. M = r + d
      BY <2>2, <2>3
    <2> QED
      BY <2>1, <2>4, Zenon
  <1>8. sem_ready' + Coming(pc')
          = sem_ready' + Cardinality({w \in Workers : pc'[w] = "pop"})
                       + Cardinality({p \in Posters : pc'[p] = "sem"})
                       + Cardinality({w \in Workers : pc'[w] = "swsem"})
    <2>1. PICK g : g = pc'
      BY Zenon
    <2>2. PICK n \in Nat : n = sem_ready'
      BY <1>1, Zenon
    <2> QED
      BY <2>1, <2>2, ComingSum, Zenon
  <1> QED
    BY <1>7, <1>8, Zenon DEF SemaphoreMatches

\* A step of t after which the counts still agree: what it adds to mis_ready it adds to
\* sem_ready or to the posts that are coming.
Balanced(t) ==
  \E l : /\ pc' = [pc EXCEPT ![t] = l]
         /\ Len(mis_ready') - sem_ready' - Weight(t, l)
              = Len(mis_ready) - sem_ready - Weight(t, pc[t])

LEMMA GotoBalances ==
  ASSUME NEW t, NEW from, NEW to, Goto(t, from, to),
         Len(mis_ready') - sem_ready' - Weight(t, to)
           = Len(mis_ready) - sem_ready - Weight(t, from)
  PROVE  Balanced(t)
  BY Zenon DEF Goto, Balanced

LEMMA QuietBalances ==
  ASSUME NEW t, NEW from, NEW to, Goto(t, from, to), UNCHANGED readyVars,
         Weight(t, from) = Weight(t, to)
  PROVE  Balanced(t)
  <1>1. mis_ready' = mis_ready /\ sem_ready' = sem_ready
    BY DEF readyVars
  <1> QED
    BY <1>1, GotoBalances, Zenon

LEMMA PosterBalances ==
  ASSUME TypeOK, NEW p \in Posters, Poster(p)
  PROVE  Balanced(p)
  <1>1. p \notin Workers
    BY ConstantsAssumption
  <1>2. Len(mis_ready) \in Nat /\ sem_ready \in Nat /\ mis_ready \in Seq(Missions)
    BY LenProperties DEF TypeOK
  <1>3. \A l : Weight(p, l) = IF l = "sem" THEN 1 ELSE 0
    BY <1>1 DEF Weight
  <1>4. CASE WakeIdle(p)
    <2>1. Goto(p, "wake", "sem") /\ sem_ready' = sem_ready
      BY <1>4, Zenon DEF WakeIdle
    <2>2. Len(mis_ready') = Len(mis_ready) + 1
      BY <1>2, <1>4, AppendProperties DEF WakeIdle
    <2> QED
      BY <1>2, <1>3, <2>1, <2>2, GotoBalances
  <1>5. CASE SemPost(p)
    <2>1. Goto(p, "sem", "unlock") /\ sem_ready' = sem_ready + 1 /\ mis_ready' = mis_ready
      BY <1>5, Zenon DEF SemPost
    <2>2. Len(mis_ready') = Len(mis_ready)
      BY <2>1, Zenon
    <2> QED
      BY <1>2, <1>3, <2>1, <2>2, GotoBalances
  <1>6. CASE ~(WakeIdle(p) \/ SemPost(p))
    <2>1. \E from, to \in PosterLabels \ {"sem"} : Goto(p, from, to) /\ UNCHANGED readyVars
      BY <1>6 DEF Poster, PosterLabels, PopTask, NoSubscriber, WalkLock, CloneTask, Enqueue,
         StatLock, WakeReady, StatUnlock, readyVars
    <2> QED
      BY <1>3, <2>1, QuietBalances
  <1> QED
    BY <1>4, <1>5, <1>6

LEMMA WorkerBalances ==
  ASSUME TypeOK, SemaphoreMatches, NEW w \in Workers, Worker(w)
  PROVE  Balanced(w)
  <1>1. w \notin Posters
    BY ConstantsAssumption
  <1>2. Len(mis_ready) \in Nat /\ sem_ready \in Nat /\ mis_ready \in Seq(Missions)
    BY LenProperties DEF TypeOK
  <1>3. \A l : Weight(w, l) = IF l \in {"pop", "swsem"} THEN 1 ELSE 0
    BY <1>1 DEF Weight
  <1>4. CASE SemWait(w)
    <2>1. Goto(w, "wait", "pop") /\ sem_ready' = sem_ready - 1 /\ mis_ready' = mis_ready
      BY <1>4, Zenon DEF SemWait
    <2>2. Len(mis_ready') = Len(mis_ready)
      BY <2>1, Zenon
    <2> QED
      BY <1>2, <1>3, <2>1, <2>2, GotoBalances
  <1>5. CASE PopReady(w)
    \* The worker at "pop" is counted, so mis_ready holds a mission for it.
    <2>1. pc[w] = "pop" /\ sem_ready' = sem_ready /\ mis_ready' = PopFront(mis_ready)
          /\ Goto(w, "pop", IF mis_ready = <<>> THEN "loop" ELSE "front")
      BY <1>5, Zenon DEF PopReady, Goto
    <2>2. Cardinality(At(Workers, pc, "pop")) \in Nat \ {0}
      <3>1. w \in At(Workers, pc, "pop") /\ At(Workers, pc, "pop") \in SUBSET Workers
        BY <2>1 DEF At
      <3>2. IsFiniteSet(At(Workers, pc, "pop"))
        BY <3>1, FS_Subset, ConstantsAssumption
      <3> QED
        BY <3>1, <3>2, FS_CardinalityType, FS_EmptySet
    <2>3. mis_ready # <<>>
      <3>1. Len(mis_ready) = sem_ready + Coming(pc)
        BY <1>2, ComingSum DEF SemaphoreMatches
      <3>2. \A l : Moves(Workers, pc, pc, l, w) /\ Moves(Posters, pc, pc, l, w)
        BY ConstantsAssumption, AtMoves
      <3>3. /\ Cardinality(At(Workers, pc, "swsem")) \in Nat
            /\ Cardinality(At(Posters, pc, "sem")) \in Nat
        BY <3>2, Zenon DEF Moves
      <3>4. Len(mis_ready) # 0
        BY <1>2, <2>2, <3>1, <3>3 DEF Coming
      <3> QED
        BY <3>4, EmptySeq
    <2>4. Len(mis_ready') = Len(mis_ready) - 1
      BY <1>2, <2>1, <2>3, HeadTailProperties DEF PopFront
    <2>5. Goto(w, "pop", "front")
      BY <2>1, <2>3, Zenon
    <2> QED
      BY <1>2, <1>3, <2>1, <2>4, <2>5, GotoBalances
  <1>6. CASE SwitchReady(w)
    <2>1. Goto(w, "swset", "swsem") /\ sem_ready' = sem_ready
      BY <1>6, Zenon DEF SwitchReady
    <2>2. mis[w] \in Missions \cup {None} /\ mis_ready' = Append(mis_ready, mis[w])
      BY <1>6 DEF SwitchReady, TypeOK, Threads
    <2>3. Len(mis_ready') = Len(mis_ready) + 1
      <3>1. mis_ready \in Seq(Missions \cup {None})
        BY <1>2
      <3> QED
        BY <2>2, <3>1, AppendProperties
    <2> QED
      BY <1>2, <1>3, <2>1, <2>3, GotoBalances
  <1>7. CASE SwitchSem(w)
    <2>1. Goto(w, "swsem", "swunlock") /\ sem_ready' = sem_ready + 1 /\ mis_ready' = mis_ready
      BY <1>7, Zenon DEF SwitchSem
    <2>2. Len(mis_ready') = Len(mis_ready)
      BY <2>1, Zenon
    <2> QED
      BY <1>2, <1>3, <2>1, <2>2, GotoBalances
  <1>8. CASE ~(SemWait(w) \/ PopReady(w) \/ SwitchReady(w) \/ SwitchSem(w))
    <2>1. \E from, to \in WorkerLabels \ {"pop", "swsem"} :
            Goto(w, from, to) /\ UNCHANGED readyVars
      BY <1>8 DEF Worker, WorkerLabels, LoopTest, SemTimeout, FrontTask, FrontStop,
         ConcurrentPop, Operate, Release, SerialPop, SwitchLock, SwitchTest, SwitchIdle,
         SwitchUnlock, readyVars
    <2> QED
      BY <1>3, <2>1, QuietBalances
  <1> QED
    BY <1>4, <1>5, <1>6, <1>7, <1>8

LEMMA SemaphoreKept ==
  ASSUME TypeOK, TypeOK', SemaphoreMatches, [Next]_vars
  PROVE  SemaphoreMatches'
  <1>1. ASSUME NEW t \in Threads, Balanced(t)
        PROVE  SemaphoreMatches'
    BY <1>1, SemaphoreMoves, Zenon DEF Balanced
  <1>2. CASE \E p \in Posters : Poster(p)
    BY <1>1, <1>2, PosterBalances, Zenon DEF Threads
  <1>3. CASE \E w \in Workers : Worker(w)
    BY <1>1, <1>3, WorkerBalances, Zenon DEF Threads
  <1>4. CASE \E w \in Workers : CreateWorker(w)
    <2>1. PICK w \in Workers : CreateWorker(w)
      BY <1>4
    <2>2. Goto(w, "new", "loop") /\ UNCHANGED readyVars
      BY <2>1, Zenon DEF CreateWorker
    <2>3. Weight(w, "new") = Weight(w, "loop")
      BY DEF Weight
    <2> QED
      BY <1>1, <2>2, <2>3, QuietBalances DEF Threads
  <1>5. CASE UNCHANGED <<pc, readyVars>>
    BY <1>5, Zenon DEF SemaphoreMatches, readyVars
  <1>6. \/ \E p \in Posters : Poster(p)
        \/ \E w \in Workers : Worker(w)
        \/ \E w \in Workers : CreateWorker(w)
        \/ UNCHANGED <<pc, readyVars>>
    BY DEF Next, Owner, RunReturns, StopCalled, StopReturns, Finished, vars, readyVars
  <1> QED
    BY <1>2, <1>3, <1>4, <1>5, <1>6

LEMMA InitMatches == Init => SemaphoreMatches
  <1> SUFFICES ASSUME Init
               PROVE  SemaphoreMatches
    OBVIOUS
  <1>1. /\ {w \in Workers : pc[w] = "pop"} = {} /\ {w \in Workers : pc[w] = "swsem"} = {}
        /\ {p \in Posters : pc[p] = "sem"} = {}
    BY ConstantsAssumption DEF Init, Threads
  <1>2. Cardinality({}) = 0
    BY FS_EmptySet
  <1>3. Len(mis_ready) = 0 /\ sem_ready = 0
    BY EmptySeq DEF Init
  <1>4. /\ Cardinality({w \in Workers : pc[w] = "pop"}) = 0
        /\ Cardinality({w \in Workers : pc[w] = "swsem"}) = 0
        /\ Cardinality({p \in Posters : pc[p] = "sem"}) = 0
    BY <1>1, <1>2, Zenon
  <1> QED
    BY <1>3, <1>4 DEF SemaphoreMatches

\* The semaphore of the server counts mis_ready: every queued mission is matched by one
\* unit, by a worker between zsem_wait and zqueue_lock_pop, or by a post to come; so a
\* worker that zsem_wait lets through finds a mission (task.c:115-120).
THEOREM SemaphoreCountsMissions == Spec => []SemaphoreMatches
  <1>1. TypeOK /\ TypeOK' /\ SemaphoreMatches /\ [Next]_vars => SemaphoreMatches'
    BY SemaphoreKept
  <1> QED
    BY <1>1, InitMatches, Typing, PTL DEF Spec

(***************************************************************************)
(* The task server implements MissionExec: a task put into a mission's     *)
(* queue is submitted, a task a worker finds with zqueue_front begins, and *)
(* it ends when the worker is done with it; every other step is a stutter. *)
(***************************************************************************)
\* Worker w has taken the first task of m, which is still in the queue of m.
Takes(w, m) ==
  /\ mis[w] = m
  /\ \/ pc[w] \in {"cpop", "spop"}
     \/ pc[w] \in {"oper", "rel"} /\ Serial(m)

Taken(m) == \E w \in Workers : Takes(w, m)

Left(m) == IF Taken(m) THEN Tail(tasks[m]) ELSE tasks[m]

Numbers(q) == [i \in DOMAIN q |-> q[i].num]

\* The refinement mapping of SpecOfMissions.
Pending == [m \in Missions |-> Numbers(Left(m))]
Running(w) == IF tsk[w] = None THEN None ELSE <<mis[w], tsk[w].num>>
Exec == [w \in Workers |-> Running(w)]

(***************************************************************************)
(* What the mapping relies on: tasks are numbered 1..MaxPosts, and a queue *)
(* keeps the task that a worker took until the worker pops it.             *)
(***************************************************************************)
Numbered ==
  /\ posts \in 0..MaxPosts
  /\ \A p \in Posters : hint[p] # None => hint[p].num \in 1..MaxPosts
  /\ \A p \in Posters : tsk[p] # None => tsk[p].num \in 1..MaxPosts

HeadPresent == \A w \in Workers, m \in Missions : Takes(w, m) => tasks[m] # <<>>

MappingInv == Numbered /\ HeadPresent

(***************************************************************************)
(* The numbers of a queue of entries.                                      *)
(***************************************************************************)
LEMMA NumbersTyped ==
  ASSUME NEW q \in Seq(Entries)
  PROVE  /\ Numbers(q) \in Seq(Nat) /\ Len(Numbers(q)) = Len(q)
         /\ \A i \in 1..Len(q) : Numbers(q)[i] = q[i].num
  <1>1. Len(q) \in Nat /\ DOMAIN q = 1..Len(q) /\ \A i \in 1..Len(q) : q[i] \in Entries
    BY LenProperties, ElementOfSeq
  <1>2. \A i \in 1..Len(q) : q[i].num \in Nat
    BY <1>1 DEF Entries
  <1>3. Numbers(q) = [i \in 1..Len(q) |-> q[i].num]
    BY <1>1, Zenon DEF Numbers
  <1>4. [i \in 1..Len(q) |-> q[i].num] \in Seq(Nat)
    BY <1>1, <1>2, IsASeq
  <1>5. DOMAIN Numbers(q) = 1..Len(q) /\ DOMAIN Numbers(q) = 1..Len(Numbers(q))
    BY <1>3, <1>4, LenProperties, Zenon
  <1>6. Len(Numbers(q)) \in Nat
    BY <1>3, <1>4, LenProperties, Zenon
  <1>7. Len(Numbers(q)) = Len(q)
    BY <1>1, <1>5, <1>6
  <1> QED
    BY <1>3, <1>4, <1>7

LEMMA NumbersOfAppend ==
  ASSUME NEW q \in Seq(Entries), NEW e \in Entries
  PROVE  Numbers(Append(q, e)) = Append(Numbers(q), e.num)
  <1> DEFINE qe == Append(q, e)
             s == Numbers(qe)
             t == Append(Numbers(q), e.num)
  <1>1. /\ qe \in Seq(Entries) /\ Len(qe) = Len(q) + 1 /\ Len(q) \in Nat
        /\ \A i \in 1..Len(q) : qe[i] = q[i]
        /\ qe[Len(q) + 1] = e
    BY AppendProperties, LenProperties
  <1>2. /\ Numbers(q) \in Seq(Nat) /\ Len(Numbers(q)) = Len(q)
        /\ \A i \in 1..Len(q) : Numbers(q)[i] = q[i].num
    BY NumbersTyped
  <1>3. e.num \in Nat
    BY DEF Entries
  <1>4. /\ t \in Seq(Nat) /\ Len(t) = Len(q) + 1
        /\ \A i \in 1..Len(q) : t[i] = q[i].num
        /\ t[Len(q) + 1] = e.num
    BY <1>2, <1>3, AppendProperties
  <1> HIDE DEF qe, t
  <1>5. /\ s \in Seq(Nat) /\ Len(s) = Len(qe)
        /\ \A i \in 1..Len(qe) : s[i] = qe[i].num
    BY <1>1, NumbersTyped
  <1> HIDE DEF s
  <1>6. ASSUME NEW i \in 1..Len(q) + 1
        PROVE  s[i] = t[i]
    <2>1. CASE i = Len(q) + 1
      BY <1>1, <1>4, <1>5, <2>1
    <2>2. CASE i # Len(q) + 1
      <3>1. i \in 1..Len(q)
        BY <1>1, <2>2
      <3> QED
        BY <1>1, <1>4, <1>5, <3>1
    <2> QED
      BY <2>1, <2>2
  <1>7. s = t
    BY <1>1, <1>4, <1>5, <1>6, SeqEqual
  <1> QED
    BY <1>7 DEF s, t, qe

LEMMA NumbersOfTail ==
  ASSUME NEW q \in Seq(Entries), q # <<>>
  PROVE  /\ Numbers(q) # <<>>
         /\ Head(Numbers(q)) = Head(q).num
         /\ Numbers(Tail(q)) = Tail(Numbers(q))
  <1> DEFINE ns == Numbers(q)
             s == Numbers(Tail(q))
             t == Tail(ns)
  <1>1. /\ Len(q) \in Nat \ {0} /\ Tail(q) \in Seq(Entries) /\ Len(Tail(q)) = Len(q) - 1
        /\ \A i \in 1..Len(Tail(q)) : Tail(q)[i] = q[i + 1]
    BY EmptySeq, HeadTailProperties
  <1>2. /\ ns \in Seq(Nat) /\ Len(ns) = Len(q)
        /\ \A i \in 1..Len(q) : ns[i] = q[i].num
    BY NumbersTyped
  <1>3. ns # <<>>
    <2>1. Len(ns) # Len(<<>>)
      BY <1>1, <1>2, EmptySeq
    <2> QED
      BY <2>1, Zenon
  <1>4. Head(ns) = Head(q).num
    <2>1. 1 \in 1..Len(q) /\ Head(q) = q[1]
      BY <1>1
    <2>2. Head(ns) = ns[1]
      BY <1>2, <1>3
    <2> QED
      BY <1>2, <2>1, <2>2
  <1>5. /\ s \in Seq(Nat) /\ Len(s) = Len(q) - 1
        /\ \A i \in 1..Len(q) - 1 : s[i] = Tail(q)[i].num
    BY <1>1, NumbersTyped
  <1>6. /\ t \in Seq(Nat) /\ Len(t) = Len(q) - 1
        /\ \A i \in 1..Len(q) - 1 : t[i] = ns[i + 1]
    BY <1>2, <1>3, HeadTailProperties
  <1> HIDE DEF ns, s, t
  <1>7. ASSUME NEW i \in 1..Len(q) - 1
        PROVE  s[i] = t[i]
    <2>1. i + 1 \in 1..Len(q)
      BY <1>1
    <2> QED
      BY <1>1, <1>2, <1>5, <1>6, <2>1
  <1>8. s = t
    BY <1>1, <1>5, <1>6, <1>7, SeqEqual
  <1> QED
    BY <1>3, <1>4, <1>8 DEF ns, s, t

(***************************************************************************)
(* Who takes what.                                                         *)
(***************************************************************************)
LEMMA TakesOwns ==
  ASSUME NEW w \in Workers, NEW m, Takes(w, m)
  PROVE  Owns(w) /\ mis[w] = m
  BY DEF Takes, Owns

LEMMA OneTaker ==
  ASSUME ScheduledOnce, NEW w \in Workers, Owns(w), NEW v \in Workers, Takes(v, mis[w])
  PROVE  v = w
  BY TakesOwns DEF ScheduledOnce

\* A worker that runs a task of a serial mission has taken it.
LEMMA SerialTakes ==
  ASSUME Locals, NEW w \in Workers, tsk[w] # None, Serial(mis[w]), TypeOK
  PROVE  Takes(w, mis[w])
  <1>1. pc[w] \in WorkerLabels /\ WorkerLocals(w)
    BY DEF Locals, TypeOK
  <1> QED
    BY <1>1 DEF WorkerLabels, WorkerLocals, Takes

(***************************************************************************)
(* Steps that the mapping does not see.                                    *)
(***************************************************************************)
MapFrame ==
  /\ UNCHANGED tasks
  /\ \A w \in Workers, m \in Missions : Takes(w, m)' <=> Takes(w, m)
  /\ \A w \in Workers : Running(w)' = Running(w)

LEMMA FrameMaps ==
  ASSUME MapFrame, HeadPresent
  PROVE  UNCHANGED <<Pending, Exec>> /\ HeadPresent'
  <1>1. \A m \in Missions : Taken(m)' <=> Taken(m)
    BY DEF MapFrame, Taken
  <1>2. \A m \in Missions : Left(m)' = Left(m)
    BY <1>1 DEF MapFrame, Left
  <1>3. \A m \in Missions : Numbers(Left(m))' = Numbers(Left(m))
    BY <1>2 DEF Numbers
  <1>4. Pending' = Pending
    BY <1>3 DEF Pending
  <1>5. Exec' = Exec
    BY DEF MapFrame, Exec
  <1> QED
    BY <1>4, <1>5 DEF MapFrame, HeadPresent

\* A step of a thread that touches no worker but itself.
LEMMA OthersFramed ==
  ASSUME NEW w \in Workers, UNCHANGED tasks,
         \A v \in Workers \ {w} : pc'[v] = pc[v] /\ mis'[v] = mis[v] /\ tsk'[v] = tsk[v],
         \A m \in Missions : Takes(w, m)' <=> Takes(w, m), Running(w)' = Running(w)
  PROVE  MapFrame
  <1>1. \A v \in Workers \ {w} : Running(v)' = Running(v)
    BY DEF Running
  <1>2. \A v \in Workers \ {w}, m \in Missions : Takes(v, m)' <=> Takes(v, m)
    BY DEF Takes
  <1> QED
    BY <1>1, <1>2 DEF MapFrame

LEMMA PosterFramed ==
  ASSUME TypeOK, NEW p \in Posters, Poster(p), ~Enqueue(p)
  PROVE  MapFrame
  <1>1. /\ pc \in [Threads -> WorkerLabels \cup PosterLabels]
        /\ mis \in [Threads -> Missions \cup {None}]
        /\ tsk \in [Threads -> Entries \cup {None}]
        /\ \A w \in Workers : w # p /\ w \in Threads
    BY ConstantsAssumption DEF TypeOK, Threads
  <1>2. UNCHANGED tasks
    BY DEF Poster, PopTask, NoSubscriber, WalkLock, CloneTask, StatLock, WakeIdle, WakeReady,
       SemPost, StatUnlock, missionVars
  <1>3. \A w \in Workers : pc'[w] = pc[w]
    BY <1>1 DEF Poster, PopTask, NoSubscriber, WalkLock, CloneTask, StatLock, WakeIdle,
       WakeReady, SemPost, StatUnlock, Goto
  <1>4. \A w \in Workers : mis'[w] = mis[w]
    BY <1>1 DEF Poster, PopTask, NoSubscriber, WalkLock, CloneTask, StatLock, WakeIdle,
       WakeReady, SemPost, StatUnlock
  <1>5. \A w \in Workers : tsk'[w] = tsk[w]
    <2>1. CASE CloneTask(p)
      BY <1>1, <2>1 DEF CloneTask
    <2>2. CASE ~CloneTask(p)
      BY <2>2 DEF Poster, PopTask, NoSubscriber, WalkLock, StatLock, WakeIdle, WakeReady,
         SemPost, StatUnlock
    <2> QED
      BY <2>1, <2>2
  <1>6. \A w \in Workers : Running(w)' = Running(w)
    BY <1>4, <1>5 DEF Running
  <1>7. \A w \in Workers, m \in Missions : Takes(w, m)' <=> Takes(w, m)
    BY <1>3, <1>4 DEF Takes
  <1> QED
    BY <1>2, <1>6, <1>7 DEF MapFrame

\* The steps of a worker that neither find nor pop a task and do not finish one.
LEMMA WorkerFramed ==
  ASSUME TypeOK, Locals, NEW w \in Workers, Worker(w), ~FrontTask(w), ~ConcurrentPop(w),
         ~SerialPop(w), ~(Release(w) /\ ~Serial(mis[w]))
  PROVE  MapFrame
  <1>1. /\ pc \in [Threads -> WorkerLabels \cup PosterLabels]
        /\ mis \in [Threads -> Missions \cup {None}]
        /\ tsk \in [Threads -> Entries \cup {None}]
        /\ Workers \subseteq Threads
        /\ WorkerLocals(w)
    BY DEF TypeOK, Threads, Locals
  <1> USE <1>1 DEF Goto, WorkerLocals, Takes, Running
  <1>2. CASE LoopTest(w)
    BY <1>2, OthersFramed DEF LoopTest, missionVars
  <1>3. CASE SemWait(w)
    BY <1>3, OthersFramed DEF SemWait, missionVars
  <1>4. CASE SemTimeout(w)
    BY <1>4, OthersFramed DEF SemTimeout, missionVars
  <1>5. CASE PopReady(w)
    BY <1>5, OthersFramed DEF PopReady, missionVars
  <1>6. CASE FrontStop(w)
    BY <1>6, OthersFramed DEF FrontStop, missionVars
  <1>7. CASE Operate(w)
    BY <1>7, OthersFramed DEF Operate, missionVars
  <1>8. CASE Release(w) /\ Serial(mis[w])
    BY <1>8, OthersFramed DEF Release, missionVars
  <1>9. CASE SwitchLock(w)
    BY <1>9, OthersFramed DEF SwitchLock
  <1>10. CASE SwitchTest(w)
    BY <1>10, OthersFramed DEF SwitchTest, missionVars
  <1>11. CASE SwitchReady(w)
    BY <1>11, OthersFramed DEF SwitchReady
  <1>12. CASE SwitchIdle(w)
    BY <1>12, OthersFramed DEF SwitchIdle
  <1>13. CASE SwitchSem(w)
    BY <1>13, OthersFramed DEF SwitchSem, missionVars
  <1>14. CASE SwitchUnlock(w)
    BY <1>14, OthersFramed DEF SwitchUnlock
  <1> QED
    BY <1>2, <1>3, <1>4, <1>5, <1>6, <1>7, <1>8, <1>9, <1>10, <1>11, <1>12, <1>13, <1>14
    DEF Worker

LEMMA OwnerFramed ==
  ASSUME TypeOK, Owner \/ UNCHANGED vars
  PROVE  MapFrame
  <1>1. pc \in [Threads -> WorkerLabels \cup PosterLabels]
    BY DEF TypeOK
  <1>2. UNCHANGED <<tasks, mis, tsk>>
    BY DEF Owner, RunReturns, StopCalled, StopReturns, CreateWorker, missionVars, vars
  <1>3. \A w \in Workers : pc'[w] = pc[w] \/ (pc[w] = "new" /\ pc'[w] = "loop")
    <2>1. CASE \E w \in Workers : CreateWorker(w)
      BY <1>1, <2>1 DEF CreateWorker, Goto, Threads
    <2>2. CASE ~\E w \in Workers : CreateWorker(w)
      BY <2>2 DEF Owner, RunReturns, StopCalled, StopReturns, vars
    <2> QED
      BY <2>1, <2>2
  <1>4. \A w \in Workers, m \in Missions : Takes(w, m)' <=> Takes(w, m)
    BY <1>2, <1>3 DEF Takes
  <1> QED
    BY <1>2, <1>4 DEF MapFrame, Running

(***************************************************************************)
(* The steps of MissionExec.                                               *)
(***************************************************************************)
Submits(m, n) ==
  /\ Pending' = [Pending EXCEPT ![m] = Append(@, n)]
  /\ UNCHANGED Exec

Begins(w, m) ==
  /\ Exec[w] = None
  /\ Pending[m] # <<>>
  /\ m \in {n \in Missions : Serial(n)} => {v \in Workers : Exec[v] # None /\ Exec[v][1] = m} = {}
  /\ Exec' = [Exec EXCEPT ![w] = <<m, Head(Pending[m])>>]
  /\ Pending' = [Pending EXCEPT ![m] = Tail(@)]

Ends(w) ==
  /\ Exec[w] # None
  /\ Exec' = [Exec EXCEPT ![w] = None]
  /\ UNCHANGED Pending

LEMMA EnqueueSubmits ==
  ASSUME TypeOK, Locals, MappingInv, NEW p \in Posters, Enqueue(p)
  PROVE  /\ \E m \in Missions, n \in 1..MaxPosts : Submits(m, n)
         /\ HeadPresent'
  <1>1. /\ pc \in [Threads -> WorkerLabels \cup PosterLabels]
        /\ tsk \in [Threads -> Entries \cup {None}]
        /\ tasks \in [Missions -> Seq(Entries)]
        /\ \A w \in Workers : w # p /\ w \in Threads
    BY ConstantsAssumption DEF TypeOK, Threads
  <1>2. pc[p] = "enq" /\ pc' = [pc EXCEPT ![p] = "stat"]
    BY DEF Enqueue, Goto
  <1>3. PICK m \in Missions, e \in Entries : m = mis[p] /\ e = tsk[p]
    BY <1>2 DEF Locals, PosterLocals
  <1>4. e.num \in 1..MaxPosts
    BY <1>3, ConstantsAssumption DEF MappingInv, Numbered
  <1>5. /\ tasks' = [tasks EXCEPT ![m] = Append(@, e)]
        /\ tsk' = [tsk EXCEPT ![p] = None] /\ mis' = mis
    BY <1>3 DEF Enqueue
  <1>6. \A w \in Workers : pc'[w] = pc[w] /\ mis'[w] = mis[w] /\ tsk'[w] = tsk[w]
    BY <1>1, <1>2, <1>5
  <1>7. \A w \in Workers, k \in Missions : Takes(w, k)' <=> Takes(w, k)
    BY <1>6 DEF Takes
  <1>8. \A k \in Missions : Taken(k)' <=> Taken(k)
    BY <1>7 DEF Taken
  <1>9. Exec' = Exec
    BY <1>6 DEF Exec, Running
  <1>10. /\ \A k \in Missions : k # m => tasks'[k] = tasks[k]
         /\ tasks'[m] = Append(tasks[m], e)
    BY <1>1, <1>3, <1>5
  <1>11. tasks'[m] # <<>>
    BY <1>1, <1>3, <1>10, AppendProperties
  <1>12. HeadPresent'
    BY <1>7, <1>10, <1>11 DEF MappingInv, HeadPresent
  <1>13. \A k \in Missions \ {m} : Numbers(Left(k))' = Numbers(Left(k))
    BY <1>8, <1>10 DEF Left, Numbers
  <1>14. Left(m) \in Seq(Entries) /\ Left(m)' = Append(Left(m), e)
    <2>1. CASE Taken(m)
      <3>1. tasks[m] # <<>> /\ tasks[m] \in Seq(Entries)
        BY <1>1, <1>3, <2>1 DEF Taken, MappingInv, HeadPresent
      <3>2. Tail(tasks[m]) \in Seq(Entries)
        BY <3>1, HeadTailProperties
      <3>3. Tail(Append(tasks[m], e)) = Append(Tail(tasks[m]), e)
        BY <3>1, HeadTailAppend
      <3>4. Left(m)' = Tail(tasks'[m]) /\ Left(m) = Tail(tasks[m])
        BY <1>3, <1>8, <2>1 DEF Left
      <3> QED
        BY <1>10, <3>2, <3>3, <3>4
    <2>2. CASE ~Taken(m)
      <3>1. Left(m)' = tasks'[m] /\ Left(m) = tasks[m]
        BY <1>3, <1>8, <2>2 DEF Left
      <3> QED
        BY <1>1, <1>3, <1>10, <3>1
    <2> QED
      BY <2>1, <2>2
  <1>15. Numbers(Left(m))' = Append(Numbers(Left(m)), e.num)
    <2>1. Numbers(Left(m))' = Numbers(Append(Left(m), e))
      BY <1>14 DEF Numbers
    <2> QED
      BY <1>3, <1>14, <2>1, NumbersOfAppend
  <1>16. Pending' = [Pending EXCEPT ![m] = Append(@, e.num)]
    BY <1>3, <1>13, <1>15 DEF Pending
  <1> QED
    BY <1>3, <1>4, <1>9, <1>12, <1>16 DEF Submits

LEMMA FrontTaskBegins ==
  ASSUME TypeOK, Locals, ScheduledOnce, MappingInv, NEW w \in Workers, FrontTask(w)
  PROVE  (\E m \in Missions : Begins(w, m)) /\ HeadPresent'
  <1>1. /\ pc \in [Threads -> WorkerLabels \cup PosterLabels]
        /\ tsk \in [Threads -> Entries \cup {None}]
        /\ tasks \in [Missions -> Seq(Entries)]
        /\ Workers \subseteq Threads /\ WorkerLocals(w)
    BY DEF TypeOK, Threads, Locals
  <1>2. PICK m \in Missions : m = mis[w]
    BY <1>1 DEF FrontTask, Goto, WorkerLocals
  <1>3. /\ pc[w] = "front" /\ tasks[m] # <<>> /\ Owns(w) /\ tsk[w] = None
        /\ pc' = [pc EXCEPT ![w] = IF Serial(m) THEN "oper" ELSE "cpop"]
        /\ tsk' = [tsk EXCEPT ![w] = Head(tasks[m])]
        /\ UNCHANGED <<tasks, mis>>
    BY <1>1, <1>2 DEF FrontTask, Goto, Owns, WorkerLocals, missionVars
  <1>4. /\ pc'[w] = (IF Serial(m) THEN "oper" ELSE "cpop") /\ tsk'[w] = Head(tasks[m])
        /\ \A v \in Workers \ {w} : pc'[v] = pc[v] /\ tsk'[v] = tsk[v]
    BY <1>1, <1>3
  <1>5. ~Taken(m) /\ Takes(w, m)'
    <2>1. ~Taken(m)
      <3>1. ASSUME NEW v \in Workers, Takes(v, m)
            PROVE  FALSE
        <4>1. v = w
          BY <1>2, <1>3, <3>1, OneTaker
        <4> QED
          BY <1>3, <3>1, <4>1 DEF Takes
      <3> QED
        BY <3>1 DEF Taken
    <2>2. Takes(w, m)'
      BY <1>2, <1>3, <1>4 DEF Takes, Serial
    <2> QED
      BY <2>1, <2>2
  <1>6. \A v \in Workers, k \in Missions : v # w \/ k # m => (Takes(v, k)' <=> Takes(v, k))
    BY <1>2, <1>3, <1>4 DEF Takes
  <1>7. HeadPresent'
    BY <1>3, <1>6 DEF MappingInv, HeadPresent
  <1>8. Head(tasks[m]) \in Entries /\ tasks[m] \in Seq(Entries)
    BY <1>1, <1>3, HeadTailProperties
  <1>9. \A k \in Missions \ {m} : Numbers(Left(k))' = Numbers(Left(k))
    BY <1>3, <1>6 DEF Left, Taken, Numbers
  <1>10. Left(m) = tasks[m] /\ Left(m)' = Tail(tasks[m])
    BY <1>3, <1>5 DEF Left, Taken
  <1>11. /\ Numbers(Left(m)) # <<>>
         /\ Head(Numbers(Left(m))) = Head(tasks[m]).num
         /\ Numbers(Left(m))' = Tail(Numbers(Left(m)))
    <2>1. Numbers(Left(m))' = Numbers(Tail(tasks[m]))
      BY <1>10 DEF Numbers
    <2> QED
      BY <1>3, <1>8, <1>10, <2>1, NumbersOfTail
  <1>12. Pending[m] = Numbers(Left(m)) /\ Pending' = [Pending EXCEPT ![m] = Tail(@)]
    BY <1>9, <1>11 DEF Pending
  <1>13. Exec[w] = None /\ Exec' = [Exec EXCEPT ![w] = <<m, Head(tasks[m]).num>>]
    <2>1. Head(tasks[m]) # None
      BY <1>8, ConstantsAssumption
    <2>2. Running(w)' = <<m, Head(tasks[m]).num>> /\ Running(w) = None
      BY <1>2, <1>3, <1>4, <2>1 DEF Running
    <2>3. \A v \in Workers \ {w} : Running(v)' = Running(v)
      BY <1>3, <1>4 DEF Running
    <2> QED
      BY <2>2, <2>3 DEF Exec
  <1>14. ASSUME Serial(m), NEW v \in Workers, Exec[v] # None, Exec[v][1] = m
         PROVE  FALSE
    <2>1. tsk[v] # None /\ mis[v] = m
      BY <1>14 DEF Exec, Running
    <2>2. Takes(v, m)
      BY <1>14, <2>1, SerialTakes
    <2> QED
      BY <1>5, <2>2 DEF Taken
  <1> QED
    BY <1>7, <1>11, <1>12, <1>13, <1>14 DEF Begins

\* A worker pops the task that it took: what is left of the queue is what it was.
LEMMA PoppedLeft ==
  ASSUME TypeOK, ScheduledOnce, HeadPresent, NEW w \in Workers, NEW m \in Missions,
         Takes(w, m), tasks' = [tasks EXCEPT ![m] = PopFront(@)], UNCHANGED mis,
         ~Takes(w, m)', \A v \in Workers \ {w} : pc'[v] = pc[v]
  PROVE  Pending' = Pending /\ HeadPresent'
  <1>1. tasks \in [Missions -> Seq(Entries)]
    BY DEF TypeOK
  <1>2. tasks[m] # <<>> /\ tasks'[m] = Tail(tasks[m])
        /\ \A k \in Missions \ {m} : tasks'[k] = tasks[k]
    BY <1>1 DEF HeadPresent, PopFront
  <1>3. Owns(w) /\ mis[w] = m
    BY TakesOwns
  <1>4. \A v \in Workers \ {w}, k \in Missions : Takes(v, k)' <=> Takes(v, k)
    BY DEF Takes
  <1>5. \A v \in Workers \ {w} : ~Takes(v, m)
    BY <1>3, OneTaker
  <1>6. \A k \in Missions \ {m} : ~Takes(w, k) /\ ~Takes(w, k)'
    BY <1>3 DEF Takes
  <1>7. Taken(m) /\ ~Taken(m)' /\ \A k \in Missions \ {m} : Taken(k)' <=> Taken(k)
    BY <1>4, <1>5, <1>6 DEF Taken
  <1>8. \A k \in Missions : Left(k)' = Left(k)
    BY <1>2, <1>7 DEF Left
  <1>9. \A k \in Missions : Numbers(Left(k))' = Numbers(Left(k))
    BY <1>8 DEF Numbers
  <1>10. HeadPresent'
    BY <1>2, <1>4, <1>5, <1>6 DEF HeadPresent
  <1> QED
    BY <1>9, <1>10 DEF Pending

LEMMA ConcurrentPopStutters ==
  ASSUME TypeOK, Locals, ScheduledOnce, HeadPresent, NEW w \in Workers, ConcurrentPop(w)
  PROVE  UNCHANGED <<Pending, Exec>> /\ HeadPresent'
  <1>1. /\ pc \in [Threads -> WorkerLabels \cup PosterLabels]
        /\ Workers \subseteq Threads /\ WorkerLocals(w)
    BY DEF TypeOK, Threads, Locals
  <1>2. /\ pc[w] = "cpop" /\ pc' = [pc EXCEPT ![w] = "swlock"]
        /\ UNCHANGED <<mis, tsk>>
    BY DEF ConcurrentPop, Goto
  <1>3. PICK m \in Missions : m = mis[w]
    BY <1>1, <1>2 DEF WorkerLocals
  <1>4. tasks' = [tasks EXCEPT ![m] = PopFront(@)]
    BY <1>3 DEF ConcurrentPop
  <1>5. pc'[w] = "swlock" /\ \A v \in Workers \ {w} : pc'[v] = pc[v]
    BY <1>1, <1>2
  <1>6. Takes(w, m) /\ ~Takes(w, m)'
    BY <1>2, <1>3, <1>5 DEF Takes
  <1>7. Exec' = Exec
    BY <1>2 DEF Exec, Running
  <1> QED
    BY <1>2, <1>4, <1>5, <1>6, <1>7, PoppedLeft

\* A worker is done with the task in its hands.
LEMMA TaskDropped ==
  ASSUME TypeOK, NEW w \in Workers, NEW m \in Missions, m = mis[w], tsk[w] \in Entries,
         tsk'[w] = None,
         \A v \in Workers \ {w} : tsk'[v] = tsk[v] /\ mis'[v] = mis[v]
  PROVE  Exec[w] # None /\ Exec' = [Exec EXCEPT ![w] = None]
  <1>1. tsk[w] # None /\ <<m, tsk[w].num>> \in Missions \X Nat
    BY ConstantsAssumption DEF Entries
  <1>2. Exec[w] # None
    BY <1>1, ConstantsAssumption DEF Exec, Running
  <1>3. Running(w)' = None /\ \A v \in Workers \ {w} : Running(v)' = Running(v)
    BY DEF Running
  <1> QED
    BY <1>2, <1>3 DEF Exec

LEMMA SerialPopEnds ==
  ASSUME TypeOK, Locals, ScheduledOnce, HeadPresent, NEW w \in Workers, SerialPop(w)
  PROVE  Ends(w) /\ HeadPresent'
  <1>1. /\ pc \in [Threads -> WorkerLabels \cup PosterLabels]
        /\ tsk \in [Threads -> Entries \cup {None}]
        /\ Workers \subseteq Threads /\ WorkerLocals(w)
    BY DEF TypeOK, Threads, Locals
  <1>2. /\ pc[w] = "spop" /\ pc' = [pc EXCEPT ![w] = "front"]
        /\ tsk' = [tsk EXCEPT ![w] = None] /\ UNCHANGED mis
    BY DEF SerialPop, Goto
  <1>3. PICK m \in Missions : m = mis[w]
    BY <1>1, <1>2 DEF WorkerLocals
  <1>4. tasks' = [tasks EXCEPT ![m] = PopFront(@)]
    BY <1>3 DEF SerialPop
  <1>5. /\ pc'[w] = "front" /\ tsk'[w] = None /\ tsk[w] \in Entries
        /\ \A v \in Workers \ {w} : pc'[v] = pc[v] /\ tsk'[v] = tsk[v] /\ mis'[v] = mis[v]
    BY <1>1, <1>2 DEF WorkerLocals
  <1>6. Takes(w, m) /\ ~Takes(w, m)'
    BY <1>2, <1>3, <1>5 DEF Takes
  <1>7. Exec[w] # None /\ Exec' = [Exec EXCEPT ![w] = None]
    BY <1>3, <1>5, TaskDropped
  <1>8. Pending' = Pending /\ HeadPresent'
    BY <1>2, <1>4, <1>5, <1>6, PoppedLeft
  <1> QED
    BY <1>7, <1>8 DEF Ends

LEMMA ReleaseEnds ==
  ASSUME TypeOK, Locals, HeadPresent, NEW w \in Workers, Release(w), ~Serial(mis[w])
  PROVE  Ends(w) /\ HeadPresent'
  <1>1. /\ pc \in [Threads -> WorkerLabels \cup PosterLabels]
        /\ tsk \in [Threads -> Entries \cup {None}]
        /\ mis \in [Threads -> Missions \cup {None}]
        /\ Workers \subseteq Threads /\ WorkerLocals(w)
    BY DEF TypeOK, Threads, Locals
  <1>2. /\ pc[w] = "rel" /\ pc' = [pc EXCEPT ![w] = "loop"]
        /\ tsk' = [tsk EXCEPT ![w] = None] /\ mis' = [mis EXCEPT ![w] = None]
        /\ UNCHANGED tasks
    BY DEF Release, Goto, missionVars
  <1>3. PICK m \in Missions : m = mis[w]
    BY <1>1, <1>2 DEF WorkerLocals
  <1>4. /\ pc'[w] = "loop" /\ tsk'[w] = None /\ tsk[w] \in Entries
        /\ \A v \in Workers \ {w} : pc'[v] = pc[v] /\ tsk'[v] = tsk[v] /\ mis'[v] = mis[v]
    BY <1>1, <1>2 DEF WorkerLocals
  <1>5. Exec[w] # None /\ Exec' = [Exec EXCEPT ![w] = None]
    BY <1>3, <1>4, TaskDropped
  <1>6. \A v \in Workers, k \in Missions : Takes(v, k)' <=> Takes(v, k)
    BY <1>2, <1>4 DEF Takes
  <1>7. \A k \in Missions : Left(k)' = Left(k)
    BY <1>2, <1>6 DEF Left, Taken
  <1>8. \A k \in Missions : Numbers(Left(k))' = Numbers(Left(k))
    BY <1>7 DEF Numbers
  <1>9. HeadPresent'
    BY <1>2, <1>6 DEF HeadPresent
  <1> QED
    BY <1>5, <1>8, <1>9 DEF Ends, Pending

(***************************************************************************)
(* The numbers of the tasks.                                               *)
(***************************************************************************)
LEMMA NumberedKept ==
  ASSUME TypeOK, Locals, Numbered, [Next]_vars
  PROVE  Numbered'
  <1>1. /\ hint \in [Posters -> Entries \cup {None}]
        /\ tsk \in [Threads -> Entries \cup {None}]
        /\ posts \in Nat /\ MaxPosts \in Nat
        /\ \A p \in Posters : p \in Threads /\ p \notin Workers
    BY ConstantsAssumption DEF TypeOK, Threads
  <1>2. ASSUME NEW p \in Posters, PopTask(p)
        PROVE  Numbered'
    <2>1. PICK o \in Objs : hint' = [hint EXCEPT ![p] = [obj |-> o, num |-> posts + 1]]
      BY <1>2 DEF PopTask, FreeObjs
    <2>2. posts < MaxPosts /\ posts' = posts + 1 /\ tsk' = tsk
      BY <1>2 DEF PopTask
    <2>3. posts + 1 \in 1..MaxPosts /\ posts' \in 0..MaxPosts
      BY <1>1, <2>2
    <2>4. hint'[p].num = posts + 1 /\ \A q \in Posters \ {p} : hint'[q] = hint[q]
      BY <1>1, <2>1
    <2> QED
      BY <2>2, <2>3, <2>4 DEF Numbered
  <1>3. ASSUME NEW p \in Posters, CloneTask(p)
        PROVE  Numbered'
    <2>1. /\ pc[p] = "clone" /\ UNCHANGED <<hint, posts>>
          /\ \E o \in Objs : tsk' = [tsk EXCEPT ![p] = [obj |-> o, num |-> hint[p].num]]
      <3>1. pc[p] = "clone" /\ UNCHANGED <<hint, posts>>
        BY <1>3 DEF CloneTask, Goto, posterVars
      <3>2. \/ tsk' = [tsk EXCEPT ![p] = hint[p]]
            \/ \E o \in FreeObjs : tsk' = [tsk EXCEPT ![p] = [obj |-> o, num |-> hint[p].num]]
        BY <1>3, Zenon DEF CloneTask
      <3>3. hint[p].obj \in Objs /\ hint[p] = [obj |-> hint[p].obj, num |-> hint[p].num]
        BY <3>1 DEF Locals, PosterLocals, Entries
      <3>4. CASE tsk' = [tsk EXCEPT ![p] = hint[p]]
        <4>1. tsk' = [tsk EXCEPT ![p] = [obj |-> hint[p].obj, num |-> hint[p].num]]
          BY <3>3, <3>4, Zenon
        <4> QED
          BY <3>1, <3>3, <4>1
      <3>5. CASE \E o \in FreeObjs : tsk' = [tsk EXCEPT ![p] = [obj |-> o, num |-> hint[p].num]]
        BY <3>1, <3>5 DEF FreeObjs
      <3> QED
        BY <3>2, <3>4, <3>5
    <2>2. hint[p] # None
      BY <2>1, ConstantsAssumption DEF Locals, PosterLocals
    <2>3. tsk'[p].num = hint[p].num /\ \A q \in Posters \ {p} : tsk'[q] = tsk[q]
      BY <1>1, <2>1
    <2> QED
      BY <2>1, <2>2, <2>3 DEF Numbered
  <1>4. ASSUME NEW p \in Posters, Poster(p), ~PopTask(p), ~CloneTask(p)
        PROVE  Numbered'
    <2>1. /\ posts' = posts
          /\ hint' = hint \/ hint' = [hint EXCEPT ![p] = None]
          /\ tsk' = tsk \/ tsk' = [tsk EXCEPT ![p] = None]
      BY <1>4 DEF Poster, NoSubscriber, WalkLock, Enqueue, StatLock, WakeIdle, WakeReady,
         SemPost, StatUnlock, objVars, posterVars
    <2>2. \A q \in Posters : hint'[q] \in {hint[q], None} /\ tsk'[q] \in {tsk[q], None}
      BY <1>1, <2>1
    <2> QED
      BY <2>1, <2>2 DEF Numbered
  <1>5. ASSUME NEW w \in Workers, Worker(w)
        PROVE  Numbered'
    <2>1. UNCHANGED <<posts, hint>>
      BY <1>5 DEF Worker, LoopTest, SemWait, SemTimeout, PopReady, FrontTask, FrontStop,
         ConcurrentPop, Operate, Release, SerialPop, SwitchLock, SwitchTest, SwitchReady,
         SwitchIdle, SwitchSem, SwitchUnlock, objVars, posterVars
    <2>2. \A q \in Posters : tsk'[q] = tsk[q]
      BY <1>1, <1>5 DEF Worker, LoopTest, SemWait, SemTimeout, PopReady, FrontTask, FrontStop,
         ConcurrentPop, Operate, Release, SerialPop, SwitchLock, SwitchTest, SwitchReady,
         SwitchIdle, SwitchSem, SwitchUnlock
    <2> QED
      BY <2>1, <2>2 DEF Numbered
  <1>6. ASSUME Owner \/ UNCHANGED vars
        PROVE  Numbered'
    <2>1. UNCHANGED <<posts, hint, tsk>>
      BY <1>6 DEF Owner, RunReturns, StopCalled, StopReturns, CreateWorker, objVars, posterVars,
         vars
    <2> QED
      BY <2>1 DEF Numbered
  <1> QED
    BY <1>2, <1>3, <1>4, <1>5, <1>6 DEF Next, Finished

(***************************************************************************)
(* Every step of the server is a step of MissionExec or a stutter.         *)
(***************************************************************************)
MissionStep ==
  \/ \E m \in Missions, n \in 1..MaxPosts : Submits(m, n)
  \/ \E w \in Workers, m \in Missions : Begins(w, m)
  \/ \E w \in Workers : Ends(w)
  \/ UNCHANGED <<Pending, Exec>>

LEMMA StepMaps ==
  ASSUME TypeOK, Locals, ScheduledOnce, MappingInv, [Next]_vars
  PROVE  MissionStep /\ HeadPresent'
  <1>1. ASSUME NEW p \in Posters, Poster(p)
        PROVE  MissionStep /\ HeadPresent'
    <2>1. CASE Enqueue(p)
      BY <2>1, EnqueueSubmits DEF MissionStep
    <2>2. CASE ~Enqueue(p)
      BY <1>1, <2>2, PosterFramed, FrameMaps DEF MissionStep, MappingInv
    <2> QED
      BY <2>1, <2>2
  <1>2. ASSUME NEW w \in Workers, Worker(w)
        PROVE  MissionStep /\ HeadPresent'
    <2>1. CASE FrontTask(w)
      BY <2>1, FrontTaskBegins DEF MissionStep
    <2>2. CASE ConcurrentPop(w)
      BY <2>2, ConcurrentPopStutters DEF MissionStep, MappingInv
    <2>3. CASE SerialPop(w)
      BY <2>3, SerialPopEnds DEF MissionStep, MappingInv
    <2>4. CASE Release(w) /\ ~Serial(mis[w])
      BY <2>4, ReleaseEnds DEF MissionStep, MappingInv
    <2>5. CASE /\ ~FrontTask(w) /\ ~ConcurrentPop(w) /\ ~SerialPop(w)
               /\ ~(Release(w) /\ ~Serial(mis[w]))
      BY <1>2, <2>5, WorkerFramed, FrameMaps DEF MissionStep, MappingInv
    <2> QED
      BY <2>1, <2>2, <2>3, <2>4, <2>5
  <1>3. ASSUME Owner \/ UNCHANGED vars
        PROVE  MissionStep /\ HeadPresent'
    BY <1>3, OwnerFramed, FrameMaps DEF MissionStep, MappingInv
  <1> QED
    BY <1>1, <1>2, <1>3 DEF Next, Finished

LEMMA InitMaps ==
  ASSUME Init
  PROVE  MappingInv /\ SpecOfMissions!Init
  <1>1. /\ tasks = [m \in Missions |-> <<>>] /\ tsk = [t \in Threads |-> None]
        /\ hint = [p \in Posters |-> None] /\ posts = 0
        /\ \A w \in Workers : pc[w] = "new"
    BY DEF Init, Threads
  <1>2. \A m \in Missions : ~Taken(m)
    BY <1>1 DEF Taken, Takes
  <1>3. MappingInv
    BY <1>1, <1>2, ConstantsAssumption DEF MappingInv, Numbered, HeadPresent, Taken, Threads
  <1>4. Pending = [m \in Missions |-> <<>>]
    <2>1. \A m \in Missions : Left(m) = <<>>
      BY <1>1, <1>2 DEF Left
    <2>2. Numbers(<<>>) = <<>>
      BY DEF Numbers
    <2> QED
      BY <2>1, <2>2 DEF Pending
  <1>5. Exec = [w \in Workers |-> None]
    BY <1>1 DEF Exec, Running, Threads
  <1> QED
    BY <1>3, <1>4, <1>5 DEF SpecOfMissions!Init, Pending, Exec, Running, Left, Taken, Takes,
       Numbers

\* The mapping is the one of TaskServer.
LEMMA MissionStepIsStep ==
  ASSUME MissionStep
  PROVE  [SpecOfMissions!Next]_SpecOfMissions!vars
  BY DEF MissionStep, Submits, Begins, Ends, SpecOfMissions!Next, SpecOfMissions!Submit,
     SpecOfMissions!Begin, SpecOfMissions!End, SpecOfMissions!Executing, SpecOfMissions!vars,
     Pending, Exec, Running, Left, Taken, Takes, Numbers

(***************************************************************************)
(* The task server keeps the promise of MissionExec: tasks are run in the  *)
(* order in which they reached a mission, each once, and those of a serial *)
(* mission one at a time (task.c:83-97, 99-153, 303-316; task.h:28-30).    *)
(***************************************************************************)
THEOREM ServerImplementsMissions == Spec => ImplementsMissionExec
  <1>1. Init => MappingInv /\ SpecOfMissions!Init
    BY InitMaps
  <1>2. TypeOK /\ Locals /\ ScheduledOnce /\ MappingInv /\ [Next]_vars => MappingInv'
    BY StepMaps, NumberedKept DEF MappingInv
  <1>3. TypeOK /\ Locals /\ ScheduledOnce /\ MappingInv /\ [Next]_vars
          => [SpecOfMissions!Next]_SpecOfMissions!vars
    BY StepMaps, MissionStepIsStep
  <1> QED
    BY <1>1, <1>2, <1>3, Typing, OneOwnerPerMission, PTL
    DEF Spec, ImplementsMissionExec, SpecOfMissions!Spec

(***************************************************************************)
(* References.  Whoever holds one keeps it in a slot: a place of a         *)
(* mission's queue, a worker's hands, a poster's hands.                    *)
(***************************************************************************)
Index == Nat \ {0}

Slots == (Missions \X Index) \cup (Workers \X {"popped"}) \cup (Posters \X {"hint", "clone"})

Contents == [Slots -> Entries \cup {None}]

\* The slots of H that hold object o.
Occupied(H, o) == {s \in Slots : H[s] # None /\ H[s].obj = o}

Counts(H, r) ==
  \A o \in Objs : IsFiniteSet(Occupied(H, o)) /\ r[o] = Cardinality(Occupied(H, o))

\* From r to q, object o is referenced once more.
Raised(r, q, o) ==
  /\ r \in [Objs -> Int] /\ q \in [Objs -> Int]
  /\ q[o] = r[o] + 1 /\ \A u \in Objs \ {o} : q[u] = r[u]

\* From H to G, e is put into the empty slot x.
Filled(H, G, x, e) ==
  /\ H \in Contents /\ G \in Contents /\ x \in Slots /\ e \in Entries
  /\ H[x] = None /\ G[x] = e /\ \A s \in Slots \ {x} : G[s] = H[s]

\* From H to G, e goes from slot x to the empty slot y.
Moved(H, G, x, y, e) ==
  /\ H \in Contents /\ G \in Contents /\ x \in Slots /\ y \in Slots /\ x # y /\ e \in Entries
  /\ H[x] = e /\ H[y] = None /\ G[x] = None /\ G[y] = e
  /\ \A s \in Slots \ {x, y} : G[s] = H[s]

\* From H to G, the queue of m loses its first place, which is empty.
MovedUp(H, G, m) ==
  /\ H \in Contents /\ G \in Contents /\ m \in Missions
  /\ H[<<m, 1>>] = None /\ \A i \in Index : G[<<m, i>>] = H[<<m, i + 1>>]
  /\ \A s \in Slots : s[1] # m => G[s] = H[s]

LEMMA FilledOccupies ==
  ASSUME NEW H, NEW G, NEW x, NEW e, Filled(H, G, x, e), NEW o \in Objs
  PROVE  /\ x \notin Occupied(H, o)
         /\ o = e.obj => /\ Occupied(G, o) = Occupied(H, o) \cup {x}
                         /\ Occupied(H, o) = Occupied(G, o) \ {x}
         /\ o # e.obj => Occupied(G, o) = Occupied(H, o)
  <1>1. e # None
    BY ConstantsAssumption DEF Filled
  <1> QED
    BY <1>1 DEF Filled, Occupied

LEMMA ReferenceTaken ==
  ASSUME NEW H, NEW G, NEW r, NEW q, NEW x, NEW e,
         Counts(H, r), Filled(H, G, x, e), Raised(r, q, e.obj)
  PROVE  Counts(G, q)
  <1> SUFFICES ASSUME NEW o \in Objs
               PROVE  IsFiniteSet(Occupied(G, o)) /\ q[o] = Cardinality(Occupied(G, o))
    BY DEF Counts
  <1>1. IsFiniteSet(Occupied(H, o)) /\ r[o] = Cardinality(Occupied(H, o))
    BY DEF Counts
  <1>2. CASE o = e.obj
    <2>1. Occupied(G, o) = Occupied(H, o) \cup {x} /\ x \notin Occupied(H, o)
      BY <1>2, FilledOccupies
    <2>2. /\ IsFiniteSet(Occupied(H, o) \cup {x})
          /\ Cardinality(Occupied(H, o) \cup {x}) = Cardinality(Occupied(H, o)) + 1
      BY <1>1, <2>1, FS_AddElement
    <2> QED
      BY <1>1, <1>2, <2>1, <2>2 DEF Raised
  <1>3. CASE o # e.obj
    BY <1>1, <1>3, FilledOccupies DEF Raised
  <1> QED
    BY <1>2, <1>3

LEMMA ReferenceDropped ==
  ASSUME NEW H, NEW G, NEW r, NEW q, NEW x, NEW e,
         Counts(H, r), Filled(G, H, x, e), Raised(q, r, e.obj)
  PROVE  Counts(G, q)
  <1> SUFFICES ASSUME NEW o \in Objs
               PROVE  IsFiniteSet(Occupied(G, o)) /\ q[o] = Cardinality(Occupied(G, o))
    BY DEF Counts
  <1>1. IsFiniteSet(Occupied(H, o)) /\ r[o] = Cardinality(Occupied(H, o))
    BY DEF Counts
  <1>2. CASE o = e.obj
    <2>1. Occupied(G, o) = Occupied(H, o) \ {x} /\ x \in Occupied(H, o)
      BY <1>2, FilledOccupies
    <2>2. /\ IsFiniteSet(Occupied(H, o) \ {x})
          /\ Cardinality(Occupied(H, o) \ {x}) = Cardinality(Occupied(H, o)) - 1
      BY <1>1, <2>1, FS_RemoveElement
    <2>3. q[o] \in Int /\ r[o] = q[o] + 1
      BY <1>2 DEF Raised
    <2> QED
      BY <1>1, <2>1, <2>2, <2>3
  <1>3. CASE o # e.obj
    BY <1>1, <1>3, FilledOccupies DEF Raised
  <1> QED
    BY <1>2, <1>3

LEMMA ReferenceMoved ==
  ASSUME NEW H, NEW G, NEW r \in [Objs -> Int], NEW x, NEW y, NEW e,
         Counts(H, r), Moved(H, G, x, y, e)
  PROVE  Counts(G, r)
  <1> DEFINE K == [H EXCEPT ![x] = None]
             q == [r EXCEPT ![e.obj] = @ - 1]
  <1>1. e.obj \in Objs
    BY DEF Moved, Entries
  <1>2. Filled(K, H, x, e) /\ Filled(K, G, y, e)
    BY DEF Moved, Filled, Contents
  <1>3. Raised(q, r, e.obj)
    BY <1>1 DEF Raised
  <1> HIDE DEF K, q
  <1>4. Counts(K, q)
    BY <1>2, <1>3, ReferenceDropped
  <1> QED
    BY <1>2, <1>3, <1>4, ReferenceTaken

\* The slots that hold o move up with their queue.
LEMMA QueueMovesUp ==
  ASSUME NEW H, NEW G, NEW r, NEW m, Counts(H, r), MovedUp(H, G, m)
  PROVE  Counts(G, r)
  <1> SUFFICES ASSUME NEW o \in Objs
               PROVE  IsFiniteSet(Occupied(G, o)) /\ r[o] = Cardinality(Occupied(G, o))
    BY DEF Counts
  <1> DEFINE S == Occupied(H, o)
             T == Occupied(G, o)
             f == [s \in S |-> IF s[1] = m THEN <<m, s[2] - 1>> ELSE s]
  <1>0. /\ m \in Missions /\ H[<<m, 1>>] = None
        /\ \A i \in Index : G[<<m, i>>] = H[<<m, i + 1>>]
        /\ \A s \in Slots : s[1] # m => G[s] = H[s]
    BY DEF MovedUp
  <1>1. \A s \in Slots : s[1] = m => s = <<m, s[2]>> /\ s[2] \in Index
    BY <1>0, ConstantsAssumption DEF Slots, Threads
  <1>2. \A i \in Index : <<m, i>> \in Slots /\ i + 1 \in Index
    BY <1>0 DEF Slots, Index
  <1>3. ASSUME NEW s \in S, s[1] = m
        PROVE  s[2] - 1 \in Index /\ s = <<m, (s[2] - 1) + 1>>
    <2>1. s \in Slots /\ H[s] # None /\ s = <<m, s[2]>> /\ s[2] \in Index
      BY <1>1, <1>3 DEF Occupied
    <2>2. s[2] # 1
      BY <1>0, <2>1
    <2> QED
      BY <2>1, <2>2 DEF Index
  <1>4. ASSUME NEW s \in S
        PROVE  f[s] \in T
    <2>1. CASE s[1] = m
      <3>1. f[s] = <<m, s[2] - 1>> /\ s[2] - 1 \in Index /\ s = <<m, (s[2] - 1) + 1>>
        BY <1>3, <2>1
      <3>2. G[f[s]] = H[s]
        BY <1>0, <3>1
      <3> QED
        BY <1>2, <3>1, <3>2 DEF Occupied
    <2>2. CASE s[1] # m
      BY <1>0, <2>2 DEF Occupied
    <2> QED
      BY <2>1, <2>2
  <1>5. ASSUME NEW s \in S, NEW t \in S, f[s] = f[t]
        PROVE  s = t
    <2>1. CASE s[1] = m /\ t[1] = m
      <3>1. s[2] - 1 = t[2] - 1
        BY <1>5, <2>1
      <3> QED
        BY <1>3, <2>1, <3>1
    <2>2. CASE ~(s[1] = m /\ t[1] = m)
      BY <1>5, <2>2
    <2> QED
      BY <2>1, <2>2
  <1>6. ASSUME NEW t \in T
        PROVE  \E s \in S : f[s] = t
    <2>1. t \in Slots /\ G[t] # None /\ G[t].obj = o
      BY DEF Occupied
    <2>2. CASE t[1] = m
      <3>1. t = <<m, t[2]>> /\ t[2] \in Index
        BY <1>1, <2>1, <2>2
      <3> DEFINE s == <<m, t[2] + 1>>
      <3>2. s \in Slots /\ H[s] = G[t] /\ s[1] = m /\ s[2] - 1 = t[2]
        BY <1>0, <1>2, <3>1 DEF Index
      <3>3. s \in S
        BY <2>1, <3>2 DEF Occupied
      <3> QED
        BY <3>1, <3>2, <3>3
    <2>3. CASE t[1] # m
      BY <1>0, <2>1, <2>3 DEF Occupied
    <2> QED
      BY <2>2, <2>3
  <1>7. ExistsBijection(S, T)
    <2>1. f \in [S -> T]
      BY <1>4
    <2> HIDE DEF S, T, f
    <2>2. f \in Bijection(S, T)
      BY <1>5, <1>6, <2>1, Fun_IsBij
    <2> QED
      BY <2>2 DEF ExistsBijection
  <1>8. IsFiniteSet(S) /\ r[o] = Cardinality(S)
    BY DEF Counts
  <1> HIDE DEF S, T
  <1>9. IsFiniteSet(T) /\ Cardinality(T) = Cardinality(S)
    BY <1>7, <1>8, FS_Bijection
  <1> QED
    BY <1>8, <1>9 DEF T

(***************************************************************************)
(* The objects agree with the slots: each is referenced once for every     *)
(* slot that holds it, and what the slots hold is what was posted.         *)
(***************************************************************************)
\* Entry e finds in the objects d what was posted under its number.
IntactIn(e, d) == d[e.obj] # None /\ d[e.obj].num = e.num

Intact(H, d) == \A s \in Slots : H[s] # None => IntactIn(H[s], d)

Agree(H, r, d) == H \in Contents /\ r \in [Objs -> Int] /\ Counts(H, r) /\ Intact(H, d)

\* The object of a slot has a reference, and no other slot holds it if it has one only.
LEMMA OccupiedReferenced ==
  ASSUME NEW H \in Contents, NEW r, Counts(H, r), NEW x \in Slots, H[x] # None
  PROVE  /\ H[x].obj \in Objs /\ r[H[x].obj] # 0
         /\ r[H[x].obj] = 1 => \A s \in Slots \ {x} : H[s] # None => H[s].obj # H[x].obj
  <1> DEFINE o == H[x].obj
  <1>1. o \in Objs
    BY DEF Contents, Entries
  <1>2. IsFiniteSet(Occupied(H, o)) /\ r[o] = Cardinality(Occupied(H, o))
    BY <1>1 DEF Counts
  <1>3. x \in Occupied(H, o)
    BY DEF Occupied
  <1>4. r[o] # 0
    BY <1>2, <1>3, FS_EmptySet
  <1>5. ASSUME r[o] = 1
        PROVE  \A s \in Slots \ {x} : H[s] # None => H[s].obj # o
    <2>1. PICK t : Occupied(H, o) = {t}
      BY <1>2, <1>5, FS_Singleton
    <2> QED
      BY <1>3, <2>1 DEF Occupied
  <1> QED
    BY <1>1, <1>4, <1>5

LEMMA TakenAgrees ==
  ASSUME NEW H, NEW G, NEW r, NEW d, NEW q, NEW b, NEW x, NEW e, Agree(H, r, d),
         Filled(H, G, x, e), Raised(r, q, e.obj), IntactIn(e, b),
         \A o \in Objs : r[o] # 0 => b[o] = d[o]
  PROVE  Agree(G, q, b)
  <1>1. Counts(G, q)
    BY ReferenceTaken DEF Agree
  <1>2. q \in [Objs -> Int] /\ G \in Contents
    BY DEF Raised, Filled
  <1>3. ASSUME NEW s \in Slots, G[s] # None
        PROVE  IntactIn(G[s], b)
    <2>1. CASE s = x
      BY <2>1 DEF Filled
    <2>2. CASE s # x
      <3>1. H[s] # None /\ G[s] = H[s]
        BY <1>3, <2>2 DEF Filled
      <3>2. b[H[s].obj] = d[H[s].obj]
        BY <3>1, OccupiedReferenced DEF Agree
      <3> QED
        BY <3>1, <3>2 DEF Agree, Intact, IntactIn
    <2> QED
      BY <2>1, <2>2
  <1> QED
    BY <1>1, <1>2, <1>3 DEF Agree, Intact

LEMMA DroppedAgrees ==
  ASSUME NEW H, NEW G, NEW r, NEW d, NEW q, NEW b, NEW x, NEW e, Agree(H, r, d),
         Filled(G, H, x, e), Raised(q, r, e.obj),
         \A o \in Objs : o # e.obj \/ r[o] # 1 => b[o] = d[o]
  PROVE  Agree(G, q, b)
  <1>1. Counts(G, q)
    BY ReferenceDropped DEF Agree
  <1>2. e # None
    BY ConstantsAssumption DEF Filled
  <1>3. q \in [Objs -> Int] /\ G \in Contents
    BY DEF Raised, Filled
  <1>4. ASSUME NEW s \in Slots, G[s] # None
        PROVE  IntactIn(G[s], b)
    <2>1. s # x /\ x \in Slots /\ H[x] = e /\ H[s] # None /\ G[s] = H[s]
      BY <1>4 DEF Filled
    <2>2. H[s].obj \in Objs /\ (r[e.obj] = 1 => H[s].obj # e.obj)
      BY <1>2, <2>1, OccupiedReferenced DEF Agree
    <2>3. b[H[s].obj] = d[H[s].obj]
      BY <2>2
    <2> QED
      BY <2>1, <2>3 DEF Agree, Intact, IntactIn
  <1> QED
    BY <1>1, <1>3, <1>4 DEF Agree, Intact

LEMMA MovedAgrees ==
  ASSUME NEW H, NEW G, NEW r, NEW d, NEW x, NEW y, NEW e, Agree(H, r, d), Moved(H, G, x, y, e)
  PROVE  Agree(G, r, d)
  <1>1. Counts(G, r)
    BY ReferenceMoved DEF Agree
  <1>2. \A s \in Slots : G[s] # None => \E t \in Slots : H[t] = G[s]
    BY DEF Moved
  <1> QED
    BY <1>1, <1>2 DEF Agree, Moved, Intact

LEMMA MovedUpAgrees ==
  ASSUME NEW H, NEW G, NEW r, NEW d, NEW m, Agree(H, r, d), MovedUp(H, G, m)
  PROVE  Agree(G, r, d)
  <1>1. Counts(G, r)
    BY QueueMovesUp DEF Agree
  <1>2. ASSUME NEW s \in Slots, G[s] # None
        PROVE  \E t \in Slots : H[t] = G[s]
    <2>1. CASE s[1] # m
      BY <2>1 DEF MovedUp
    <2>2. CASE s[1] = m
      <3>1. m \in Missions
        BY DEF MovedUp
      <3>2. s = <<m, s[2]>> /\ s[2] \in Index
        BY <2>2, <3>1, ConstantsAssumption DEF Slots, Threads
      <3>3. <<m, s[2] + 1>> \in Slots
        BY <3>1, <3>2 DEF Slots, Index
      <3> QED
        BY <3>2, <3>3 DEF MovedUp
    <2> QED
      BY <2>1, <2>2
  <1> QED
    BY <1>1, <1>2 DEF Agree, MovedUp, Intact

(***************************************************************************)
(* The slots of the server.                                                *)
(***************************************************************************)
InQueue(m, i) == IF i \in Queued(m) THEN tasks[m][i] ELSE None
Popped(w) == IF HoldsPopped(w) THEN tsk[w] ELSE None
Hinted(p) == IF HoldsHint(p) THEN hint[p] ELSE None

HeldIn(s) ==
  IF s[1] \in Missions THEN InQueue(s[1], s[2])
  ELSE IF s[1] \in Workers THEN Popped(s[1])
  ELSE IF s[2] = "hint" THEN Hinted(s[1]) ELSE tsk[s[1]]

Held == [s \in Slots |-> HeldIn(s)]

LEMMA SlotKinds ==
  ASSUME NEW s \in Slots
  PROVE  \/ \E m \in Missions, i \in Index : s = <<m, i>>
         \/ \E w \in Workers : s = <<w, "popped">>
         \/ \E p \in Posters : s = <<p, "hint">> \/ s = <<p, "clone">>
  BY DEF Slots

LEMMA HeldAt ==
  /\ \A m \in Missions, i \in Index :
       /\ <<m, i>> \in Slots
       /\ Held[<<m, i>>] = InQueue(m, i) /\ Held'[<<m, i>>] = InQueue(m, i)'
  /\ \A w \in Workers :
       /\ <<w, "popped">> \in Slots
       /\ Held[<<w, "popped">>] = Popped(w) /\ Held'[<<w, "popped">>] = Popped(w)'
  /\ \A p \in Posters :
       /\ <<p, "hint">> \in Slots /\ <<p, "clone">> \in Slots
       /\ Held[<<p, "hint">>] = Hinted(p) /\ Held'[<<p, "hint">>] = Hinted(p)'
       /\ Held[<<p, "clone">>] = tsk[p] /\ Held'[<<p, "clone">>] = tsk'[p]
  <1>1. ASSUME NEW m \in Missions, NEW i \in Index
        PROVE  /\ <<m, i>> \in Slots
               /\ Held[<<m, i>>] = InQueue(m, i) /\ Held'[<<m, i>>] = InQueue(m, i)'
    BY DEF Slots, Held, HeldIn
  <1>2. ASSUME NEW w \in Workers
        PROVE  /\ <<w, "popped">> \in Slots
               /\ Held[<<w, "popped">>] = Popped(w) /\ Held'[<<w, "popped">>] = Popped(w)'
    <2>1. w \notin Missions
      BY ConstantsAssumption DEF Threads
    <2> QED
      BY <2>1 DEF Slots, Held, HeldIn
  <1>3. ASSUME NEW p \in Posters
        PROVE  /\ <<p, "hint">> \in Slots /\ <<p, "clone">> \in Slots
               /\ Held[<<p, "hint">>] = Hinted(p) /\ Held'[<<p, "hint">>] = Hinted(p)'
               /\ Held[<<p, "clone">>] = tsk[p] /\ Held'[<<p, "clone">>] = tsk'[p]
    <2>1. p \notin Missions /\ p \notin Workers
      BY ConstantsAssumption DEF Threads
    <2> QED
      BY <2>1 DEF Slots, Held, HeldIn
  <1> QED
    BY <1>1, <1>2, <1>3

LEMMA QueuedTyped ==
  ASSUME tasks \in [Missions -> Seq(Entries)], NEW m \in Missions, NEW i \in Queued(m)
  PROVE  i \in 1..Len(tasks[m]) /\ i \in Index /\ tasks[m][i] \in Entries
  <1>1. tasks[m] \in Seq(Entries)
    OBVIOUS
  <1>2. Len(tasks[m]) \in Nat /\ DOMAIN tasks[m] = 1..Len(tasks[m])
    BY <1>1, LenProperties
  <1>3. i \in 1..Len(tasks[m])
    BY <1>2 DEF Queued
  <1> QED
    BY <1>1, <1>2, <1>3, ElementOfSeq DEF Index

LEMMA HeldTyped == TypeOK => Held \in Contents
  <1> SUFFICES ASSUME TypeOK, NEW s \in Slots
               PROVE  HeldIn(s) \in Entries \cup {None}
    BY DEF Held, Contents
  <1>1. /\ tasks \in [Missions -> Seq(Entries)] /\ tsk \in [Threads -> Entries \cup {None}]
        /\ hint \in [Posters -> Entries \cup {None}]
    BY DEF TypeOK
  <1>2. \A m \in Missions, i \in Index : InQueue(m, i) \in Entries \cup {None}
    BY <1>1, QueuedTyped DEF InQueue
  <1>3. \A w \in Workers : Popped(w) \in Entries \cup {None}
    BY <1>1 DEF Popped, Threads
  <1>4. \A p \in Posters : Hinted(p) \in Entries \cup {None} /\ tsk[p] \in Entries \cup {None}
    BY <1>1 DEF Hinted, Threads
  <1>5. HeldIn(s) = Held[s]
    BY DEF Held
  <1>6. CASE \E m \in Missions, i \in Index : s = <<m, i>>
    BY <1>2, <1>5, <1>6, HeldAt
  <1>7. CASE \E w \in Workers : s = <<w, "popped">>
    BY <1>3, <1>5, <1>7, HeldAt
  <1>8. CASE \E p \in Posters : s = <<p, "hint">> \/ s = <<p, "clone">>
    <2>1. PICK p \in Posters : s = <<p, "hint">> \/ s = <<p, "clone">>
      BY <1>8
    <2>2. Held[<<p, "hint">>] = Hinted(p) /\ Held[<<p, "clone">>] = tsk[p]
      BY HeldAt
    <2> QED
      BY <1>4, <1>5, <2>1, <2>2
  <1> QED
    BY <1>6, <1>7, <1>8, SlotKinds

\* A step changes the slots of X only.
LEMMA OthersKept ==
  ASSUME NEW X,
         \A m \in Missions, i \in Index : <<m, i>> \notin X => InQueue(m, i)' = InQueue(m, i),
         \A w \in Workers : <<w, "popped">> \notin X => Popped(w)' = Popped(w),
         \A p \in Posters : /\ <<p, "hint">> \notin X => Hinted(p)' = Hinted(p)
                            /\ <<p, "clone">> \notin X => tsk'[p] = tsk[p]
  PROVE  \A s \in Slots \ X : Held'[s] = Held[s]
  <1> SUFFICES ASSUME NEW s \in Slots \ X
               PROVE  Held'[s] = Held[s]
    OBVIOUS
  <1>1. CASE \E m \in Missions, i \in Index : s = <<m, i>>
    BY <1>1, HeldAt
  <1>2. CASE \E w \in Workers : s = <<w, "popped">>
    BY <1>2, HeldAt
  <1>3. CASE \E p \in Posters : s = <<p, "hint">> \/ s = <<p, "clone">>
    BY <1>3, HeldAt
  <1> QED
    BY <1>1, <1>2, <1>3, SlotKinds

(***************************************************************************)
(* The invariant.  Hands: what a poster holds when it is between two       *)
(* calls.  HeadTaken: the task a worker has taken is the first one of the  *)
(* queue it took it from.                                                  *)
(***************************************************************************)
Hands ==
  \A p \in Posters : /\ pc[p] = "idle" => hint[p] = None
                     /\ pc[p] # "enq" => tsk[p] = None

HeadTaken ==
  \A w \in Workers, m \in Missions : Takes(w, m) => tsk[w] = tasks[m][1]

Accounted == Agree(Held, ref, data)

\* A clone is asked for only when it can be had.
ClonesSucceed ==
  \A p \in Posters :
    pc[p] = "clone" /\ FreeObjs = {}
      => Len(rest[p]) = 1 \/ CloneMode[data[hint[p].obj].type] = "REF"

(***************************************************************************)
(* A poster's steps.                                                       *)
(***************************************************************************)
\* A poster's step touches no other thread.
LEMMA PosterOthers ==
  ASSUME TypeOK, NEW p \in Posters, Poster(p)
  PROVE  /\ \A t \in Threads \ {p} : pc'[t] = pc[t] /\ mis'[t] = mis[t] /\ tsk'[t] = tsk[t]
         /\ \A q \in Posters \ {p} : hint'[q] = hint[q] /\ rest'[q] = rest[q]
  <1>1. /\ pc \in [Threads -> WorkerLabels \cup PosterLabels]
        /\ mis \in [Threads -> Missions \cup {None}]
        /\ tsk \in [Threads -> Entries \cup {None}]
        /\ hint \in [Posters -> Entries \cup {None}]
        /\ rest \in [Posters -> Seq(Missions)]
    BY DEF TypeOK
  <1>2. \A t \in Threads \ {p} : pc'[t] = pc[t]
    BY <1>1 DEF Poster, PopTask, NoSubscriber, WalkLock, CloneTask, Enqueue, StatLock, WakeIdle,
       WakeReady, SemPost, StatUnlock, Goto
  <1>3. \A t \in Threads \ {p} : mis'[t] = mis[t]
    BY <1>1 DEF Poster, PopTask, NoSubscriber, WalkLock, CloneTask, Enqueue, StatLock, WakeIdle,
       WakeReady, SemPost, StatUnlock
  <1>4. \A t \in Threads \ {p} : tsk'[t] = tsk[t]
    <2>1. CASE CloneTask(p)
      BY <1>1, <2>1 DEF CloneTask
    <2>2. CASE ~CloneTask(p)
      BY <1>1, <2>2 DEF Poster, PopTask, NoSubscriber, WalkLock, Enqueue, StatLock, WakeIdle,
         WakeReady, SemPost, StatUnlock
    <2> QED
      BY <2>1, <2>2
  <1>5. \A q \in Posters \ {p} : hint'[q] = hint[q] /\ rest'[q] = rest[q]
    <2>1. CASE PopTask(p)
      BY <1>1, <2>1 DEF PopTask
    <2>2. CASE StatUnlock(p)
      BY <1>1, <2>2 DEF StatUnlock
    <2>3. CASE ~PopTask(p) /\ ~StatUnlock(p)
      BY <1>1, <2>3 DEF Poster, NoSubscriber, WalkLock, CloneTask, Enqueue, StatLock, WakeIdle,
         WakeReady, SemPost, posterVars
    <2> QED
      BY <2>1, <2>2, <2>3
  <1> QED
    BY <1>2, <1>3, <1>4, <1>5

\* A poster's step touches no worker and, but for Enqueue, no queue.
LEMMA PosterSlots ==
  ASSUME TypeOK, NEW p \in Posters, Poster(p)
  PROVE  /\ \A m \in Missions : HeadReleased(m)' <=> HeadReleased(m)
         /\ \A w \in Workers : Popped(w)' = Popped(w)
         /\ \A q \in Posters \ {p} : Hinted(q)' = Hinted(q) /\ tsk'[q] = tsk[q]
         /\ ~Enqueue(p) => \A m \in Missions, i \in Index : InQueue(m, i)' = InQueue(m, i)
  <1>1. \A w \in Workers : w \in Threads \ {p}
    BY ConstantsAssumption DEF Threads
  <1>2. \A m \in Missions : HeadReleased(m)' <=> HeadReleased(m)
    BY <1>1, PosterOthers DEF HeadReleased
  <1>3. \A w \in Workers : Popped(w)' = Popped(w)
    BY <1>1, PosterOthers DEF Popped, HoldsPopped
  <1>4. \A q \in Posters \ {p} : Hinted(q)' = Hinted(q) /\ tsk'[q] = tsk[q]
    BY PosterOthers DEF Hinted, HoldsHint, Threads
  <1>5. ASSUME ~Enqueue(p), NEW m \in Missions, NEW i \in Index
        PROVE  InQueue(m, i)' = InQueue(m, i)
    <2>1. tasks' = tasks
      BY <1>5 DEF Poster, PopTask, NoSubscriber, WalkLock, CloneTask, StatLock, WakeIdle,
         WakeReady, SemPost, StatUnlock, missionVars
    <2>2. Queued(m)' = Queued(m)
      BY <1>2, <2>1 DEF Queued
    <2> QED
      BY <2>1, <2>2 DEF InQueue
  <1> QED
    BY <1>2, <1>3, <1>4, <1>5

LEMMA PosterKeeps ==
  ASSUME TypeOK, NEW p \in Posters, Poster(p), ~Enqueue(p)
  PROVE  \A s \in Slots \ {<<p, "hint">>, <<p, "clone">>} : Held'[s] = Held[s]
  <1>1. /\ \A m \in Missions, i \in Index : InQueue(m, i)' = InQueue(m, i)
        /\ \A w \in Workers : Popped(w)' = Popped(w)
        /\ \A q \in Posters \ {p} : Hinted(q)' = Hinted(q) /\ tsk'[q] = tsk[q]
    BY PosterSlots
  <1>2. \A q \in Posters : (<<q, "hint">> \notin {<<p, "hint">>, <<p, "clone">>} => q # p)
                        /\ (<<q, "clone">> \notin {<<p, "hint">>, <<p, "clone">>} => q # p)
    OBVIOUS
  <1> QED
    BY <1>1, <1>2, OthersKept

LEMMA ReferencesKept ==
  ASSUME Accounted, UNCHANGED <<ref, data>>, Held' \in Contents,
         \A s \in Slots : Held'[s] = Held[s]
  PROVE  Accounted'
  <1>1. Held' = Held
    BY DEF Contents, Accounted, Agree
  <1> QED
    BY <1>1 DEF Accounted

LEMMA PopTaskAccounted ==
  ASSUME TypeOK, Hands, Accounted, Held' \in Contents, NEW p \in Posters, PopTask(p)
  PROVE  Accounted'
  <1>1. PICK o \in Objs, t \in Types :
          /\ ref[o] = 0 /\ ref' = [ref EXCEPT ![o] = 1]
          /\ data' = [data EXCEPT ![o] = [type |-> t, num |-> posts + 1]]
          /\ hint' = [hint EXCEPT ![p] = [obj |-> o, num |-> posts + 1]]
    BY DEF PopTask, FreeObjs
  <1> DEFINE e == [obj |-> o, num |-> posts + 1]
             c == [type |-> t, num |-> posts + 1]
             x == <<p, "hint">>
  <1>2. /\ pc \in [Threads -> WorkerLabels \cup PosterLabels] /\ p \in Threads
        /\ hint \in [Posters -> Entries \cup {None}] /\ posts \in Nat
        /\ ref \in [Objs -> Int] /\ data \in [Objs -> [type : Types, num : Nat] \cup {None}]
    BY DEF TypeOK, Threads
  <1>3. e \in Entries /\ e # None /\ e.obj = o /\ c # None /\ c.num = e.num
    <2>1. e \in Entries /\ c \in [type : Types, num : Nat]
      BY <1>2 DEF Entries
    <2> QED
      BY <2>1, ConstantsAssumption
  <1>4. pc[p] = "idle" /\ pc'[p] = "post" /\ tsk' = tsk
    BY <1>2 DEF PopTask, Goto
  <1>5. hint[p] = None /\ hint'[p] = e
    BY <1>1, <1>2, <1>4 DEF Hands
  <1>6. x \in Slots /\ Held[x] = None /\ Held'[x] = e
    BY <1>3, <1>4, <1>5, HeldAt DEF Hinted, HoldsHint
  <1>7. Held'[<<p, "clone">>] = Held[<<p, "clone">>]
    BY <1>4, HeldAt
  <1>8. \A s \in Slots \ {x} : Held'[s] = Held[s]
    BY <1>7, PosterKeeps DEF Poster, PopTask, Enqueue, Goto
  <1>9. Raised(ref, ref', e.obj)
    BY <1>1, <1>2, <1>3 DEF Raised
  <1>10. IntactIn(e, data') /\ \A u \in Objs : ref[u] # 0 => data'[u] = data[u]
    BY <1>1, <1>2, <1>3 DEF IntactIn
  <1> HIDE DEF e, c, x
  <1>11. Agree(Held, ref, data) /\ Filled(Held, Held', x, e)
    BY <1>3, <1>6, <1>8 DEF Accounted, Agree, Filled
  <1> QED
    BY <1>9, <1>10, <1>11, TakenAgrees DEF Accounted

LEMMA NoSubscriberAccounted ==
  ASSUME TypeOK, Locals, Accounted, Held' \in Contents, NEW p \in Posters, NoSubscriber(p)
  PROVE  Accounted'
  <1> DEFINE e == hint[p]
             x == <<p, "hint">>
  <1>1. /\ pc \in [Threads -> WorkerLabels \cup PosterLabels] /\ p \in Threads
        /\ hint \in [Posters -> Entries \cup {None}]
        /\ ref \in [Objs -> Int] /\ data \in [Objs -> [type : Types, num : Nat] \cup {None}]
    BY DEF TypeOK, Threads
  <1>2. /\ pc[p] = "post" /\ tsk' = tsk /\ hint'[p] = None
        /\ ref' = [ref EXCEPT ![e.obj] = @ - 1]
        /\ data' = [data EXCEPT ![e.obj] = IF ref[e.obj] = 1 THEN None ELSE @]
    BY <1>1 DEF NoSubscriber, Goto, ReleaseObj
  <1>3. e \in Entries /\ e # None
    BY <1>2, ConstantsAssumption DEF Locals, PosterLocals
  <1>4. x \in Slots /\ Held[x] = e /\ Held'[x] = None
    BY <1>2, <1>3, HeldAt DEF Hinted, HoldsHint
  <1>5. Held'[<<p, "clone">>] = Held[<<p, "clone">>]
    BY <1>2, HeldAt
  <1>6. \A s \in Slots \ {x} : Held'[s] = Held[s]
    BY <1>5, PosterKeeps DEF Poster, NoSubscriber, Enqueue, Goto
  <1>7. \A o \in Objs : o # e.obj \/ ref[o] # 1 => data'[o] = data[o]
    BY <1>1, <1>2
  <1>8. Raised(ref', ref, e.obj)
    BY <1>1, <1>2, <1>3 DEF Raised, Entries
  <1> HIDE DEF e, x
  <1>9. Agree(Held, ref, data) /\ Filled(Held', Held, x, e)
    BY <1>3, <1>4, <1>6 DEF Accounted, Agree, Filled
  <1> QED
    BY <1>7, <1>8, <1>9, DroppedAgrees DEF Accounted

LEMMA CloneTaskAccounted ==
  ASSUME TypeOK, Locals, Hands, ClonesSucceed, Accounted, Held' \in Contents,
         NEW p \in Posters, CloneTask(p)
  PROVE  Accounted'
  <1> DEFINE e == hint[p]
             x == <<p, "hint">>
             y == <<p, "clone">>
  <1>1. /\ pc \in [Threads -> WorkerLabels \cup PosterLabels] /\ p \in Threads
        /\ hint \in [Posters -> Entries \cup {None}]
        /\ tsk \in [Threads -> Entries \cup {None}]
        /\ rest \in [Posters -> Seq(Missions)]
        /\ ref \in [Objs -> Int] /\ data \in [Objs -> [type : Types, num : Nat] \cup {None}]
    BY DEF TypeOK, Threads
  <1>2. pc[p] = "clone" /\ pc'[p] = "enq" /\ hint' = hint /\ rest' = rest
    BY <1>1 DEF CloneTask, Goto, posterVars
  <1>3. e \in Entries /\ e # None /\ data[e.obj] # None
    BY <1>2, ConstantsAssumption DEF Locals, PosterLocals, CloneTask
  <1>4. x \in Slots /\ y \in Slots /\ Held[x] = e /\ Held[y] = None
    BY <1>2, <1>3, HeldAt DEF Hinted, HoldsHint, Hands
  <1>5. \A s \in Slots \ {x, y} : Held'[s] = Held[s]
    BY PosterKeeps DEF Poster, CloneTask, Enqueue, Goto
  <1>6. Agree(Held, ref, data) /\ Held \in Contents
    BY DEF Accounted, Agree
  <1>7. /\ Held'[x] = Hinted(p)' /\ Held'[y] = tsk'[p]
        /\ Hinted(p)' = IF Len(rest[p]) > 1 THEN e ELSE None
    <2>1. HoldsHint(p)' <=> Len(rest[p]) > 1
      BY <1>2, <1>3 DEF HoldsHint
    <2> QED
      BY <1>2, <2>1, HeldAt DEF Hinted
  <1>8. x # y
    OBVIOUS
  <1> HIDE DEF x, y
  <1>9. CASE Len(rest[p]) = 1 /\ tsk' = [tsk EXCEPT ![p] = e] /\ UNCHANGED <<ref, data>>
    <2>1. Held'[x] = None /\ Held'[y] = e
      BY <1>1, <1>7, <1>9
    <2>2. Moved(Held, Held', x, y, e)
      BY <1>3, <1>4, <1>5, <1>6, <1>8, <2>1 DEF Moved
    <2> QED
      BY <1>6, <1>9, <2>2, MovedAgrees DEF Accounted
  <1>10. CASE /\ Len(rest[p]) > 1 /\ tsk' = [tsk EXCEPT ![p] = e]
              /\ ref' = [ref EXCEPT ![e.obj] = @ + 1] /\ data' = data
    <2>1. Held'[x] = Held[x] /\ Held'[y] = e
      BY <1>1, <1>4, <1>7, <1>10
    <2>2. Filled(Held, Held', y, e)
      BY <1>3, <1>4, <1>5, <1>6, <2>1 DEF Filled
    <2>3. IntactIn(e, data')
      BY <1>3, <1>4, <1>6, <1>10 DEF Agree, Intact
    <2>4. Raised(ref, ref', e.obj)
      BY <1>1, <1>3, <1>10 DEF Raised, Entries
    <2> HIDE DEF e
    <2> QED
      BY <1>6, <1>10, <2>2, <2>3, <2>4, TakenAgrees DEF Accounted
  <1>11. CASE Len(rest[p]) > 1 /\ \E o \in FreeObjs :
                 /\ ref' = [ref EXCEPT ![o] = 1]
                 /\ data' = [data EXCEPT ![o] = data[e.obj]]
                 /\ tsk' = [tsk EXCEPT ![p] = [obj |-> o, num |-> e.num]]
    <2>1. PICK o \in Objs : /\ ref[o] = 0 /\ ref' = [ref EXCEPT ![o] = 1]
                            /\ data' = [data EXCEPT ![o] = data[e.obj]]
                            /\ tsk' = [tsk EXCEPT ![p] = [obj |-> o, num |-> e.num]]
      BY <1>11 DEF FreeObjs
    <2> DEFINE b == [obj |-> o, num |-> e.num]
    <2>2. b \in Entries /\ b.obj = o /\ b.num = e.num
      BY <1>3 DEF Entries
    <2>3. data[e.obj].num = e.num
      BY <1>3, <1>4, <1>6 DEF Agree, Intact, IntactIn
    <2>4. Held'[x] = Held[x] /\ Held'[y] = b
      BY <1>1, <1>4, <1>7, <1>11, <2>1
    <2>5. Filled(Held, Held', y, b)
      BY <1>4, <1>5, <1>6, <2>2, <2>4 DEF Filled
    <2>6. Raised(ref, ref', b.obj)
      BY <1>1, <2>1, <2>2 DEF Raised
    <2>7. IntactIn(b, data') /\ \A u \in Objs : ref[u] # 0 => data'[u] = data[u]
      BY <1>1, <1>3, <2>1, <2>2, <2>3 DEF IntactIn
    <2> HIDE DEF b
    <2> QED
      BY <1>6, <2>5, <2>6, <2>7, TakenAgrees DEF Accounted
  <1>12. CASE Len(rest[p]) > 1 /\ CloneMode[data[e.obj].type] # "REF" /\ FreeObjs = {}
    <2>1. Len(rest[p]) = 1
      BY <1>2, <1>12 DEF ClonesSucceed
    <2> QED
      BY <1>12, <2>1
  <1> QED
    BY <1>9, <1>10, <1>11, <1>12 DEF CloneTask

\* The clone becomes the last task of the mission.
LEMMA EnqueueAccounted ==
  ASSUME TypeOK, Locals, HeadPresent, Accounted, Held' \in Contents,
         NEW p \in Posters, Enqueue(p)
  PROVE  Accounted'
  <1>1. /\ pc \in [Threads -> WorkerLabels \cup PosterLabels] /\ p \in Threads
        /\ tsk \in [Threads -> Entries \cup {None}]
        /\ tasks \in [Missions -> Seq(Entries)]
    BY DEF TypeOK, Threads
  <1>2. /\ pc[p] = "enq" /\ pc'[p] = "stat"
        /\ UNCHANGED <<hint, rest, ref, data>> /\ tsk'[p] = None
    BY <1>1 DEF Enqueue, Goto, posterVars, objVars
  <1>3. PICK m \in Missions, e \in Entries : m = mis[p] /\ e = tsk[p]
    BY <1>2 DEF Locals, PosterLocals
  <1>0. PICK q \in Seq(Entries), n \in Nat : q = tasks[m] /\ n = Len(q) + 1
    BY <1>1, LenProperties
  <1> DEFINE x == <<p, "clone">>
             y == <<m, n>>
  <1>4. /\ Len(q) \in Nat /\ n \in Index /\ DOMAIN q = 1..Len(q)
        /\ Append(q, e) \in Seq(Entries) /\ Len(Append(q, e)) = n
        /\ DOMAIN Append(q, e) = 1..n
        /\ \A i \in 1..Len(q) : Append(q, e)[i] = q[i]
        /\ Append(q, e)[n] = e
    BY <1>0, LenProperties, AppendProperties DEF Index
  <1>5. /\ tasks[m] = q /\ tasks'[m] = Append(q, e)
        /\ \A k \in Missions \ {m} : tasks'[k] = tasks[k]
    BY <1>0, <1>1, <1>3 DEF Enqueue
  <1>6. \A k \in Missions : HeadReleased(k)' <=> HeadReleased(k)
    BY PosterSlots DEF Poster
  <1>7. n = 1 => ~HeadReleased(m)
    <2>1. HeadReleased(m) => q # <<>>
      BY <1>3, <1>5 DEF HeadReleased, HeadPresent, Takes
    <2>2. q # <<>> => Len(q) # 0
      BY <1>4, EmptySeq
    <2> QED
      BY <1>0, <1>4, <2>1, <2>2
  <1>8. ASSUME NEW k \in Missions, NEW i \in Index, <<k, i>> # y
        PROVE  InQueue(k, i)' = InQueue(k, i)
    <2>1. CASE k # m
      BY <1>5, <1>6, <2>1 DEF InQueue, Queued
    <2>2. CASE k = m
      <3>1. i # n
        BY <1>8, <2>2
      <3>2. i \in DOMAIN tasks'[m] <=> i \in DOMAIN q
        BY <1>0, <1>4, <1>5, <3>1
      <3>3. i \in DOMAIN q => tasks'[m][i] = q[i]
        BY <1>4, <1>5
      <3> QED
        BY <1>5, <1>6, <2>2, <3>2, <3>3 DEF InQueue, Queued
    <2> QED
      BY <2>1, <2>2
  <1>9. /\ Held[y] = None /\ Held'[y] = e /\ y \in Slots
    <2>1. InQueue(m, n) = None
      BY <1>0, <1>4, <1>5 DEF InQueue, Queued
    <2>2. n \in Queued(m)'
      BY <1>4, <1>5, <1>6, <1>7 DEF Queued, Index
    <2>3. InQueue(m, n)' = e
      BY <1>4, <1>5, <2>2 DEF InQueue
    <2> QED
      BY <1>4, <2>1, <2>3, HeldAt
  <1>10. Held[x] = e /\ Held'[x] = None /\ x \in Slots
    BY <1>2, <1>3, HeldAt
  <1>11. Hinted(p)' = Hinted(p)
    BY <1>2 DEF Hinted, HoldsHint
  <1>12. \A s \in Slots \ {x, y} : Held'[s] = Held[s]
    <2>1. /\ \A w \in Workers : Popped(w)' = Popped(w)
          /\ \A r \in Posters \ {p} : Hinted(r)' = Hinted(r) /\ tsk'[r] = tsk[r]
      BY PosterSlots DEF Poster
    <2>2. \A k \in Missions, i \in Index : <<k, i>> \notin {x, y} => <<k, i>> # y
      OBVIOUS
    <2>3. \A r \in Posters : <<r, "clone">> \notin {x, y} => r # p
      OBVIOUS
    <2> HIDE DEF x, y
    <2> QED
      BY <1>8, <1>11, <2>1, <2>2, <2>3, OthersKept
  <1>13. x # y
    BY <1>3, ConstantsAssumption DEF Threads
  <1> HIDE DEF x, y
  <1>14. Agree(Held, ref, data) /\ Moved(Held, Held', x, y, e)
    BY <1>9, <1>10, <1>12, <1>13 DEF Accounted, Agree, Moved
  <1>15. Agree(Held', ref, data)
    BY <1>14, MovedAgrees
  <1> QED
    BY <1>2, <1>15 DEF Accounted

LEMMA PosterAccounted ==
  ASSUME TypeOK, Locals, Hands, HeadPresent, ClonesSucceed, Accounted, Held' \in Contents,
         NEW p \in Posters, Poster(p)
  PROVE  Accounted'
  <1>1. ASSUME ~PopTask(p), ~NoSubscriber(p), ~CloneTask(p), ~Enqueue(p)
        PROVE  Accounted'
    <2>1. /\ pc \in [Threads -> WorkerLabels \cup PosterLabels] /\ p \in Threads
          /\ hint \in [Posters -> Entries \cup {None}]
          /\ rest \in [Posters -> Seq(Missions)]
      BY DEF TypeOK, Threads
    <2>2. UNCHANGED <<ref, data, tsk>>
      BY <1>1 DEF Poster, WalkLock, StatLock, WakeIdle, WakeReady, SemPost, StatUnlock, objVars
    <2>3. Hinted(p)' = Hinted(p)
      <3>1. CASE StatUnlock(p)
        <4>1. /\ pc[p] = "unlock"
              /\ Len(rest[p]) = 1 => hint'[p] = None
              /\ Len(rest[p]) # 1 => pc'[p] = "clone" /\ hint' = hint
          BY <2>1, <3>1 DEF StatUnlock, Goto
        <4>2. rest[p] # <<>> /\ rest[p] \in Seq(Missions)
          BY <2>1, <4>1 DEF Locals, PosterLocals
        <4>3. Len(rest[p]) = 1 \/ (Len(rest[p]) # 1 /\ Len(rest[p]) > 1)
          <5>1. Len(rest[p]) \in Nat /\ Len(rest[p]) # 0
            BY <4>2, EmptySeq, LenProperties
          <5>2. \A k \in Nat : k # 0 => k = 1 \/ (k # 1 /\ k > 1)
            OBVIOUS
          <5> QED
            BY <5>1, <5>2, Zenon
        <4>4. CASE Len(rest[p]) = 1
          BY <4>1, <4>4 DEF Hinted, HoldsHint
        <4>5. CASE Len(rest[p]) # 1 /\ Len(rest[p]) > 1
          <5>1. pc'[p] = "clone" /\ hint' = hint
            BY <4>1, <4>5
          <5> QED
            BY <4>5, <5>1 DEF Hinted, HoldsHint
        <4> QED
          BY <4>3, <4>4, <4>5
      <3>2. CASE WalkLock(p)
        BY <2>1, <3>2 DEF WalkLock, Goto, Hinted, HoldsHint
      <3>3. CASE StatLock(p) \/ WakeIdle(p) \/ WakeReady(p) \/ SemPost(p)
        BY <2>1, <3>3 DEF StatLock, WakeIdle, WakeReady, SemPost, Goto, posterVars, Hinted,
           HoldsHint
      <3> QED
        BY <1>1, <3>1, <3>2, <3>3 DEF Poster
    <2>4. \A s \in Slots \ {<<p, "hint">>, <<p, "clone">>} : Held'[s] = Held[s]
      BY <1>1, PosterKeeps
    <2>5. \A s \in Slots : Held'[s] = Held[s]
      BY <2>2, <2>3, <2>4, HeldAt
    <2> QED
      BY <2>2, <2>5, ReferencesKept
  <1> QED
    BY <1>1, PopTaskAccounted, NoSubscriberAccounted, CloneTaskAccounted, EnqueueAccounted

(***************************************************************************)
(* A worker's steps.                                                       *)
(***************************************************************************)
\* A worker's step touches no other thread.
LEMMA WorkerOthers ==
  ASSUME TypeOK, NEW w \in Workers, Worker(w)
  PROVE  /\ \A t \in Threads \ {w} : pc'[t] = pc[t] /\ mis'[t] = mis[t] /\ tsk'[t] = tsk[t]
         /\ UNCHANGED <<hint, rest>>
  <1>1. /\ pc \in [Threads -> WorkerLabels \cup PosterLabels]
        /\ mis \in [Threads -> Missions \cup {None}]
        /\ tsk \in [Threads -> Entries \cup {None}]
    BY DEF TypeOK
  <1>2. \A t \in Threads \ {w} : pc'[t] = pc[t]
    BY <1>1 DEF Worker, LoopTest, SemWait, SemTimeout, PopReady, FrontTask, FrontStop,
       ConcurrentPop, Operate, Release, SerialPop, SwitchLock, SwitchTest, SwitchReady,
       SwitchIdle, SwitchSem, SwitchUnlock, Goto
  <1>3. \A t \in Threads \ {w} : mis'[t] = mis[t]
    BY <1>1 DEF Worker, LoopTest, SemWait, SemTimeout, PopReady, FrontTask, FrontStop,
       ConcurrentPop, Operate, Release, SerialPop, SwitchLock, SwitchTest, SwitchReady,
       SwitchIdle, SwitchSem, SwitchUnlock
  <1>4. \A t \in Threads \ {w} : tsk'[t] = tsk[t]
    BY <1>1 DEF Worker, LoopTest, SemWait, SemTimeout, PopReady, FrontTask, FrontStop,
       ConcurrentPop, Operate, Release, SerialPop, SwitchLock, SwitchTest, SwitchReady,
       SwitchIdle, SwitchSem, SwitchUnlock
  <1>5. UNCHANGED <<hint, rest>>
    BY DEF Worker, LoopTest, SemWait, SemTimeout, PopReady, FrontTask, FrontStop,
       ConcurrentPop, Operate, Release, SerialPop, SwitchLock, SwitchTest, SwitchReady,
       SwitchIdle, SwitchSem, SwitchUnlock, posterVars
  <1> QED
    BY <1>2, <1>3, <1>4, <1>5

LEMMA WorkerSlots ==
  ASSUME TypeOK, NEW w \in Workers, Worker(w)
  PROVE  /\ \A v \in Workers \ {w} : Popped(v)' = Popped(v)
         /\ \A p \in Posters : Hinted(p)' = Hinted(p) /\ tsk'[p] = tsk[p]
         /\ \A m \in Missions :
              (pc'[w] = "spop" /\ mis'[w] = m <=> pc[w] = "spop" /\ mis[w] = m)
                => (HeadReleased(m)' <=> HeadReleased(m))
  <1>1. \A v \in Workers \ {w} : Popped(v)' = Popped(v)
    BY WorkerOthers DEF Popped, HoldsPopped, Threads
  <1>2. \A p \in Posters : p \in Threads \ {w}
    BY ConstantsAssumption DEF Threads
  <1>3. \A p \in Posters : Hinted(p)' = Hinted(p) /\ tsk'[p] = tsk[p]
    BY <1>2, WorkerOthers DEF Hinted, HoldsHint
  <1>4. ASSUME NEW m \in Missions, pc'[w] = "spop" /\ mis'[w] = m <=> pc[w] = "spop" /\ mis[w] = m
        PROVE  HeadReleased(m)' <=> HeadReleased(m)
    <2>1. \A v \in Workers : v \in Threads
      BY DEF Threads
    <2>2. \A v \in Workers \ {w} : pc'[v] = pc[v] /\ mis'[v] = mis[v]
      BY <2>1, WorkerOthers
    <2> QED
      BY <1>4, <2>2 DEF HeadReleased
  <1> QED
    BY <1>1, <1>3, <1>4

\* While a worker has a serial mission, it alone decides whether the head is released.
LEMMA OwnReleased ==
  ASSUME ScheduledOnce, NEW w \in Workers, Owns(w)
  PROVE  HeadReleased(mis[w]) <=> pc[w] = "spop"
  <1>1. ASSUME NEW v \in Workers, pc[v] = "spop", mis[v] = mis[w]
        PROVE  v = w
    BY <1>1 DEF Owns, ScheduledOnce
  <1> QED
    BY <1>1 DEF HeadReleased

\* The places of a queue that a step of its worker leaves alone.
LEMMA PlaceKept ==
  ASSUME NEW m, NEW i, tasks'[m] = tasks[m],
         i > 1 \/ (HeadReleased(m)' <=> HeadReleased(m))
  PROVE  InQueue(m, i)' = InQueue(m, i)
  BY DEF InQueue, Queued

\* The steps that neither pop nor release a task.
LEMMA WorkerQuietAccounted ==
  ASSUME TypeOK, Locals, Accounted, Held' \in Contents, NEW w \in Workers, Worker(w),
         ~ConcurrentPop(w), ~Release(w), ~SerialPop(w)
  PROVE  Accounted'
  <1>1. /\ pc \in [Threads -> WorkerLabels \cup PosterLabels] /\ w \in Threads
        /\ mis \in [Threads -> Missions \cup {None}]
        /\ tsk \in [Threads -> Entries \cup {None}]
        /\ WorkerLocals(w)
    BY DEF TypeOK, Locals, Threads
  <1>2. UNCHANGED <<tasks, ref, data>>
    BY DEF Worker, LoopTest, SemWait, SemTimeout, PopReady, FrontTask, FrontStop, Operate,
       SwitchLock, SwitchTest, SwitchReady, SwitchIdle, SwitchSem, SwitchUnlock, missionVars,
       objVars
  <1>3. pc[w] # "spop" /\ pc'[w] # "spop"
    BY <1>1 DEF Worker, LoopTest, SemWait, SemTimeout, PopReady, FrontTask, FrontStop, Operate,
       SwitchLock, SwitchTest, SwitchReady, SwitchIdle, SwitchSem, SwitchUnlock, Goto
  <1>4. Popped(w)' = Popped(w)
    <2>1. CASE LoopTest(w) \/ SemWait(w) \/ SemTimeout(w) \/ PopReady(w) \/ FrontStop(w)
      <3>1. tsk[w] = None /\ tsk' = tsk
        BY <1>1, <2>1 DEF LoopTest, SemWait, SemTimeout, PopReady, FrontStop, Goto, WorkerLocals
      <3> QED
        BY <3>1 DEF Popped, HoldsPopped
    <2>2. CASE FrontTask(w)
      <3>1. tsk[w] = None /\ mis' = mis /\ pc'[w] = IF Serial(mis[w]) THEN "oper" ELSE "cpop"
        BY <1>1, <2>2 DEF FrontTask, Goto, WorkerLocals
      <3> QED
        BY <3>1 DEF Popped, HoldsPopped, Serial
    <2>3. CASE \/ Operate(w) \/ SwitchLock(w) \/ SwitchTest(w) \/ SwitchReady(w)
               \/ SwitchIdle(w) \/ SwitchSem(w)
      <3>1. UNCHANGED <<mis, tsk>> /\ pc[w] # "cpop" /\ pc'[w] # "cpop"
        BY <1>1, <2>3 DEF Operate, SwitchLock, SwitchTest, SwitchReady, SwitchIdle, SwitchSem,
           Goto
      <3> QED
        BY <3>1 DEF Popped, HoldsPopped, Serial
    <2>4. CASE SwitchUnlock(w)
      <3>1. /\ tsk' = tsk /\ pc[w] # "cpop" /\ pc'[w] # "cpop"
            /\ tsk[w] # None => mis' = mis
        BY <1>1, <2>4 DEF SwitchUnlock, Goto
      <3> QED
        BY <3>1 DEF Popped, HoldsPopped, Serial
    <2> QED
      BY <2>1, <2>2, <2>3, <2>4 DEF Worker
  <1>5. \A m \in Missions : HeadReleased(m)' <=> HeadReleased(m)
    BY <1>3, WorkerSlots
  <1>6. \A m \in Missions, i \in Index : InQueue(m, i)' = InQueue(m, i)
    BY <1>2, <1>5 DEF InQueue, Queued
  <1>7. \A v \in Workers : Popped(v)' = Popped(v)
    BY <1>4, WorkerSlots
  <1>8. \A s \in Slots : Held'[s] = Held[s]
    <2>1. \A s \in Slots \ {} : Held'[s] = Held[s]
      BY <1>6, <1>7, WorkerSlots, OthersKept
    <2> QED
      BY <2>1
  <1> QED
    BY <1>2, <1>8, ReferencesKept

\* A task is released: a serial one while it is still in its queue.
LEMMA ReleaseAccounted ==
  ASSUME TypeOK, Locals, ScheduledOnce, HeadPresent, HeadTaken, Accounted, Held' \in Contents,
         NEW w \in Workers, Release(w)
  PROVE  Accounted'
  <1>1. /\ pc \in [Threads -> WorkerLabels \cup PosterLabels] /\ w \in Threads
        /\ mis \in [Threads -> Missions \cup {None}]
        /\ tsk \in [Threads -> Entries \cup {None}]
        /\ tasks \in [Missions -> Seq(Entries)]
        /\ ref \in [Objs -> Int] /\ data \in [Objs -> [type : Types, num : Nat] \cup {None}]
        /\ WorkerLocals(w)
    BY DEF TypeOK, Locals, Threads
  <1>2. PICK m \in Missions, e \in Entries : m = mis[w] /\ e = tsk[w]
    BY <1>1 DEF Release, Goto, WorkerLocals
  <1>3. /\ pc[w] = "rel" /\ pc'[w] = IF Serial(m) THEN "spop" ELSE "loop"
        /\ ref' = [ref EXCEPT ![e.obj] = @ - 1]
        /\ data' = [data EXCEPT ![e.obj] = IF ref[e.obj] = 1 THEN None ELSE @]
        /\ tasks' = tasks
        /\ Serial(m) => tsk' = tsk /\ mis' = mis
        /\ ~Serial(m) => tsk'[w] = None
    BY <1>1, <1>2 DEF Release, Goto, ReleaseObj, missionVars
  <1>4. Raised(ref', ref, e.obj) /\ \A o \in Objs : o # e.obj \/ ref[o] # 1 => data'[o] = data[o]
    <2>1. e.obj \in Objs
      BY <1>2 DEF Entries
    <2>2. Raised(ref', ref, e.obj)
      BY <1>1, <1>3, <2>1 DEF Raised
    <2>3. \A o \in Objs : o # e.obj \/ ref[o] # 1 => data'[o] = data[o]
      BY <1>1, <1>3, <2>1
    <2> QED
      BY <2>2, <2>3
  <1>5. e # None /\ Agree(Held, ref, data) /\ Held \in Contents
    BY <1>2, ConstantsAssumption DEF Accounted, Agree
  <1>6. CASE Serial(m)
    <2> DEFINE x == <<m, 1>>
    <2>1. Owns(w) /\ Takes(w, m)
      BY <1>2, <1>3, <1>6 DEF Owns, Takes
    <2>2. tasks[m] # <<>> /\ tasks[m][1] = e
      BY <1>2, <2>1 DEF HeadPresent, HeadTaken
    <2>3. ~HeadReleased(m) /\ HeadReleased(m)'
      BY <1>2, <1>3, <1>6, <2>1, OwnReleased DEF HeadReleased
    <2>4. 1 \in DOMAIN tasks[m]
      <3>1. tasks[m] \in Seq(Entries)
        BY <1>1
      <3>2. Len(tasks[m]) \in Nat \ {0} /\ DOMAIN tasks[m] = 1..Len(tasks[m])
        BY <2>2, <3>1, LenProperties, EmptySeq
      <3> QED
        BY <3>2
    <2>5. InQueue(m, 1) = e /\ InQueue(m, 1)' = None
      BY <2>2, <2>3, <2>4 DEF InQueue, Queued
    <2>6. x \in Slots /\ Held[x] = e /\ Held'[x] = None
      BY <2>5, HeldAt DEF Index
    <2>7. ASSUME NEW k \in Missions, NEW i \in Index, <<k, i>> # x
          PROVE  InQueue(k, i)' = InQueue(k, i)
      <3>1. CASE k # m
        BY <1>2, <1>3, <1>6, <3>1, WorkerSlots, PlaceKept DEF Worker
      <3>2. CASE k = m
        <4>1. i > 1
          BY <2>7, <3>2 DEF Index
        <4> QED
          BY <1>3, <4>1, PlaceKept
      <3> QED
        BY <3>1, <3>2
    <2>8. Popped(w)' = Popped(w)
      BY <1>2, <1>3, <1>6 DEF Popped, HoldsPopped, Serial
    <2>9. \A s \in Slots \ {x} : Held'[s] = Held[s]
      <3>1. \A v \in Workers : Popped(v)' = Popped(v)
        BY <2>8, WorkerSlots DEF Worker
      <3>2. \A k \in Missions, i \in Index : <<k, i>> \notin {x} => <<k, i>> # x
        OBVIOUS
      <3>3. \A p \in Posters : Hinted(p)' = Hinted(p) /\ tsk'[p] = tsk[p]
        BY WorkerSlots DEF Worker
      <3> HIDE DEF x
      <3> QED
        BY <2>7, <3>1, <3>2, <3>3, OthersKept
    <2> HIDE DEF x
    <2>10. Filled(Held', Held, x, e)
      BY <1>2, <1>5, <2>6, <2>9 DEF Filled
    <2> QED
      BY <1>4, <1>5, <2>10, DroppedAgrees DEF Accounted
  <1>7. CASE ~Serial(m)
    <2> DEFINE x == <<w, "popped">>
    <2>1. Popped(w) = e /\ Popped(w)' = None
      BY <1>2, <1>3, <1>5, <1>7 DEF Popped, HoldsPopped
    <2>2. x \in Slots /\ Held[x] = e /\ Held'[x] = None
      BY <2>1, HeldAt
    <2>3. \A k \in Missions : HeadReleased(k)' <=> HeadReleased(k)
      BY <1>3, <1>7, WorkerSlots DEF Worker
    <2>4. \A k \in Missions, i \in Index : InQueue(k, i)' = InQueue(k, i)
      BY <1>3, <2>3, PlaceKept
    <2>5. \A s \in Slots \ {x} : Held'[s] = Held[s]
      <3>1. \A v \in Workers : <<v, "popped">> \notin {x} => Popped(v)' = Popped(v)
        BY WorkerSlots DEF Worker
      <3>2. \A p \in Posters : Hinted(p)' = Hinted(p) /\ tsk'[p] = tsk[p]
        BY WorkerSlots DEF Worker
      <3> HIDE DEF x
      <3> QED
        BY <2>4, <3>1, <3>2, OthersKept
    <2> HIDE DEF x
    <2>6. Filled(Held', Held, x, e)
      BY <1>2, <1>5, <2>2, <2>5 DEF Filled
    <2> QED
      BY <1>4, <1>5, <2>6, DroppedAgrees DEF Accounted
  <1> QED
    BY <1>6, <1>7

\* A worker pops the task that it took: the tasks after it move up.
LEMMA QueuePopped ==
  ASSUME TypeOK, ScheduledOnce, HeadPresent, NEW w \in Workers, Worker(w),
         NEW m \in Missions, Takes(w, m), pc'[w] # "spop", UNCHANGED mis,
         tasks' = [tasks EXCEPT ![m] = PopFront(@)]
  PROVE  /\ ~HeadReleased(m)'
         /\ \A i \in Index : Held'[<<m, i>>] = Held[<<m, i + 1>>]
         /\ \A s \in Slots : s[1] # m /\ s # <<w, "popped">> => Held'[s] = Held[s]
  <1>1. PICK q \in Seq(Entries) : q = tasks[m]
    BY DEF TypeOK
  <1>2. q # <<>> /\ tasks'[m] = Tail(q) /\ \A k \in Missions \ {m} : tasks'[k] = tasks[k]
    BY <1>1 DEF TypeOK, HeadPresent, PopFront
  <1>3. PICK n \in Nat : n = Len(q)
    BY <1>1, LenProperties
  <1>4. /\ n # 0 /\ DOMAIN q = 1..n /\ DOMAIN Tail(q) = 1..(n - 1)
        /\ \A i \in 1..(n - 1) : Tail(q)[i] = q[i + 1]
    <2>1. n # 0 /\ DOMAIN q = 1..n
      BY <1>2, <1>3, LenProperties, EmptySeq
    <2>2. /\ Tail(q) \in Seq(Entries) /\ Len(Tail(q)) = n - 1
          /\ \A i \in 1..Len(Tail(q)) : Tail(q)[i] = q[i + 1]
      BY <1>2, <1>3, HeadTailProperties
    <2>3. DOMAIN Tail(q) = 1..Len(Tail(q))
      BY <2>2, LenProperties
    <2> QED
      BY <2>1, <2>2, <2>3
  <1>5. Owns(w) /\ mis[w] = m
    BY TakesOwns
  <1>6. ~HeadReleased(m)'
    <2>1. ASSUME NEW v \in Workers, pc'[v] = "spop", mis'[v] = m
          PROVE  FALSE
      <3>1. v # w /\ v \in Threads
        BY <2>1 DEF Threads
      <3>2. pc[v] = "spop" /\ mis[v] = m
        BY <2>1, <3>1, WorkerOthers
      <3> QED
        BY <1>5, <3>1, <3>2 DEF Owns, ScheduledOnce
    <2> QED
      BY <2>1 DEF HeadReleased
  <1>7. ASSUME NEW i \in Index
        PROVE  Held'[<<m, i>>] = Held[<<m, i + 1>>]
    <2>1. i \in Nat \ {0} /\ i + 1 \in Index /\ i + 1 > 1
      BY DEF Index
    <2>2. i + 1 \in Queued(m) <=> i \in 1..(n - 1)
      BY <1>1, <1>4, <2>1 DEF Queued
    <2>3. i \in Queued(m)' <=> i \in 1..(n - 1)
      BY <1>2, <1>4, <1>6 DEF Queued
    <2>4. InQueue(m, i)' = InQueue(m, i + 1)
      BY <1>1, <1>2, <1>4, <2>2, <2>3 DEF InQueue
    <2> QED
      BY <2>1, <2>4, HeldAt
  <1>8. \A s \in Slots : s[1] # m /\ s # <<w, "popped">> => Held'[s] = Held[s]
    <2> DEFINE X == {s \in Slots : s[1] = m} \cup {<<w, "popped">>}
    <2>1. ASSUME NEW k \in Missions, NEW i \in Index, <<k, i>> \notin X
          PROVE  InQueue(k, i)' = InQueue(k, i)
      <3>1. k # m
        BY <2>1 DEF Slots
      <3>2. HeadReleased(k)' <=> HeadReleased(k)
        BY <1>5, <3>1, WorkerSlots
      <3> QED
        BY <1>2, <3>1, <3>2, PlaceKept
    <2>2. \A v \in Workers : <<v, "popped">> \notin X => Popped(v)' = Popped(v)
      BY WorkerSlots
    <2>3. \A p \in Posters : Hinted(p)' = Hinted(p) /\ tsk'[p] = tsk[p]
      BY WorkerSlots
    <2>4. \A s \in Slots \ X : Held'[s] = Held[s]
      <3> HIDE DEF X
      <3> QED
        BY <2>1, <2>2, <2>3, OthersKept
    <2> QED
      BY <2>4
  <1> QED
    BY <1>6, <1>7, <1>8

LEMMA SerialPopAccounted ==
  ASSUME TypeOK, Locals, ScheduledOnce, HeadPresent, Accounted, Held' \in Contents,
         NEW w \in Workers, SerialPop(w)
  PROVE  Accounted'
  <1>1. /\ pc \in [Threads -> WorkerLabels \cup PosterLabels] /\ w \in Threads
        /\ tsk \in [Threads -> Entries \cup {None}] /\ WorkerLocals(w)
    BY DEF TypeOK, Locals, Threads
  <1>2. PICK m \in Missions : m = mis[w]
    BY <1>1 DEF SerialPop, Goto, WorkerLocals
  <1>3. /\ pc[w] = "spop" /\ pc'[w] = "front" /\ Serial(m) /\ Takes(w, m)
        /\ tasks' = [tasks EXCEPT ![m] = PopFront(@)] /\ UNCHANGED <<mis, ref, data>>
        /\ tsk'[w] = None /\ Worker(w)
    BY <1>1, <1>2 DEF SerialPop, Goto, WorkerLocals, Takes, objVars, Worker
  <1>4. /\ \A i \in Index : Held'[<<m, i>>] = Held[<<m, i + 1>>]
        /\ \A s \in Slots : s[1] # m /\ s # <<w, "popped">> => Held'[s] = Held[s]
    BY <1>3, QueuePopped
  <1>5. Held'[<<w, "popped">>] = Held[<<w, "popped">>]
    BY <1>2, <1>3, HeldAt DEF Popped, HoldsPopped
  <1>6. Held[<<m, 1>>] = None
    <2>1. HeadReleased(m)
      BY <1>2, <1>3 DEF HeadReleased
    <2> QED
      BY <2>1, HeldAt DEF InQueue, Queued, Index
  <1>7. Agree(Held, ref, data) /\ MovedUp(Held, Held', m)
    BY <1>4, <1>5, <1>6 DEF Accounted, Agree, MovedUp
  <1>8. Agree(Held', ref, data)
    BY <1>7, MovedUpAgrees
  <1> QED
    BY <1>3, <1>8 DEF Accounted

\* The task goes into the worker's hands and the queue moves up.
LEMMA ConcurrentPopAccounted ==
  ASSUME TypeOK, Locals, ScheduledOnce, HeadPresent, HeadTaken, Accounted, Held' \in Contents,
         NEW w \in Workers, ConcurrentPop(w)
  PROVE  Accounted'
  <1>1. /\ pc \in [Threads -> WorkerLabels \cup PosterLabels] /\ w \in Threads
        /\ tsk \in [Threads -> Entries \cup {None}] /\ WorkerLocals(w)
    BY DEF TypeOK, Locals, Threads
  <1>2. PICK m \in Missions, e \in Entries : m = mis[w] /\ e = tsk[w]
    BY <1>1 DEF ConcurrentPop, Goto, WorkerLocals
  <1>3. e # None /\ Agree(Held, ref, data) /\ Held \in Contents
    BY <1>2, ConstantsAssumption DEF Accounted, Agree
  <1>4. /\ pc[w] = "cpop" /\ pc'[w] = "swlock" /\ ~Serial(m) /\ Takes(w, m) /\ Owns(w)
        /\ tasks' = [tasks EXCEPT ![m] = PopFront(@)] /\ UNCHANGED <<mis, tsk, ref, data>>
        /\ Worker(w)
    BY <1>1, <1>2, <1>3 DEF ConcurrentPop, Goto, WorkerLocals, Takes, Owns, objVars, Worker
  <1>5. /\ \A i \in Index : Held'[<<m, i>>] = Held[<<m, i + 1>>]
        /\ \A s \in Slots : s[1] # m /\ s # <<w, "popped">> => Held'[s] = Held[s]
    BY <1>4, QueuePopped
  <1> DEFINE x == <<m, 1>>
             y == <<w, "popped">>
             K == [s \in Slots |-> IF s = x THEN None ELSE IF s = y THEN e ELSE Held[s]]
  <1>6. /\ x \in Slots /\ y \in Slots /\ x # y /\ y[1] # m
        /\ \A i \in Index : <<m, i>> \in Slots /\ <<m, i>> # y
    <2>1. w # m /\ \A i \in Index : <<m, i>> # y
      BY ConstantsAssumption DEF Threads
    <2> QED
      BY <2>1, HeldAt DEF Index
  <1>7. Held[y] = None /\ Held'[y] = e
    <2>1. Popped(w) = None /\ Popped(w)' = e
      BY <1>2, <1>3, <1>4 DEF Popped, HoldsPopped, Serial
    <2> QED
      BY <2>1, HeldAt
  <1>8. Held[x] = e
    <2>1. tasks[m] # <<>> /\ tasks[m][1] = e /\ tasks[m] \in Seq(Entries)
      BY <1>2, <1>4 DEF HeadPresent, HeadTaken, TypeOK
    <2>2. 1 \in DOMAIN tasks[m]
      <3>1. Len(tasks[m]) \in Nat \ {0} /\ DOMAIN tasks[m] = 1..Len(tasks[m])
        BY <2>1, LenProperties, EmptySeq
      <3> QED
        BY <3>1
    <2>3. ~HeadReleased(m)
      BY <1>2, <1>4, OwnReleased
    <2>4. InQueue(m, 1) = e
      BY <2>1, <2>2, <2>3 DEF InQueue, Queued
    <2> QED
      BY <2>4, HeldAt DEF Index
  <1>9. Moved(Held, K, x, y, e)
    <2>1. K \in Contents
      BY <1>3 DEF Contents
    <2> HIDE DEF x, y
    <2>2. K[x] = None /\ K[y] = e /\ \A s \in Slots \ {x, y} : K[s] = Held[s]
      BY <1>6
    <2> HIDE DEF K
    <2> QED
      BY <1>3, <1>6, <1>7, <1>8, <2>1, <2>2 DEF Moved
  <1>10. MovedUp(K, Held', m)
    <2>1. K \in Contents /\ K[<<m, 1>>] = None
      BY <1>3, <1>6 DEF Contents
    <2>2. ASSUME NEW i \in Index
          PROVE  Held'[<<m, i>>] = K[<<m, i + 1>>]
      <3>1. i + 1 \in Index /\ i + 1 # 1
        BY DEF Index
      <3>2. K[<<m, i + 1>>] = Held[<<m, i + 1>>]
        BY <1>6, <3>1
      <3> QED
        BY <1>5, <3>2
    <2>3. ASSUME NEW s \in Slots, s[1] # m
          PROVE  Held'[s] = K[s]
      <3>1. s # x
        BY <2>3
      <3> QED
        BY <1>5, <1>7, <2>3, <3>1
    <2> QED
      BY <2>1, <2>2, <2>3 DEF MovedUp
  <1> HIDE DEF x, y, K
  <1>11. Agree(Held', ref, data)
    <2>1. Agree(K, ref, data)
      BY <1>3, <1>9, MovedAgrees
    <2> QED
      BY <1>10, <2>1, MovedUpAgrees
  <1> QED
    BY <1>4, <1>11 DEF Accounted

LEMMA WorkerAccounted ==
  ASSUME TypeOK, Locals, ScheduledOnce, HeadPresent, HeadTaken, Accounted, Held' \in Contents,
         NEW w \in Workers, Worker(w)
  PROVE  Accounted'
  BY ReleaseAccounted, SerialPopAccounted, ConcurrentPopAccounted, WorkerQuietAccounted

(***************************************************************************)
(* The owner's steps, and those of nobody.                                 *)
(***************************************************************************)
LEMMA OwnerAccounted ==
  ASSUME TypeOK, Hands, HeadTaken, Accounted, Held' \in Contents, Owner \/ UNCHANGED vars
  PROVE  Accounted' /\ Hands' /\ HeadTaken'
  <1>1. pc \in [Threads -> WorkerLabels \cup PosterLabels]
    BY DEF TypeOK
  <1>2. UNCHANGED <<tasks, ref, data, mis, tsk, hint, rest>>
    BY DEF Owner, RunReturns, StopCalled, StopReturns, CreateWorker, missionVars, objVars,
       posterVars, vars
  <1>3. \A t \in Threads : pc'[t] = pc[t] \/ (t \in Workers /\ pc[t] = "new" /\ pc'[t] = "loop")
    <2>1. CASE \E w \in Workers : CreateWorker(w)
      BY <1>1, <2>1 DEF CreateWorker, Goto, Threads
    <2>2. CASE ~\E w \in Workers : CreateWorker(w)
      BY <2>2 DEF Owner, RunReturns, StopCalled, StopReturns, vars
    <2> QED
      BY <2>1, <2>2
  <1>4. \A p \in Posters : pc'[p] = pc[p]
    BY <1>3, ConstantsAssumption DEF Threads
  <1>5. Hands'
    BY <1>2, <1>4 DEF Hands
  <1>6. HeadTaken'
    BY <1>2, <1>3 DEF HeadTaken, Takes, Threads
  <1>7. \A m \in Missions : HeadReleased(m)' <=> HeadReleased(m)
    BY <1>2, <1>3 DEF HeadReleased, Threads
  <1>8. \A m \in Missions, i \in Index : InQueue(m, i)' = InQueue(m, i)
    BY <1>2, <1>7, PlaceKept
  <1>9. \A w \in Workers : Popped(w)' = Popped(w)
    BY <1>2, <1>3 DEF Popped, HoldsPopped, Serial, Threads
  <1>10. \A p \in Posters : Hinted(p)' = Hinted(p) /\ tsk'[p] = tsk[p]
    BY <1>2, <1>4 DEF Hinted, HoldsHint
  <1>11. \A s \in Slots : Held'[s] = Held[s]
    <2>1. \A s \in Slots \ {} : Held'[s] = Held[s]
      BY <1>8, <1>9, <1>10, OthersKept
    <2> QED
      BY <2>1
  <1> QED
    BY <1>2, <1>5, <1>6, <1>11, ReferencesKept

(***************************************************************************)
(* What posters and workers hold in their hands.                           *)
(***************************************************************************)
LEMMA PosterHands ==
  ASSUME TypeOK, Hands, NEW p \in Posters, Poster(p)
  PROVE  Hands'
  <1>1. /\ pc \in [Threads -> WorkerLabels \cup PosterLabels] /\ p \in Threads
        /\ tsk \in [Threads -> Entries \cup {None}]
        /\ hint \in [Posters -> Entries \cup {None}]
        /\ pc[p] # "enq" => tsk[p] = None
    BY DEF TypeOK, Threads, Hands
  <1>2. \A q \in Posters \ {p} : pc'[q] = pc[q] /\ hint'[q] = hint[q] /\ tsk'[q] = tsk[q]
    BY PosterOthers DEF Threads
  <1>3. pc'[p] = "idle" => hint'[p] = None
    <2>1. CASE NoSubscriber(p) \/ StatUnlock(p)
      BY <1>1, <2>1 DEF NoSubscriber, StatUnlock, Goto
    <2>2. CASE ~NoSubscriber(p) /\ ~StatUnlock(p)
      BY <1>1, <2>2 DEF Poster, PopTask, WalkLock, CloneTask, Enqueue, StatLock, WakeIdle,
         WakeReady, SemPost, Goto
    <2> QED
      BY <2>1, <2>2
  <1>4. pc'[p] # "enq" => tsk'[p] = None
    <2>1. CASE CloneTask(p)
      BY <1>1, <2>1 DEF CloneTask, Goto
    <2>2. CASE Enqueue(p)
      BY <1>1, <2>2 DEF Enqueue
    <2>3. CASE ~CloneTask(p) /\ ~Enqueue(p)
      BY <1>1, <2>3 DEF Poster, PopTask, NoSubscriber, WalkLock, StatLock, WakeIdle,
         WakeReady, SemPost, StatUnlock, Goto
    <2> QED
      BY <2>1, <2>2, <2>3
  <1> QED
    BY <1>2, <1>3, <1>4 DEF Hands

LEMMA WorkerHands ==
  ASSUME TypeOK, Hands, NEW w \in Workers, Worker(w)
  PROVE  Hands'
  <1>1. \A p \in Posters : p \in Threads \ {w}
    BY ConstantsAssumption DEF Threads
  <1> QED
    BY <1>1, WorkerOthers DEF Hands

\* A poster adds to a queue that is not empty behind its first task.
LEMMA PosterHeads ==
  ASSUME TypeOK, Locals, HeadPresent, HeadTaken, NEW p \in Posters, Poster(p)
  PROVE  HeadTaken'
  <1>1. /\ tasks \in [Missions -> Seq(Entries)]
        /\ \A w \in Workers : w \in Threads \ {p}
    BY ConstantsAssumption DEF TypeOK, Threads
  <1>2. \A w \in Workers : tsk'[w] = tsk[w] /\ \A m \in Missions : Takes(w, m)' <=> Takes(w, m)
    BY <1>1, PosterOthers DEF Takes
  <1>3. ASSUME NEW m \in Missions, tasks[m] # <<>>
        PROVE  tasks'[m][1] = tasks[m][1]
    <2>1. CASE Enqueue(p)
      <3>1. CASE m # mis[p]
        BY <1>1, <2>1, <3>1 DEF Enqueue
      <3>2. CASE m = mis[p]
        <4>1. PICK q \in Seq(Entries), e \in Entries :
                q = tasks[m] /\ e = tsk[p] /\ tasks'[m] = Append(q, e)
          BY <1>1, <2>1, <3>2 DEF Enqueue, Goto, Locals, PosterLocals
        <4>2. 1 \in 1..Len(q)
          <5>1. Len(q) \in Nat /\ Len(q) # 0
            BY <1>3, <4>1, EmptySeq, LenProperties
          <5> QED
            BY <5>1
        <4> QED
          BY <4>1, <4>2, AppendProperties
      <3> QED
        BY <3>1, <3>2
    <2>2. CASE ~Enqueue(p)
      BY <2>2 DEF Poster, PopTask, NoSubscriber, WalkLock, CloneTask, StatLock, WakeIdle,
         WakeReady, SemPost, StatUnlock, missionVars
    <2> QED
      BY <2>1, <2>2
  <1> QED
    BY <1>2, <1>3 DEF HeadTaken, HeadPresent

\* A worker that has taken a task found it in this step or keeps it and its queue.
LEMMA TakesOrKeeps ==
  ASSUME TypeOK, Locals, NEW w \in Workers, Worker(w), NEW m \in Missions, Takes(w, m)'
  PROVE  \/ FrontTask(w) /\ mis[w] = m
         \/ Takes(w, m) /\ UNCHANGED <<tasks, tsk>>
  <1>1. /\ pc \in [Threads -> WorkerLabels \cup PosterLabels] /\ w \in Threads
        /\ mis \in [Threads -> Missions \cup {None}]
        /\ WorkerLocals(w)
    BY DEF TypeOK, Locals, Threads
  <1>2. CASE FrontTask(w)
    BY <1>2 DEF FrontTask, Takes
  <1>3. CASE Operate(w)
    BY <1>1, <1>3 DEF Operate, Goto, Takes, missionVars
  <1>4. CASE Release(w)
    BY <1>1, <1>4 DEF Release, Goto, Takes, missionVars
  <1>5. CASE SwitchUnlock(w)
    BY <1>1, <1>5 DEF SwitchUnlock, Goto, Takes, WorkerLocals
  <1>6. CASE ~FrontTask(w) /\ ~Operate(w) /\ ~Release(w) /\ ~SwitchUnlock(w)
    BY <1>1, <1>6 DEF Worker, LoopTest, SemWait, SemTimeout, PopReady, FrontStop, ConcurrentPop,
       SerialPop, SwitchLock, SwitchTest, SwitchReady, SwitchIdle, SwitchSem, Goto, Takes
  <1> QED
    BY <1>2, <1>3, <1>4, <1>5, <1>6

LEMMA WorkerHeads ==
  ASSUME TypeOK, Locals, ScheduledOnce, HeadTaken, NEW w \in Workers, Worker(w)
  PROVE  HeadTaken'
  <1>1. /\ tasks \in [Missions -> Seq(Entries)]
        /\ tsk \in [Threads -> Entries \cup {None}]
        /\ \A v \in Workers : v \in Threads
    BY DEF TypeOK, Threads
  <1>2. ASSUME NEW m \in Missions, Takes(w, m)'
        PROVE  tsk'[w] = tasks'[m][1]
    <2>1. CASE FrontTask(w) /\ mis[w] = m
      BY <1>1, <2>1 DEF FrontTask, missionVars
    <2>2. CASE Takes(w, m) /\ UNCHANGED <<tasks, tsk>>
      BY <2>2 DEF HeadTaken
    <2> QED
      BY <1>2, <2>1, <2>2, TakesOrKeeps
  <1>3. ASSUME NEW v \in Workers, v # w, NEW m \in Missions, Takes(v, m)'
        PROVE  tsk'[v] = tasks'[m][1]
    <2>1. Takes(v, m) /\ tsk'[v] = tsk[v]
      BY <1>1, <1>3, WorkerOthers DEF Takes
    <2>2. ConcurrentPop(w) \/ SerialPop(w) => Owns(w) /\ mis[w] # m
      <3>1. ConcurrentPop(w) \/ SerialPop(w) => Owns(w)
        BY DEF ConcurrentPop, SerialPop, Goto, Owns
      <3> QED
        BY <1>3, <2>1, <3>1, OneTaker
    <2>3. tasks'[m] = tasks[m]
      BY <1>1, <2>2 DEF Worker, LoopTest, SemWait, SemTimeout, PopReady, FrontTask, FrontStop,
         ConcurrentPop, Operate, Release, SerialPop, SwitchLock, SwitchTest, SwitchReady,
         SwitchIdle, SwitchSem, SwitchUnlock, missionVars
    <2> QED
      BY <2>1, <2>3 DEF HeadTaken
  <1> QED
    BY <1>2, <1>3 DEF HeadTaken

(***************************************************************************)
(* The objects agree with the slots in every state.                        *)
(***************************************************************************)
SlotsTyped == Held \in Contents

RefInv == Accounted /\ Hands /\ HeadTaken

LEMMA InitAccounted ==
  ASSUME Init, Held \in Contents
  PROVE  RefInv
  <1>1. /\ tasks = [m \in Missions |-> <<>>] /\ tsk = [t \in Threads |-> None]
        /\ hint = [p \in Posters |-> None]
        /\ ref = [o \in Objs |-> 0]
        /\ \A w \in Workers : pc[w] = "new"
    BY DEF Init, Threads
  <1>2. \A m \in Missions, i \in Index : InQueue(m, i) = None
    <2>1. \A m \in Missions : DOMAIN tasks[m] = {}
      BY <1>1
    <2> QED
      BY <2>1 DEF InQueue, Queued
  <1>3. /\ \A w \in Workers : Popped(w) = None
        /\ \A p \in Posters : Hinted(p) = None /\ tsk[p] = None
    BY <1>1 DEF Popped, HoldsPopped, Hinted, HoldsHint, Threads
  <1>4. ASSUME NEW s \in Slots
        PROVE  Held[s] = None
    <2>1. CASE \E m \in Missions, i \in Index : s = <<m, i>>
      BY <1>2, <2>1, HeldAt
    <2>2. CASE \E w \in Workers : s = <<w, "popped">>
      BY <1>3, <2>2, HeldAt
    <2>3. CASE \E p \in Posters : s = <<p, "hint">> \/ s = <<p, "clone">>
      BY <1>3, <2>3, HeldAt
    <2> QED
      BY <2>1, <2>2, <2>3, SlotKinds
  <1>5. Counts(Held, ref)
    <2>1. \A o \in Objs : Occupied(Held, o) = {}
      BY <1>4 DEF Occupied
    <2>2. IsFiniteSet({}) /\ Cardinality({}) = 0
      BY FS_EmptySet
    <2> QED
      BY <1>1, <2>1, <2>2 DEF Counts
  <1>6. Accounted
    BY <1>1, <1>4, <1>5 DEF Accounted, Agree, Intact
  <1>7. Hands /\ HeadTaken
    BY <1>1 DEF Hands, HeadTaken, Takes, Threads
  <1> QED
    BY <1>6, <1>7 DEF RefInv

LEMMA NextAccounted ==
  ASSUME TypeOK, Locals, ScheduledOnce, MappingInv, ClonesSucceed, RefInv, [Next]_vars,
         SlotsTyped'
  PROVE  RefInv'
  <1>1. HeadPresent /\ Accounted /\ Hands /\ HeadTaken /\ Held' \in Contents
    BY DEF MappingInv, RefInv, SlotsTyped
  <1>2. ASSUME NEW p \in Posters, Poster(p)
        PROVE  RefInv'
    BY <1>1, <1>2, PosterAccounted, PosterHands, PosterHeads DEF RefInv
  <1>3. ASSUME NEW w \in Workers, Worker(w)
        PROVE  RefInv'
    BY <1>1, <1>3, WorkerAccounted, WorkerHands, WorkerHeads DEF RefInv
  <1>4. ASSUME Owner \/ UNCHANGED vars
        PROVE  RefInv'
    BY <1>1, <1>4, OwnerAccounted DEF RefInv
  <1> QED
    BY <1>2, <1>3, <1>4 DEF Next, Finished

\* The holders of an object are the slots that hold it.
LEMMA HoldersOccupy ==
  ASSUME TypeOK, NEW o \in Objs
  PROVE  Holders(o) = Occupied(Held, o)
  <1>1. /\ tasks \in [Missions -> Seq(Entries)] /\ tsk \in [Threads -> Entries \cup {None}]
        /\ None \notin Entries
    BY ConstantsAssumption DEF TypeOK
  <1>0. \A s : s \in Holders(o) <=>
          \/ \E m \in Missions : \E i \in Queued(m) : tasks[m][i].obj = o /\ s = <<m, i>>
          \/ \E w \in Workers : HoldsPopped(w) /\ tsk[w].obj = o /\ s = <<w, "popped">>
          \/ \E p \in Posters : HoldsHint(p) /\ hint[p].obj = o /\ s = <<p, "hint">>
          \/ \E p \in Posters : tsk[p] # None /\ tsk[p].obj = o /\ s = <<p, "clone">>
    <2> DEFINE Q == UNION {{<<m, i>> : i \in {j \in Queued(m) : tasks[m][j].obj = o}}
                             : m \in Missions}
               W == {<<w, "popped">> : w \in {v \in Workers : HoldsPopped(v) /\ tsk[v].obj = o}}
               P == {<<p, "hint">> : p \in {q \in Posters : HoldsHint(q) /\ hint[q].obj = o}}
               C == {<<p, "clone">> : p \in {q \in Posters : tsk[q] # None /\ tsk[q].obj = o}}
    <2>1. Holders(o) = Q \cup W \cup P \cup C
      BY Zenon DEF Holders
    <2>2. \A s : s \in Q <=> \E m \in Missions : \E i \in Queued(m) :
                                tasks[m][i].obj = o /\ s = <<m, i>>
      <3> DEFINE B(m) == {j \in Queued(m) : tasks[m][j].obj = o}
                 A(m) == {<<m, i>> : i \in B(m)}
      <3>1. Q = UNION {A(m) : m \in Missions}
        OBVIOUS
      <3>2. \A s : \A m \in Missions : s \in A(m) <=> \E i \in B(m) : s = <<m, i>>
        OBVIOUS
      <3>3. \A i : \A m \in Missions : i \in B(m) <=> i \in Queued(m) /\ tasks[m][i].obj = o
        OBVIOUS
      <3> HIDE DEF A, B, Q
      <3>4. \A s : s \in Q <=> \E m \in Missions : s \in A(m)
        BY <3>1
      <3> QED
        BY <3>2, <3>3, <3>4
    <2>3. \A s : s \in W <=> \E w \in Workers :
                                HoldsPopped(w) /\ tsk[w].obj = o /\ s = <<w, "popped">>
      OBVIOUS
    <2>4. \A s : s \in P <=> \E p \in Posters :
                                HoldsHint(p) /\ hint[p].obj = o /\ s = <<p, "hint">>
      OBVIOUS
    <2>5. \A s : s \in C <=> \E p \in Posters :
                                tsk[p] # None /\ tsk[p].obj = o /\ s = <<p, "clone">>
      OBVIOUS
    <2> HIDE DEF Q, W, P, C
    <2> QED
      BY <2>1, <2>2, <2>3, <2>4, <2>5
  <1>2. /\ \A m \in Missions, i \in Index :
             <<m, i>> \in Holders(o) <=> i \in Queued(m) /\ tasks[m][i].obj = o
        /\ \A w \in Workers :
             <<w, "popped">> \in Holders(o) <=> HoldsPopped(w) /\ tsk[w].obj = o
        /\ \A p \in Posters :
             /\ <<p, "hint">> \in Holders(o) <=> HoldsHint(p) /\ hint[p].obj = o
             /\ <<p, "clone">> \in Holders(o) <=> tsk[p] # None /\ tsk[p].obj = o
    <2>1. \A t \in Threads : t \notin Missions
      BY ConstantsAssumption
    <2>2. \A w \in Workers, p \in Posters : w # p
      BY ConstantsAssumption
    <2>3. \A m \in Missions, i \in Index :
            <<m, i>> \in Holders(o) <=> i \in Queued(m) /\ tasks[m][i].obj = o
      BY <1>0, <2>1 DEF Threads
    <2>4. \A w \in Workers :
            <<w, "popped">> \in Holders(o) <=> HoldsPopped(w) /\ tsk[w].obj = o
      BY <1>0, <2>1, <2>2 DEF Threads
    <2>5. \A p \in Posters :
            /\ <<p, "hint">> \in Holders(o) <=> HoldsHint(p) /\ hint[p].obj = o
            /\ <<p, "clone">> \in Holders(o) <=> tsk[p] # None /\ tsk[p].obj = o
      BY <1>0, <2>1, <2>2 DEF Threads
    <2> QED
      BY <2>3, <2>4, <2>5
  <1>3. ASSUME NEW m \in Missions, NEW i \in Index
        PROVE  <<m, i>> \in Holders(o) <=> <<m, i>> \in Occupied(Held, o)
    <2>1. i \in Queued(m) => tasks[m][i] # None
      BY <1>1, QueuedTyped
    <2> QED
      BY <1>2, <2>1, HeldAt DEF Occupied, InQueue
  <1>4. ASSUME NEW w \in Workers
        PROVE  <<w, "popped">> \in Holders(o) <=> <<w, "popped">> \in Occupied(Held, o)
    BY <1>2, HeldAt DEF Occupied, Popped, HoldsPopped
  <1>5. ASSUME NEW p \in Posters
        PROVE  /\ <<p, "hint">> \in Holders(o) <=> <<p, "hint">> \in Occupied(Held, o)
               /\ <<p, "clone">> \in Holders(o) <=> <<p, "clone">> \in Occupied(Held, o)
    BY <1>2, HeldAt DEF Occupied, Hinted, HoldsHint
  <1>6. \A s \in Slots : s \in Holders(o) <=> s \in Occupied(Held, o)
    BY <1>3, <1>4, <1>5, SlotKinds
  <1>7. Holders(o) \subseteq Slots
    BY <1>0, <1>1, QueuedTyped DEF Slots
  <1>8. Occupied(Held, o) \subseteq Slots
    BY DEF Occupied
  <1> QED
    BY <1>6, <1>7, <1>8

LEMMA AccountedMatches ==
  ASSUME TypeOK, Accounted
  PROVE  RefsMatchHolders
  BY HoldersOccupy DEF Accounted, Agree, Counts, RefsMatchHolders

\* The task a handler runs on is in a slot: in the queue when the mission is serial, in the
\* worker's hands when it is concurrent.
LEMMA AccountedIsIntact ==
  ASSUME TypeOK, Locals, ScheduledOnce, MappingInv, RefInv
  PROVE  ContentIntact
  <1>1. /\ tasks \in [Missions -> Seq(Entries)] /\ None \notin Entries
        /\ \A s \in Slots : Held[s] # None => IntactIn(Held[s], data)
        /\ HeadPresent /\ HeadTaken
    BY ConstantsAssumption DEF TypeOK, MappingInv, RefInv, Accounted, Agree, Intact
  <1>2. ASSUME NEW m \in Missions, NEW i \in Queued(m)
        PROVE  IntactIn(tasks[m][i], data)
    <2>1. tasks[m][i] # None /\ i \in Index
      BY <1>1, QueuedTyped
    <2> QED
      BY <1>1, <2>1, HeldAt DEF InQueue
  <1>3. ASSUME NEW w \in Workers, pc[w] = "oper"
        PROVE  IntactIn(tsk[w], data)
    <2>1. tsk[w] \in Entries /\ mis[w] \in Missions /\ tsk[w] # None
      BY <1>1, <1>3 DEF Locals, WorkerLocals
    <2>2. CASE Serial(mis[w])
      <3>1. PICK m \in Missions : m = mis[w]
        BY <2>1
      <3>2. Takes(w, m) /\ Owns(w)
        BY <1>3, <2>2, <3>1 DEF Takes, Owns
      <3>3. tasks[m] # <<>> /\ tsk[w] = tasks[m][1] /\ tasks[m] \in Seq(Entries)
        BY <1>1, <3>2 DEF HeadPresent, HeadTaken
      <3>4. 1 \in Queued(m)
        <4>1. Len(tasks[m]) \in Nat \ {0} /\ DOMAIN tasks[m] = 1..Len(tasks[m])
          BY <3>3, LenProperties, EmptySeq
        <4>2. ~HeadReleased(m)
          BY <1>3, <3>1, <3>2, OwnReleased
        <4> QED
          BY <4>1, <4>2 DEF Queued
      <3> QED
        BY <1>2, <3>3, <3>4
    <2>3. CASE ~Serial(mis[w])
      <3>1. Popped(w) = tsk[w]
        BY <1>3, <2>1, <2>3 DEF Popped, HoldsPopped
      <3> QED
        BY <1>1, <2>1, <3>1, HeldAt
    <2> QED
      BY <2>2, <2>3
  <1> QED
    BY <1>2, <1>3 DEF ContentIntact, IntactIn

LEMMA MappingHolds == Spec => []MappingInv
  <1>1. Init => MappingInv
    BY InitMaps
  <1>2. TypeOK /\ Locals /\ ScheduledOnce /\ MappingInv /\ [Next]_vars => MappingInv'
    BY StepMaps, NumberedKept DEF MappingInv
  <1> QED
    BY <1>1, <1>2, Typing, OneOwnerPerMission, PTL DEF Spec

LEMMA ReferencesHold == Spec /\ []ClonesSucceed => []RefInv
  <1>1. Init /\ SlotsTyped => RefInv
    BY InitAccounted DEF SlotsTyped
  <1>2. TypeOK /\ Locals /\ ScheduledOnce /\ MappingInv /\ ClonesSucceed /\ RefInv
          /\ [Next]_vars /\ SlotsTyped' => RefInv'
    BY NextAccounted
  <1>3. TypeOK => SlotsTyped
    BY HeldTyped DEF SlotsTyped
  <1> QED
    BY <1>1, <1>2, <1>3, Typing, OneOwnerPerMission, MappingHolds, PTL DEF Spec

\* While no clone of a copied task fails, an object has one reference for each queue entry,
\* worker and poster that will still use it: it is never recycled while held and never leaks
\* (memory.c:115-170, task.c:278-331).
THEOREM ReferencesMatch == Spec /\ []ClonesSucceed => []RefsMatchHolders
  <1>1. TypeOK /\ RefInv => RefsMatchHolders
    BY AccountedMatches DEF RefInv
  <1> QED
    BY <1>1, Typing, ReferencesHold, PTL

\* While no clone of a copied task fails, a queued task and the task a handler runs on hold
\* what was posted: the pool has neither cleared nor reissued them (memory.c:115-170,
\* task.c:123-146, 278-331).
THEOREM ContentKept == Spec /\ []ClonesSucceed => []ContentIntact
  <1>1. TypeOK /\ Locals /\ ScheduledOnce /\ MappingInv /\ RefInv => ContentIntact
    BY AccountedIsIntact
  <1> QED
    BY <1>1, Typing, OneOwnerPerMission, MappingHolds, ReferencesHold, PTL

(***************************************************************************)
(* Where every type is shared by reference no clone is made that could     *)
(* fail, and the two hold without a condition on the behaviour.            *)
(***************************************************************************)
AllShared == \A t \in Types : CloneMode[t] = "REF"

LEMMA SharedSucceed ==
  ASSUME AllShared, TypeOK, Locals, RefInv
  PROVE  ClonesSucceed
  <1> SUFFICES ASSUME NEW p \in Posters, pc[p] = "clone"
               PROVE  CloneMode[data[hint[p].obj].type] = "REF"
    BY DEF ClonesSucceed
  <1>1. hint[p] \in Entries /\ hint[p] # None
    BY ConstantsAssumption DEF Locals, PosterLocals
  <1>2. Held[<<p, "hint">>] = hint[p] /\ <<p, "hint">> \in Slots
    BY <1>1, HeldAt DEF Hinted, HoldsHint
  <1>3. data[hint[p].obj] # None
    BY <1>1, <1>2 DEF RefInv, Accounted, Agree, Intact, IntactIn
  <1>4. data[hint[p].obj] \in [type : Types, num : Nat]
    BY <1>1, <1>3 DEF TypeOK, Entries
  <1> QED
    BY <1>4 DEF AllShared

\* With tasks shared by reference only (ZCLONE_MODE_REF, task.h), references match holders
\* and handlers find what was posted, whatever the threads do (memory.c:115-139).
THEOREM SharedTasksAreSafe ==
  ASSUME AllShared
  PROVE  Spec => [](RefsMatchHolders /\ ContentIntact)
  <1>1. Init /\ SlotsTyped => RefInv
    BY InitAccounted DEF SlotsTyped
  <1>2. TypeOK /\ Locals /\ ScheduledOnce /\ MappingInv /\ RefInv
          /\ [Next]_vars /\ SlotsTyped' => RefInv'
    BY SharedSucceed, NextAccounted
  <1>3. TypeOK => SlotsTyped
    BY HeldTyped DEF SlotsTyped
  <1>4. TypeOK /\ Locals /\ ScheduledOnce /\ MappingInv /\ RefInv
          => RefsMatchHolders /\ ContentIntact
    BY AccountedMatches, AccountedIsIntact DEF RefInv
  <1> QED
    BY <1>1, <1>2, <1>3, <1>4, Typing, OneOwnerPerMission, MappingHolds, PTL DEF Spec
=============================================================================
