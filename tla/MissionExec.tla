---------------------------- MODULE MissionExec ----------------------------
(***************************************************************************)
(* What the task server promises to the handlers of its missions, without  *)
(* threads, locks or semaphores: every mission has a backlog of tasks;     *)
(* executors take the oldest task of a backlog and run the handler on it;  *)
(* the handler of a SERIAL mission is never run by two executors at once   *)
(* (zit/framework/task.h:28-30 and ZMIS_MODE_SERIAL/CONCURRENT).           *)
(***************************************************************************)
EXTENDS Naturals, Sequences

CONSTANTS Missions,   \* the missions
          Executors,  \* the threads that run handlers
          Items,      \* the tasks, told apart by a number
          SerialMode, \* the missions in ZMIS_MODE_SERIAL
          Idle        \* an executor that runs no handler

VARIABLES pending,    \* pending[m]: tasks submitted to m, oldest first
          exec        \* exec[e]: <<mission, task>> being executed, or Idle

vars == <<pending, exec>>

TypeOK ==
    /\ pending \in [Missions -> Seq(Items)]
    /\ exec \in [Executors -> (Missions \X Items) \cup {Idle}]

Executing(m) == {e \in Executors : exec[e] # Idle /\ exec[e][1] = m}

Init ==
    /\ pending = [m \in Missions |-> <<>>]
    /\ exec = [e \in Executors |-> Idle]

Submit(m, i) ==
    /\ pending' = [pending EXCEPT ![m] = Append(@, i)]
    /\ UNCHANGED exec

Begin(e, m) ==
    /\ exec[e] = Idle
    /\ pending[m] # <<>>
    /\ m \in SerialMode => Executing(m) = {}
    /\ exec' = [exec EXCEPT ![e] = <<m, Head(pending[m])>>]
    /\ pending' = [pending EXCEPT ![m] = Tail(@)]

End(e) ==
    /\ exec[e] # Idle
    /\ exec' = [exec EXCEPT ![e] = Idle]
    /\ UNCHANGED pending

Next ==
    \/ \E m \in Missions, i \in Items : Submit(m, i)
    \/ \E e \in Executors, m \in Missions : Begin(e, m)
    \/ \E e \in Executors : End(e)

Spec == Init /\ [][Next]_vars
=============================================================================
