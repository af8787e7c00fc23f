----------------------------- MODULE ZemqProofs -----------------------------
(***************************************************************************)
(* What holds of Zemq for any number of workers, nodes and connections:    *)
(* whatever the peers do, a queued session is attended to; and if they     *)
(* close only while their session is at rest, a session is in the hands of *)
(* one thread and no input is left unnoticed.                              *)
(***************************************************************************)
EXTENDS Zemq, SequenceTheorems, TLAPS

\* The control points of zproc_worker.
WorkerLabels == {"wait", "pop", "hits", "events", "work", "stat", "del", "exit"}

(***************************************************************************)
(* Queued sessions are attended to.                                        *)
(***************************************************************************)
\* QueueAttended is inductive with the types of the semaphore and of the control points.
Attended ==
  /\ sem_emq \in Nat
  /\ pc \in [Workers -> WorkerLabels]
  /\ QueueAttended

\* A step that leaves the queue, the semaphore and the workers alone, and does not end in the
\* post being skipped.
LEMMA FrameAttended ==
  ASSUME Attended, UNCHANGED <<emq, sem_emq, pc>>, io = "post" => io' = "post"
  PROVE  Attended'
  BY DEF Attended, QueueAttended

\* A step that leaves the queue alone and ends with a worker that does not wait.
LEMMA BusyAttended ==
  ASSUME Attended, sem_emq' \in Nat, pc' \in [Workers -> WorkerLabels],
         NEW w \in Workers, pc'[w] # "wait"
  PROVE  Attended'
  BY DEF Attended, QueueAttended

\* The I/O thread.
LEMMA IoAttended ==
  ASSUME Attended, Io
  PROVE  Attended'
  <1>1. CASE PushSsn
    BY <1>1 DEF PushSsn, IoGoto, Attended, QueueAttended, workerVars
  <1>2. CASE Post
    BY <1>2 DEF Post, IoGoto, Attended, QueueAttended, workerVars
  <1>3. CASE Wait \/ BatchDone \/ PipeEvent \/ PipeEmpty \/ ListenEvent \/ AcceptDone \/ SetReady
    BY <1>3, FrameAttended DEF Wait, BatchDone, PipeEvent, PipeEmpty, ListenEvent, AcceptDone,
       SetReady, IoGoto, queueVars, workerVars
  <1>4. CASE DeleteSsn \/ ExitCommand
    BY <1>4, FrameAttended DEF DeleteSsn, ExitCommand, queueVars, workerVars, ioVars
  <1>5. ASSUME NEW c \in Conns, Accept(c) \/ Refuse(c)
        PROVE  Attended'
    BY <1>5, FrameAttended DEF Accept, Refuse, IoGoto, queueVars, workerVars, ioVars
  <1>6. ASSUME NEW s \in Nodes, Hit(s)
        PROVE  Attended'
    BY <1>6, FrameAttended DEF Hit, IoGoto, queueVars, workerVars
  <1> QED
    BY <1>1, <1>2, <1>3, <1>4, <1>5, <1>6 DEF Io

\* A worker goes back to its wait only from an empty queue.
LEMMA WorkerAttended ==
  ASSUME Attended, NEW w \in Workers, Worker(w)
  PROVE  Attended'
  <1>1. CASE SemWait(w)
    <2>1. sem_emq' \in Nat /\ pc' \in [Workers -> WorkerLabels] /\ pc'[w] = "pop"
      BY <1>1 DEF SemWait, Goto, Attended, WorkerLabels
    <2> QED
      BY <2>1, BusyAttended
  <1>2. CASE PopSsn(w) /\ emq = <<>>
    BY <1>2 DEF PopSsn, Goto, Attended, WorkerLabels, QueueAttended
  <1>3. CASE PopSsn(w) /\ emq # <<>>
    <2>1. sem_emq' \in Nat /\ pc' \in [Workers -> WorkerLabels] /\ pc'[w] = "hits"
      BY <1>3 DEF PopSsn, Goto, Attended, WorkerLabels
    <2> QED
      BY <2>1, BusyAttended
  <1>4. CASE ReadHits(w) \/ TestEvents(w) \/ WorkDone(w)
    <2>1. /\ sem_emq' \in Nat /\ pc' \in [Workers -> WorkerLabels]
          /\ pc'[w] # "wait"
      BY <1>4 DEF ReadHits, TestEvents, WorkDone, Goto, Attended, WorkerLabels, queueVars
    <2> QED
      BY <2>1, BusyAttended
  <1>5. CASE SetIdle(w) \/ Command(w) \/ WorkerExit(w)
    <2>1. /\ sem_emq' \in Nat /\ pc' \in [Workers -> WorkerLabels]
          /\ pc'[w] # "wait"
      BY <1>5 DEF SetIdle, Command, WorkerExit, NextSsn, Goto, Attended, WorkerLabels, queueVars
    <2> QED
      BY <2>1, BusyAttended
  <1>6. CASE ReadMessage(w)
    BY <1>6, FrameAttended DEF ReadMessage, queueVars, ioVars
  <1> QED
    BY <1>1, <1>2, <1>3, <1>4, <1>5, <1>6 DEF Worker

LEMMA OthersAttended ==
  ASSUME Attended, (\E c \in Conns : Peer(c)) \/ Stop \/ Rest \/ UNCHANGED vars
  PROVE  Attended'
  <1>1. ASSUME NEW c \in Conns, Peer(c)
        PROVE  Attended'
    BY <1>1, FrameAttended DEF Peer, Connect, Send, Close, queueVars, workerVars, ioVars
  <1>2. CASE Stop
    BY <1>2, FrameAttended DEF Stop, StopCommand, JoinIo, Release, JoinWorkers, queueVars,
       workerVars, ioVars
  <1>3. CASE Rest \/ UNCHANGED vars
    <2>1. UNCHANGED <<queueVars, ioVars, workerVars>>
      BY <1>3 DEF Rest, vars
    <2> QED
      BY <2>1, FrameAttended DEF queueVars, ioVars, workerVars
  <1> QED
    BY <1>1, <1>2, <1>3

\* A queued session is attended to, whatever the number of workers and sessions, also when
\* sessions are deleted and their nodes reused, and while zemq_stop waits (epoll.c:491-492
\* against 793-795).
THEOREM Attention == Spec => []QueueAttended
  <1>1. Init => Attended
    BY DEF Init, EmqInit, Attended, WorkerLabels, QueueAttended
  <1>2. Attended /\ [Next]_vars => Attended'
    BY IoAttended, WorkerAttended, OthersAttended DEF Next
  <1>3. Attended => QueueAttended
    BY DEF Attended
  <1> QED
    BY <1>1, <1>2, <1>3, PTL DEF Spec

(***************************************************************************)
(* The hands a session goes through.                                       *)
(***************************************************************************)
Occurs(q, x) == \E i \in DOMAIN q : q[i] = x

NoRepeat(q) == \A i, j \in DOMAIN q : q[i] = q[j] => i = j

InPipe(s) == Occurs(pipe, s)

\* The kernel has an event of the session to report.
Due(s) == conn[s] \in ready

\* The I/O thread is about to queue the session.
Pushing(s) == io \in {"set", "push"} /\ cur = s

Active(s) == Pushing(s) \/ Queued(s) \/ \E w \in Workers : Handles(w, s)

Busy == {"hits", "events", "work", "stat", "del"}

Typed ==
  /\ peer \in [Conns -> {"new", "backlog", "open", "closed", "refused"}]
  /\ inbox \in [Conns -> Nat]
  /\ fin \in [Conns -> BOOLEAN]
  /\ ready \subseteq Conns \cup {Listen}
  /\ pipe \in Seq(Nodes \cup {NULL})
  /\ conn \in [Nodes -> Conns \cup {NULL}]
  /\ status \in [Nodes -> {"IDLE", "READY"}]
  /\ events \in [Nodes -> BOOLEAN]
  /\ pin_hits \in [Nodes -> Nat]
  /\ emq \in Seq(Nodes)
  /\ io \in {"wait", "next", "ctl", "accept", "set", "push", "post", "exit"}
  /\ batch \subseteq Nodes \cup {Listen, Pipe}
  /\ cur \in Nodes \cup {NULL}
  /\ io \in {"set", "push", "post"} => cur \in Nodes
  /\ io = "wait" => batch = {}
  /\ pc \in [Workers -> WorkerLabels]
  /\ ssn \in [Workers -> Nodes \cup {NULL}]
  /\ \A w \in Workers : pc[w] \in Busy => ssn[w] \in Nodes
  /\ hits \in [Workers -> Nat]
  /\ ret \in [Workers -> {"ok", "eof"}]
  /\ is_run \in BOOLEAN
  /\ stop \in {"no", "join", "release", "workers", "done"}

\* Open connections and nodes in the tree belong together; a peer that has closed was
\* accepted before.
Connected ==
  /\ \A s \in Nodes : conn[s] # NULL => peer[conn[s]] = "open"
  /\ \A r, s \in Nodes : conn[r] = conn[s] /\ conn[r] # NULL => r = s
  /\ \A c \in Conns : fin[c] => peer[c] \in {"open", "closed"}

\* A session with a job is in one place and its node in the tree.
Alone(s) ==
  /\ Pushing(s) => ~Queued(s) /\ \A w \in Workers : ~Handles(w, s)
  /\ Queued(s) => \A w \in Workers : ~Handles(w, s)
  /\ \A v, w \in Workers : Handles(v, s) /\ Handles(w, s) => v = w
  /\ s \in batch \/ Active(s) \/ InPipe(s) => conn[s] # NULL

\* The status says whether the session has a job; the worker of a session that is to be
\* deleted is the exception.
Marked(s) ==
  /\ Pushing(s) => events[s] /\ (io = "set" => status[s] = "IDLE")
                   /\ (io = "push" => status[s] = "READY")
  /\ Queued(s) => events[s] /\ status[s] = "READY"
  /\ \A w \in Workers : Handles(w, s) /\ pc[w] # "del" => events[s] /\ status[s] = "READY"
  /\ status[s] = "READY" => Active(s) \/ InPipe(s)

\* The end of the input comes last: one event, one job or one command is under way for it.
Ending(s) ==
  /\ conn[s] # NULL /\ fin[conn[s]] =>
       /\ inbox[conn[s]] = 0
       /\ Due(s) \/ s \in batch \/ Active(s) \/ InPipe(s)
       /\ Due(s) => s \notin batch /\ ~Active(s) /\ ~InPipe(s)
       /\ s \in batch => ~Active(s) /\ ~InPipe(s)
       /\ Active(s) => ~InPipe(s)
       /\ \A w \in Workers : Handles(w, s) /\ pc[w] = "stat" => ret[w] = "eof"
  /\ InPipe(s) => fin[conn[s]]
  /\ \A w \in Workers : Handles(w, s) =>
       /\ pc[w] = "del" => ret[w] = "eof"
       /\ pc[w] \in {"hits", "events", "work"} => ret[w] = "ok"
       /\ ret[w] = "eof" => fin[conn[s]]

\* Input that no job will find has an event or a hit of its own.
Heard(s) ==
  /\ \A w \in Workers : Handles(w, s) /\ pc[w] # "hits" => hits[w] <= pin_hits[s]
  /\ conn[s] # NULL /\ inbox[conn[s]] > 0 =>
       \/ Due(s) \/ s \in batch \/ Pushing(s) \/ Queued(s)
       \/ \E w \in Workers : Handles(w, s) /\ (pc[w] = "stat" => pin_hits[s] # hits[w])

\* zemq_stop has not given up the sessions; its command is written once.
Stopped ==
  /\ ~Stopping
  /\ stop = "no" => is_run /\ ~Occurs(pipe, NULL)
  /\ io = "exit" => ~is_run
  /\ stop = "release" => io = "exit"

Session(s) == Alone(s) /\ Marked(s) /\ Ending(s) /\ Heard(s)

Jobs ==
  /\ Connected /\ Stopped /\ NoRepeat(emq) /\ NoRepeat(pipe)
  /\ \A s \in Nodes : Session(s)

\* When it has given them up, what is left of them is still in one place each.
Single(s) ==
  /\ Queued(s) => \A w \in Workers : ~Handles(w, s)
  /\ \A v, w \in Workers : Handles(v, s) /\ Handles(w, s) => v = w

Left == Stopping /\ io = "exit" /\ NoRepeat(emq) /\ \A s \in Nodes : Single(s)

(***************************************************************************)
(* The types.                                                              *)
(***************************************************************************)
LEMMA InitTyped == Init => Typed
  BY EmqAssumption DEF Init, Typed, PeersInit, EmqInit, BuildEmq, WorkerLabels, Busy

LEMMA PeerTyped ==
  ASSUME Typed, NEW c \in Conns, Peer(c)
  PROVE  Typed'
  <1> USE DEF ssnVars, queueVars, ioVars, workerVars, stopVars
  <1>1. CASE Connect(c)
    BY <1>1 DEF Typed, Connect
  <1>2. CASE Send(c)
    BY <1>2 DEF Typed, Send, Notify
  <1>3. CASE Close(c)
    BY <1>3 DEF Typed, Close, Notify
  <1> QED
    BY <1>1, <1>2, <1>3 DEF Peer

LEMMA IoTyped ==
  ASSUME Typed, Io
  PROVE  Typed'
  <1> USE DEF peerVars, ssnVars, queueVars, ioVars, workerVars, stopVars, IoGoto
  <1>1. CASE Wait \/ BatchDone \/ PipeEvent \/ PipeEmpty \/ ListenEvent \/ AcceptDone
    BY <1>1 DEF Typed, Wait, BatchDone, PipeEvent, PipeEmpty, ListenEvent, AcceptDone, Arrived
  <1>2. CASE DeleteSsn
    <2>1. pipe' \in Seq(Nodes \cup {NULL}) /\ Head(pipe) \in Nodes \cup {NULL}
      BY <1>2, HeadTailProperties DEF DeleteSsn, Typed
    <2>2. CASE conn[Head(pipe)] = NULL
      BY <1>2, <2>1, <2>2 DEF DeleteSsn, Typed
    <2>3. CASE conn[Head(pipe)] # NULL
      <3>1. Head(pipe) \in Nodes /\ conn[Head(pipe)] \in Conns
        BY <1>2, <2>1, <2>3 DEF DeleteSsn, Typed
      <3>2. PICK s \in Nodes, c \in Conns :
              /\ peer' = [peer EXCEPT ![c] = "closed"]
              /\ ready' = ready \ {c}
              /\ conn' = [conn EXCEPT ![s] = NULL]
              /\ status' = [status EXCEPT ![s] = "IDLE"]
              /\ events' = [events EXCEPT ![s] = FALSE]
              /\ pin_hits' = [pin_hits EXCEPT ![s] = 0]
        BY <1>2, <2>3, <3>1, Zenon DEF DeleteSsn
      <3>3. UNCHANGED <<inbox, fin, queueVars, ioVars, workerVars, is_run, stop>>
        BY <1>2, Zenon DEF DeleteSsn
      <3> QED
        BY <2>1, <3>2, <3>3 DEF Typed
    <2> QED
      BY <2>2, <2>3
  <1>3. CASE ExitCommand
    <2>1. pipe' \in Seq(Nodes \cup {NULL})
      BY <1>3, HeadTailProperties DEF ExitCommand, Typed
    <2> QED
      BY <1>3, <2>1 DEF ExitCommand, Typed
  <1>4. ASSUME NEW c \in Conns, Accept(c)
        PROVE  Typed'
    <2>1. PICK s \in Nodes : conn' = [conn EXCEPT ![s] = c]
      BY <1>4 DEF Accept, Free
    <2> QED
      BY <1>4, <2>1 DEF Typed, Accept
  <1>9. ASSUME NEW c \in Conns, Refuse(c)
        PROVE  Typed'
    BY <1>9 DEF Typed, Refuse
  <1>5. ASSUME NEW s \in Nodes, Hit(s)
        PROVE  Typed'
    BY <1>5 DEF Typed, Hit
  <1>6. CASE SetReady
    BY <1>6 DEF Typed, SetReady
  <1>7. CASE PushSsn
    <2>1. emq' \in Seq(Nodes)
      BY <1>7, AppendProperties DEF PushSsn, Typed
    <2> QED
      BY <1>7, <2>1 DEF PushSsn, Typed
  <1>8. CASE Post
    BY <1>8, EmqAssumption DEF Typed, Post
  <1> QED
    BY <1>1, <1>2, <1>3, <1>4, <1>5, <1>6, <1>7, <1>8, <1>9 DEF Io

LEMMA WorkerTyped ==
  ASSUME Typed, NEW w \in Workers, Worker(w)
  PROVE  Typed'
  <1> USE DEF peerVars, ssnVars, queueVars, ioVars, workerVars, stopVars, Goto, WorkerLabels, Busy
  <1>1. CASE SemWait(w)
    BY <1>1 DEF Typed, SemWait
  <1>9. CASE WorkerExit(w)
    BY <1>9 DEF Typed, WorkerExit
  <1>2. CASE PopSsn(w)
    <2>1. emq' \in Seq(Nodes) /\ (emq # <<>> => Head(emq) \in Nodes)
      BY <1>2, HeadTailProperties DEF PopSsn, Typed
    <2> QED
      BY <1>2, <2>1 DEF Typed, PopSsn
  <1>3. CASE ReadHits(w)
    BY <1>3 DEF Typed, ReadHits
  <1>4. CASE TestEvents(w)
    BY <1>4 DEF Typed, TestEvents
  <1>5. CASE ReadMessage(w)
    <2>1. inbox' \in [Conns -> Nat]
      BY <1>5 DEF Typed, ReadMessage
    <2> QED
      BY <1>5, <2>1 DEF Typed, ReadMessage
  <1>6. CASE WorkDone(w)
    BY <1>6 DEF Typed, WorkDone
  <1>7. CASE SetIdle(w)
    BY <1>7 DEF Typed, SetIdle, NextSsn
  <1>8. CASE Command(w)
    <2>1. pipe' \in Seq(Nodes \cup {NULL})
      BY <1>8, AppendProperties DEF Command, Typed
    <2> QED
      BY <1>8, <2>1 DEF Typed, Command, NextSsn
  <1> QED
    BY <1>1, <1>2, <1>3, <1>4, <1>5, <1>6, <1>7, <1>8, <1>9 DEF Worker

LEMMA StopTyped ==
  ASSUME Typed, Stop \/ Rest \/ UNCHANGED vars
  PROVE  Typed'
  <1> USE DEF peerVars, ssnVars, queueVars, ioVars, workerVars, stopVars
  <1>1. CASE StopCommand
    <2>1. pipe' \in Seq(Nodes \cup {NULL})
      BY <1>1, AppendProperties DEF StopCommand, Typed
    <2> QED
      BY <1>1, <2>1 DEF Typed, StopCommand
  <1>2. CASE JoinIo \/ JoinWorkers
    BY <1>2 DEF Typed, JoinIo, JoinWorkers
  <1>3. CASE Release
    BY <1>3 DEF Typed, Release
  <1>4. CASE Rest \/ UNCHANGED vars
    BY <1>4 DEF Typed, Rest, vars
  <1> QED
    BY <1>1, <1>2, <1>3, <1>4 DEF Stop

LEMMA NextTyped ==
  ASSUME Typed, [Next]_vars
  PROVE  Typed'
  BY PeerTyped, IoTyped, WorkerTyped, StopTyped DEF Next

(***************************************************************************)
(* The queues, and the initial state.                                      *)
(***************************************************************************)
\* The peers and the handler that the sample assumes: a peer closes a connection while no job
\* for it is under way, and an empty read does not count as the end of the input.
QuietPeers == PeersClose = "quiet" /\ EmptyReadCloses = FALSE

LEMMA QueuedOccurs == \A s : Queued(s) <=> Occurs(emq, s)
  BY DEF Queued, Occurs

LEMMA OccursAppend ==
  ASSUME NEW S, NEW q \in Seq(S), NEW x \in S
  PROVE  /\ \A y : Occurs(Append(q, x), y) <=> Occurs(q, y) \/ y = x
         /\ NoRepeat(q) /\ ~Occurs(q, x) => NoRepeat(Append(q, x))
         /\ Append(q, x) # <<>> /\ Append(q, x)[Len(Append(q, x))] = x
  <1> DEFINE r == Append(q, x)
  <1>1. /\ Len(q) \in Nat /\ DOMAIN q = 1..Len(q)
        /\ Len(r) = Len(q) + 1 /\ DOMAIN r = 1..(Len(q) + 1)
        /\ \A i \in 1..Len(q) : r[i] = q[i]
        /\ r[Len(q) + 1] = x
    BY AppendProperties, LenProperties
  <1> HIDE DEF r
  <1>2. \A y : Occurs(r, y) <=> Occurs(q, y) \/ y = x
    BY <1>1 DEF Occurs
  <1>3. NoRepeat(q) /\ ~Occurs(q, x) => NoRepeat(r)
    BY <1>1 DEF Occurs, NoRepeat
  <1>4. r # <<>> /\ r[Len(r)] = x
    BY <1>1, EmptySeq
  <1> QED
    BY <1>2, <1>3, <1>4 DEF r

LEMMA OccursTail ==
  ASSUME NEW S, NEW q \in Seq(S), q # <<>>
  PROVE  /\ Occurs(q, Head(q)) /\ Head(q) \in S
         /\ NoRepeat(q) =>
              /\ NoRepeat(Tail(q))
              /\ \A y : Occurs(Tail(q), y) <=> Occurs(q, y) /\ y # Head(q)
         /\ q[Len(q)] = Head(q) /\ NoRepeat(q) => Tail(q) = <<>>
         /\ q[Len(q)] # Head(q) => Tail(q) # <<>> /\ Tail(q)[Len(Tail(q))] = q[Len(q)]
  <1> DEFINE r == Tail(q)
  <1>1. /\ Len(q) \in Nat \ {0} /\ DOMAIN q = 1..Len(q)
        /\ r \in Seq(S) /\ Len(r) = Len(q) - 1 /\ DOMAIN r = 1..(Len(q) - 1)
        /\ \A i \in 1..(Len(q) - 1) : r[i] = q[i + 1]
        /\ Head(q) = q[1] /\ Head(q) \in S
    BY HeadTailProperties, LenProperties, EmptySeq
  <1> HIDE DEF r
  <1>2. Occurs(q, Head(q))
    BY <1>1 DEF Occurs
  <1>3. ASSUME NoRepeat(q)
        PROVE  NoRepeat(r) /\ \A y : Occurs(r, y) <=> Occurs(q, y) /\ y # Head(q)
    <2>1. NoRepeat(r)
      <3>1. ASSUME NEW i \in 1..(Len(q) - 1), NEW j \in 1..(Len(q) - 1), r[i] = r[j]
            PROVE  i = j
        <4>1. i + 1 \in 1..Len(q) /\ j + 1 \in 1..Len(q) /\ q[i + 1] = q[j + 1]
          BY <1>1, <3>1
        <4>2. i + 1 = j + 1
          BY <1>1, <1>3, <4>1 DEF NoRepeat
        <4> QED
          BY <4>2
      <3> QED
        BY <1>1, <3>1 DEF NoRepeat
    <2>2. ASSUME NEW y, Occurs(r, y)
          PROVE  Occurs(q, y) /\ y # Head(q)
      BY <1>1, <1>3, <2>2 DEF Occurs, NoRepeat
    <2>3. ASSUME NEW y, Occurs(q, y), y # Head(q)
          PROVE  Occurs(r, y)
      <3>1. PICK i \in 1..Len(q) : q[i] = y /\ i # 1
        BY <1>1, <2>3 DEF Occurs
      <3>2. i - 1 \in 1..(Len(q) - 1) /\ r[i - 1] = y
        BY <1>1, <3>1
      <3> QED
        BY <1>1, <3>2 DEF Occurs
    <2> QED
      BY <2>1, <2>2, <2>3
  <1>4. q[Len(q)] = Head(q) /\ NoRepeat(q) => r = <<>>
    <2>1. q[Len(q)] = Head(q) /\ NoRepeat(q) => Len(r) = 0
      BY <1>1 DEF NoRepeat
    <2> QED
      BY <1>1, <2>1, EmptySeq
  <1>5. q[Len(q)] # Head(q) => r # <<>> /\ r[Len(r)] = q[Len(q)]
    BY <1>1, EmptySeq
  <1> QED
    BY <1>1, <1>2, <1>3, <1>4, <1>5 DEF r

LEMMA InitJobs == Init => Jobs
  BY EmqAssumption, EmptySeq DEF Init, PeersInit, EmqInit, BuildEmq, Jobs, Connected, Stopped, Stopping,
     NoRepeat, Occurs, Session, Alone, Marked, Ending, Heard, Active, Pushing, Queued, Handles, InPipe, Due

(***************************************************************************)
(* A step that leaves the job of a session where it is.                    *)
(***************************************************************************)
SameJob(s) ==
  /\ UNCHANGED <<conn[s], status[s], events[s], pin_hits[s]>>
  /\ Queued(s)' <=> Queued(s)
  /\ InPipe(s)' <=> InPipe(s)
  /\ \A l \in {"set", "push"} : io' = l /\ cur' = s <=> io = l /\ cur = s
  /\ \A w \in Workers :
       /\ Handles(w, s)' <=> Handles(w, s)
       /\ Handles(w, s) => pc'[w] = pc[w] /\ hits'[w] = hits[w] /\ ret'[w] = ret[w]

\* Neither input nor the end of the input is lost on the way from the kernel.
SameEvents(s) ==
  /\ s \in batch' => conn[s] # NULL
  /\ conn[s] # NULL =>
       /\ fin'[conn[s]] = fin[conn[s]]
       /\ fin[conn[s]] =>
            /\ inbox'[conn[s]] = inbox[conn[s]]
            /\ Due(s)' \/ s \in batch' <=> Due(s) \/ s \in batch
            /\ ~(Due(s)' /\ s \in batch')
       /\ \/ Due(s)'
          \/ inbox'[conn[s]] = 0
          \/ inbox[conn[s]] > 0 /\ (Due(s) \/ s \in batch => Due(s)' \/ s \in batch')

LEMMA SameSession ==
  ASSUME NEW s \in Nodes, Session(s), SameJob(s), SameEvents(s), inbox' \in [Conns -> Nat],
         conn[s] \in Conns \cup {NULL}
  PROVE  Session(s)'
  <1>1. conn'[s] = conn[s] /\ status'[s] = status[s] /\ events'[s] = events[s]
        /\ pin_hits'[s] = pin_hits[s]
    BY DEF SameJob
  <1>2. /\ Pushing(s)' <=> Pushing(s)
        /\ Queued(s)' <=> Queued(s)
        /\ InPipe(s)' <=> InPipe(s)
        /\ Pushing(s) => io' = io
    BY DEF SameJob, Pushing
  <1>3. \A w \in Workers :
          /\ Handles(w, s)' <=> Handles(w, s)
          /\ Handles(w, s) => pc'[w] = pc[w] /\ hits'[w] = hits[w] /\ ret'[w] = ret[w]
    BY DEF SameJob
  <1>4. Active(s)' <=> Active(s)
    BY <1>2, <1>3, Zenon DEF Active
  <1>5. Alone(s)'
    BY <1>1, <1>2, <1>3, <1>4 DEF Session, Alone, SameEvents
  <1>6. Marked(s)'
    BY <1>1, <1>2, <1>3, <1>4 DEF Session, Marked
  <1>7. Ending(s)'
    <2>1. InPipe(s) \/ Active(s) => conn[s] # NULL
      BY DEF Session, Alone
    <2>2. \A w \in Workers : Handles(w, s) => Active(s)
      BY DEF Active
    <2>3. Ending(s)
      BY DEF Session
    <2> QED
      BY <1>1, <1>2, <1>3, <1>4, <2>1, <2>2, <2>3 DEF Ending, SameEvents
  <1>8. Heard(s)'
    <2>1. Heard(s)
      BY DEF Session
    <2> QED
      BY <1>1, <1>2, <1>3, <2>1 DEF Heard, SameEvents
  <1> QED
    BY <1>5, <1>6, <1>7, <1>8 DEF Session

\* Nothing of what says where jobs are is changed, except that the I/O thread may go on.
LEMMA SameJobs ==
  ASSUME NEW s \in Nodes, UNCHANGED <<conn, status, events, pin_hits, emq, pipe, pc, ssn, hits, ret>>,
         io \notin {"set", "push"} \/ UNCHANGED <<io, cur>>,
         io' \notin {"set", "push"} \/ UNCHANGED <<io, cur>>
  PROVE  SameJob(s)
  BY DEF SameJob, Queued, InPipe, Handles

(***************************************************************************)
(* A session that worker w handles.                                        *)
(***************************************************************************)
Held(w, s) ==
  /\ Handles(w, s)
  /\ \A v \in Workers : Handles(v, s) => v = w
  /\ ~Pushing(s) /\ ~Queued(s) /\ ~InPipe(s)
  /\ conn[s] # NULL
  /\ pc[w] # "del" => events[s] /\ status[s] = "READY"
  /\ fin[conn[s]] => /\ inbox[conn[s]] = 0 /\ ~Due(s) /\ s \notin batch
                     /\ pc[w] = "stat" => ret[w] = "eof"
  /\ pc[w] = "del" => ret[w] = "eof"
  /\ pc[w] \in {"hits", "events", "work"} => ret[w] = "ok"
  /\ ret[w] = "eof" => fin[conn[s]]
  /\ pc[w] # "hits" => hits[w] <= pin_hits[s]
  /\ inbox[conn[s]] > 0 => Due(s) \/ s \in batch \/ (pc[w] = "stat" => pin_hits[s] # hits[w])

LEMMA SessionHeld ==
  ASSUME NEW s \in Nodes, NEW w \in Workers, Session(s), Handles(w, s)
  PROVE  Held(w, s)
  <1>1. Active(s)
    BY DEF Active
  <1>2. /\ ~Pushing(s) /\ ~Queued(s) /\ conn[s] # NULL
        /\ \A v \in Workers : Handles(v, s) => v = w
    BY <1>1 DEF Session, Alone
  <1> QED
    BY <1>1, <1>2 DEF Session, Marked, Ending, Heard, Held

LEMMA HeldSession ==
  ASSUME NEW s \in Nodes, NEW w \in Workers, Held(w, s)'
  PROVE  Session(s)'
  <1>1. Active(s)'
    BY DEF Active, Held
  <1>2. Alone(s)'
    BY <1>1 DEF Alone, Held
  <1>3. Marked(s)'
    BY <1>1 DEF Marked, Held
  <1>4. Ending(s)'
    BY <1>1 DEF Ending, Held
  <1>5. Heard(s)'
    BY <1>1 DEF Heard, Held
  <1> QED
    BY <1>2, <1>3, <1>4, <1>5 DEF Session

\* A session without a job.
Idle(s) ==
  /\ \A v \in Workers : ~Handles(v, s)
  /\ ~Pushing(s) /\ ~Queued(s)
  /\ conn[s] = NULL => s \notin batch /\ ~InPipe(s)
  /\ status[s] = "READY" => InPipe(s)
  /\ InPipe(s) => fin[conn[s]]
  /\ conn[s] # NULL /\ fin[conn[s]] =>
       /\ inbox[conn[s]] = 0
       /\ Due(s) \/ s \in batch \/ InPipe(s)
       /\ Due(s) => s \notin batch /\ ~InPipe(s)
       /\ s \in batch => ~InPipe(s)
  /\ conn[s] # NULL /\ inbox[conn[s]] > 0 => Due(s) \/ s \in batch

LEMMA SessionIdle ==
  ASSUME NEW s \in Nodes, Session(s), ~Active(s)
  PROVE  Idle(s)
  BY DEF Session, Alone, Marked, Ending, Heard, Active, Idle

LEMMA IdleSession ==
  ASSUME NEW s \in Nodes, Idle(s)'
  PROVE  Session(s)'
  BY DEF Session, Alone, Marked, Ending, Heard, Active, Idle

(***************************************************************************)
(* The peers.                                                              *)
(***************************************************************************)
LEMMA PeerJobs ==
  ASSUME Typed, Typed', Jobs, QuietPeers, NEW c \in Conns, Peer(c)
  PROVE  Jobs'
  <1>1. /\ UNCHANGED <<stop, is_run, io, pipe, emq, cur, batch>>
        /\ UNCHANGED <<conn, status, events, pin_hits, pc, ssn, hits, ret>>
    BY DEF Peer, Connect, Send, Close, ssnVars, queueVars, ioVars, workerVars, stopVars
  <1>2. Stopped' /\ NoRepeat(emq') /\ NoRepeat(pipe')
    BY <1>1 DEF Jobs, Stopped, Stopping
  <1>3. ASSUME NEW s \in Nodes
        PROVE  Session(s) /\ SameJob(s) /\ conn[s] \in Conns \cup {NULL} /\ (s \in batch => conn[s] # NULL)
    BY <1>1, <1>3, SameJobs DEF Jobs, Typed, Session, Alone
  <1>4. inbox' \in [Conns -> Nat]
    BY DEF Typed
  <1>5. CASE Connect(c)
    <2>1. Connected'
      BY <1>1, <1>5 DEF Connect, Jobs, Connected, Typed
    <2>2. ASSUME NEW s \in Nodes
          PROVE  SameEvents(s)
      BY <1>1, <1>3, <1>5, <2>2, EmqAssumption DEF Connect, Session, Ending, SameEvents, Due, Typed
    <2> QED
      BY <1>2, <1>3, <1>4, <2>1, <2>2, SameSession DEF Jobs
  <1>6. CASE Send(c)
    <2>1. Connected'
      BY <1>1, <1>6 DEF Send, Jobs, Connected, Typed
    <2>2. ASSUME NEW s \in Nodes
          PROVE  SameEvents(s)
      BY <1>1, <1>3, <1>6, <2>2, EmqAssumption DEF Send, Notify, Jobs, Connected, Session, Ending, SameEvents, Due, Typed
    <2> QED
      BY <1>2, <1>3, <1>4, <2>1, <2>2, SameSession DEF Jobs
  <1>7. CASE Close(c)
    <2>1. PICK r \in Nodes :
            /\ conn[r] = c /\ inbox[c] = 0 /\ c \notin ready
            /\ r \notin batch /\ cur # r
            /\ ~Queued(r) /\ \A w \in Workers : ~Handles(w, r)
      BY <1>7 DEF Close, Quiet, QuietPeers
    <2>2. /\ fin' = [fin EXCEPT ![c] = TRUE] /\ inbox' = inbox /\ peer' = peer /\ ~fin[c]
          /\ peer[c] = "open" => ready' = ready \cup {c}
      BY <1>7 DEF Close, Notify
    <2>3. peer[c] = "open" /\ ready' = ready \cup {c}
      BY <2>1, <2>2, EmqAssumption DEF Jobs, Connected
    <2>4. Connected'
      BY <1>1, <2>2, <2>3 DEF Jobs, Connected, Typed
    <2>5. Session(r)'
      <3>1. Idle(r) /\ ~InPipe(r)
        BY <1>3, <2>1, <2>2, SessionIdle DEF Active, Pushing, Idle
      <3>2. ~Queued(r)' /\ ~Pushing(r)' /\ ~InPipe(r)' /\ \A w \in Workers : ~Handles(w, r)'
        BY <1>1, <2>1, <3>1 DEF Queued, Pushing, InPipe, Handles
      <3>3. Idle(r)'
        BY <1>1, <2>1, <2>2, <2>3, <3>1, <3>2 DEF Idle, Due
      <3> QED
        BY <3>3, IdleSession
    <2>6. ASSUME NEW s \in Nodes, s # r
          PROVE  SameEvents(s)
      <3>1. Session(s) /\ conn[s] \in Conns \cup {NULL} /\ conn[s] # c
        BY <1>3, <2>1, <2>6, EmqAssumption DEF Jobs, Connected
      <3>2. Due(s)' <=> Due(s)
        BY <1>1, <2>3, <3>1 DEF Due
      <3>3. conn[s] # NULL => fin'[conn[s]] = fin[conn[s]]
        BY <2>2, <3>1 DEF Typed
      <3>4. conn[s] # NULL => inbox[conn[s]] \in Nat
        BY <3>1 DEF Typed
      <3> QED
        BY <1>1, <1>3, <2>2, <3>1, <3>2, <3>3, <3>4 DEF Session, Ending, SameEvents
    <2> QED
      BY <1>2, <1>3, <1>4, <2>4, <2>5, <2>6, SameSession DEF Jobs
  <1> QED
    BY <1>5, <1>6, <1>7 DEF Peer

(***************************************************************************)
(* The I/O thread.                                                         *)
(***************************************************************************)
\* It waits, accepts, and takes events of the listening socket and the pipe.
LEMMA IoQuietJobs ==
  ASSUME Typed, Typed', Jobs,
         \/ Wait \/ BatchDone \/ PipeEvent \/ PipeEmpty \/ ListenEvent \/ AcceptDone \/ Post
         \/ \E c \in Conns : Refuse(c)
  PROVE  Jobs'
  <1>1. /\ UNCHANGED <<conn, status, events, pin_hits, emq, pipe, pc, ssn, hits, ret>>
        /\ UNCHANGED <<inbox, fin, stop, is_run>>
        /\ io \notin {"set", "push", "exit"} /\ io' \notin {"set", "push"}
        /\ io' = "exit" => ~is_run
    BY DEF Wait, BatchDone, PipeEvent, PipeEmpty, ListenEvent, AcceptDone, Post, Refuse, IoGoto,
       peerVars, ssnVars, queueVars, workerVars, stopVars
  <1>2. /\ \A s \in Nodes : Due(s)' \/ s \in batch' => Due(s) \/ s \in batch
        /\ \A s \in Nodes : conn[s] # NULL /\ Readable(conn[s]) /\ (Due(s) \/ s \in batch)
             => Due(s)' \/ s \in batch'
        /\ \A s \in Nodes : Due(s)' /\ s \in batch' => Due(s) /\ s \in batch
        /\ \A s \in Nodes : s \in batch' => s \in batch \/ conn[s] # NULL
    <2>1. CASE Wait
      <3>1. ready' = {} /\ \A s \in Nodes : s \in batch' <=> Due(s) /\ Readable(conn[s])
        BY <2>1, EmqAssumption DEF Wait, Arrived, Due
      <3>2. io = "wait"
        BY <2>1 DEF Wait, IoGoto
      <3>3. \A s \in Nodes : Due(s) => conn[s] # NULL
        BY EmqAssumption DEF Due, Typed
      <3>4. \A s \in Nodes : s \notin batch
        BY <3>2 DEF Typed
      <3> QED
        BY <1>1, <3>1, <3>3, <3>4 DEF Due
    <2>2. CASE ~Wait
      <3>1. ready' = ready /\ \A s \in Nodes : s \in batch' <=> s \in batch
        BY <2>2, EmqAssumption DEF BatchDone, PipeEvent, PipeEmpty, ListenEvent, AcceptDone, Post, Refuse
      <3> QED
        BY <1>1, <3>1 DEF Due
    <2> QED
      BY <2>1, <2>2
  <1>3. \A c \in Conns : peer'[c] = peer[c] \/ (peer[c] = "backlog" /\ peer'[c] = "refused")
    <2>1. CASE \E c \in Conns : Refuse(c)
      BY <2>1 DEF Refuse, Typed
    <2>2. CASE ~\E c \in Conns : Refuse(c)
      BY <2>2 DEF Wait, BatchDone, PipeEvent, PipeEmpty, ListenEvent, AcceptDone, Post, peerVars
    <2> QED
      BY <2>1, <2>2
  <1>4. Connected'
    <2>1. \A c \in Conns : peer[c] = "open" => peer'[c] = "open"
      BY <1>3
    <2> QED
      BY <1>1, <1>3, <2>1 DEF Jobs, Connected, Typed
  <1>5. ASSUME NEW s \in Nodes
        PROVE  Session(s) /\ SameJob(s) /\ conn[s] \in Conns \cup {NULL} /\ (s \in batch => conn[s] # NULL)
    BY <1>1, <1>5, SameJobs DEF Jobs, Typed, Session, Alone
  <1>6. ASSUME NEW s \in Nodes
        PROVE  SameEvents(s)
    BY <1>1, <1>2, <1>5, <1>6 DEF SameEvents, Readable, Session, Ending, Typed
  <1>7. \A s \in Nodes : Session(s)'
    BY <1>5, <1>6, SameSession DEF Typed
  <1>8. Stopped'
    BY <1>1 DEF Jobs, Stopped, Stopping
  <1> QED
    BY <1>1, <1>4, <1>7, <1>8 DEF Jobs

LEMMA AcceptJobs ==
  ASSUME Typed, Typed', Jobs, NEW c \in Conns, Accept(c)
  PROVE  Jobs'
  <1>1. PICK r \in Nodes : conn[r] = NULL /\ conn' = [conn EXCEPT ![r] = c]
    BY DEF Accept, Free
  <1>2. /\ peer[c] = "backlog" /\ peer' = [peer EXCEPT ![c] = "open"]
        /\ ready' = (IF Readable(c) THEN ready \cup {c} ELSE ready)
        /\ io = "accept" /\ UNCHANGED <<io, cur, batch, stop, is_run, pipe, emq, inbox, fin>>
        /\ UNCHANGED <<status, events, pin_hits, pc, ssn, hits, ret>>
    BY DEF Accept, ioVars, stopVars, queueVars, workerVars
  <1>3. ~fin[c]
    BY <1>2 DEF Jobs, Connected
  <1>4. Connected'
    BY <1>1, <1>2, <1>3, EmqAssumption DEF Jobs, Connected, Typed
  <1>5. Stopped'
    BY <1>2 DEF Jobs, Stopped, Stopping
  <1>6. Session(r)'
    <2>1. Session(r) /\ ~Active(r) /\ r \notin batch /\ ~InPipe(r)
      BY <1>1 DEF Jobs, Session, Alone
    <2>2. Idle(r)
      BY <2>1, SessionIdle
    <2>3. ~Queued(r)' /\ ~Pushing(r)' /\ ~InPipe(r)' /\ \A w \in Workers : ~Handles(w, r)'
      BY <1>2, <2>1, <2>2 DEF Idle, Queued, Pushing, InPipe, Handles
    <2>4. Idle(r)'
      BY <1>1, <1>2, <1>3, <2>1, <2>2, <2>3 DEF Idle, Due, Readable, Typed
    <2> QED
      BY <2>4, IdleSession
  <1>7. ASSUME NEW s \in Nodes, s # r
        PROVE  Session(s)'
    <2>1. Session(s) /\ conn'[s] = conn[s] /\ conn[s] \in Conns \cup {NULL}
      BY <1>1, <1>7 DEF Jobs, Typed
    <2>2. SameJob(s)
      BY <1>2, <2>1 DEF SameJob, Queued, InPipe, Handles
    <2>3. conn[s] # c
      BY <1>2, EmqAssumption DEF Jobs, Connected
    <2>4. SameEvents(s)
      BY <1>2, <2>1, <2>3, EmqAssumption DEF SameEvents, Session, Alone, Ending, Due, Typed
    <2> QED
      BY <2>1, <2>2, <2>4, SameSession DEF Typed
  <1> QED
    BY <1>2, <1>4, <1>5, <1>6, <1>7 DEF Jobs

\* A session that is queued, or about to be.
Listed(s) ==
  /\ Pushing(s) \/ Queued(s)
  /\ Pushing(s) => ~Queued(s) /\ status[s] = IF io = "push" THEN "READY" ELSE "IDLE"
  /\ Queued(s) => status[s] = "READY"
  /\ \A w \in Workers : ~Handles(w, s)
  /\ ~InPipe(s) /\ events[s] /\ conn[s] # NULL
  /\ fin[conn[s]] => inbox[conn[s]] = 0 /\ ~Due(s) /\ s \notin batch

LEMMA SessionListed ==
  ASSUME NEW s \in Nodes, Session(s), Pushing(s) \/ Queued(s)
  PROVE  Listed(s)
  <1>1. Active(s) /\ Alone(s)
    BY DEF Active, Session
  <1> QED
    BY <1>1 DEF Session, Alone, Marked, Ending, Listed, Pushing

LEMMA ListedSession ==
  ASSUME NEW s \in Nodes, Listed(s)'
  PROVE  Session(s)'
  <1>1. Active(s)'
    BY DEF Active, Listed
  <1>2. Alone(s)'
    BY <1>1 DEF Alone, Listed
  <1>3. Marked(s)'
    BY <1>1 DEF Marked, Listed, Pushing
  <1>4. Ending(s)'
    BY <1>1 DEF Ending, Listed
  <1>5. Heard(s)'
    BY <1>1 DEF Heard, Listed
  <1> QED
    BY <1>2, <1>3, <1>4, <1>5 DEF Session

\* Only zemq_stop writes the command without a session, and it has its effect.
LEMMA StillRunning ==
  ASSUME Jobs, UNCHANGED <<stop, is_run>>, stop = "no" => ~Occurs(pipe', NULL),
         io' = io \/ (io # "exit" /\ io' # "exit")
  PROVE  Stopped'
  BY DEF Jobs, Stopped, Stopping

LEMMA HitJobs ==
  ASSUME Typed, Typed', Jobs, NEW r \in Nodes, Hit(r)
  PROVE  Jobs'
  <1>1. /\ r \in batch /\ io = "next" /\ batch' = batch \ {r}
        /\ io' = (IF status[r] = "IDLE" THEN "set" ELSE "next")
        /\ cur' = (IF status[r] = "IDLE" THEN r ELSE NULL)
        /\ pin_hits' = [pin_hits EXCEPT ![r] = @ + 1]
        /\ events' = [events EXCEPT ![r] = TRUE]
        /\ UNCHANGED <<peerVars, ready, pipe, conn, status, emq, pc, ssn, hits, ret, stop, is_run>>
    BY DEF Hit, IoGoto, queueVars, workerVars, stopVars
  <1>2. Session(r) /\ conn[r] # NULL /\ conn[r] \in Conns /\ ~InPipe(r)
    BY <1>1 DEF Jobs, Session, Alone, Ending, Typed
  <1>3. Stopped'
    BY <1>1, StillRunning DEF Jobs, Stopped
  <1>4. Connected'
    BY <1>1 DEF Jobs, Connected, peerVars
  <1>5. /\ Queued(r)' <=> Queued(r)
        /\ \A w \in Workers : Handles(w, r)' <=> Handles(w, r)
        /\ ~Pushing(r) /\ ~InPipe(r)'
        /\ Due(r)' <=> Due(r)
    BY <1>1, <1>2 DEF Queued, Handles, Pushing, InPipe, Due
  <1>6. Session(r)'
    <2>1. CASE status[r] = "IDLE"
      <3>1. \A w \in Workers : ~Handles(w, r)
        <4>1. ASSUME NEW w \in Workers, Handles(w, r)
              PROVE  FALSE
          BY <1>1, <1>2, <2>1, <4>1, SessionHeld DEF Held
        <4> QED
          BY <4>1
      <3>2. ~Queued(r)
        BY <1>2, <2>1 DEF Session, Marked
      <3>3. fin[conn[r]] => inbox[conn[r]] = 0 /\ ~Due(r)
        BY <1>1, <1>2 DEF Session, Ending
      <3>4. Pushing(r)' /\ events'[r] /\ r \notin batch'
        BY <1>1, <2>1 DEF Pushing, Typed
      <3>5. Listed(r)'
        BY <1>1, <1>2, <1>5, <2>1, <3>1, <3>2, <3>3, <3>4 DEF Listed, peerVars
      <3> QED
        BY <3>5, ListedSession
    <2>2. CASE Queued(r) /\ status[r] = "READY"
      <3>1. Listed(r)
        BY <1>2, <2>2, SessionListed
      <3>2. events'[r] /\ r \notin batch' /\ ~Pushing(r)'
        BY <1>1, <2>2 DEF Pushing, Typed
      <3>3. Listed(r)'
        BY <1>1, <1>5, <2>2, <3>1, <3>2 DEF Listed, peerVars
      <3> QED
        BY <3>3, ListedSession
    <2>3. ASSUME NEW w \in Workers, Handles(w, r), status[r] = "READY"
          PROVE  Session(r)'
      <3>1. Held(w, r)
        BY <1>2, <2>3, SessionHeld
      <3>2. events'[r] /\ r \notin batch' /\ ~Pushing(r)' /\ pin_hits'[r] = pin_hits[r] + 1
        BY <1>1, <2>3 DEF Pushing, Typed
      <3>3. pin_hits[r] \in Nat /\ hits[w] \in Nat
        BY DEF Typed
      <3>4. fin[conn[r]] => pc[w] # "stat"
        BY <1>1, <3>1 DEF Held
      <3>5. Held(w, r)'
        BY <1>1, <1>5, <2>3, <3>1, <3>2, <3>3, <3>4 DEF Held, peerVars
      <3> QED
        BY <3>5, HeldSession
    <2>4. status[r] \in {"IDLE", "READY"}
      BY DEF Typed
    <2>5. status[r] = "READY" => Active(r)
      BY <1>2 DEF Session, Marked
    <2> QED
      BY <1>5, <2>1, <2>2, <2>3, <2>4, <2>5 DEF Active
  <1>7. ASSUME NEW s \in Nodes, s # r
        PROVE  Session(s)'
    <2>1. Session(s) /\ conn[s] \in Conns \cup {NULL}
      BY DEF Jobs, Typed
    <2>2. SameJob(s)
      BY <1>1, <1>7 DEF SameJob, Queued, InPipe, Handles, Typed
    <2>3. SameEvents(s)
      BY <1>1, <1>7, <2>1 DEF SameEvents, Session, Alone, Ending, Due, Typed, peerVars
    <2> QED
      BY <2>1, <2>2, <2>3, SameSession DEF Typed
  <1> QED
    BY <1>1, <1>3, <1>4, <1>6, <1>7 DEF Jobs

LEMMA SetReadyJobs ==
  ASSUME Typed, Typed', Jobs, SetReady
  PROVE  Jobs'
  <1>1. /\ io = "set" /\ io' = "push" /\ status' = [status EXCEPT ![cur] = "READY"]
        /\ UNCHANGED <<peerVars, ready, pipe, conn, events, pin_hits, emq, batch, cur, pc, ssn,
                       hits, ret, stop, is_run>>
    BY DEF SetReady, IoGoto, queueVars, workerVars, stopVars
  <1>2. cur \in Nodes /\ Pushing(cur) /\ Session(cur)
    BY <1>1 DEF Typed, Pushing, Jobs
  <1>3. Stopped'
    BY <1>1, StillRunning DEF Jobs, Stopped
  <1>4. Connected'
    BY <1>1 DEF Jobs, Connected, peerVars
  <1>5. PICK r \in Nodes : r = cur
    BY <1>2
  <1>6. Session(r)'
    <2>1. Listed(r)
      BY <1>2, <1>5, SessionListed
    <2>2. /\ Queued(r)' <=> Queued(r)
          /\ \A w \in Workers : Handles(w, r)' <=> Handles(w, r)
          /\ Pushing(r) /\ Pushing(r)' /\ (InPipe(r)' <=> InPipe(r))
          /\ Due(r)' <=> Due(r)
      BY <1>1, <1>2, <1>5 DEF Queued, Handles, Pushing, InPipe, Due
    <2>3. status'[r] = "READY"
      BY <1>1, <1>5 DEF Typed
    <2>4. Listed(r)'
      BY <1>1, <2>1, <2>2, <2>3 DEF Listed, peerVars
    <2> QED
      BY <2>4, ListedSession
  <1>7. ASSUME NEW s \in Nodes, s # r
        PROVE  Session(s)'
    <2>1. Session(s) /\ conn[s] \in Conns \cup {NULL}
      BY DEF Jobs, Typed
    <2>2. SameJob(s)
      BY <1>1, <1>5, <1>7 DEF SameJob, Queued, InPipe, Handles, Typed
    <2>3. SameEvents(s)
      BY <1>1, <2>1 DEF SameEvents, Session, Alone, Ending, Due, Typed, peerVars
    <2> QED
      BY <2>1, <2>2, <2>3, SameSession DEF Typed
  <1> QED
    BY <1>1, <1>3, <1>4, <1>6, <1>7 DEF Jobs

LEMMA PushSsnJobs ==
  ASSUME Typed, Typed', Jobs, PushSsn
  PROVE  Jobs'
  <1>1. /\ io = "push" /\ io' = "post" /\ emq' = Append(emq, cur)
        /\ UNCHANGED <<peerVars, ready, pipe, ssnVars, batch, cur, pc, ssn, hits, ret, stop, is_run>>
    BY DEF PushSsn, IoGoto, workerVars, stopVars
  <1>2. cur \in Nodes /\ Pushing(cur) /\ Session(cur)
    BY <1>1 DEF Typed, Pushing, Jobs
  <1>3. Stopped'
    BY <1>1, StillRunning DEF Jobs, Stopped
  <1>4. Connected'
    BY <1>1 DEF Jobs, Connected, peerVars, ssnVars
  <1>5. PICK r \in Nodes : r = cur
    BY <1>2
  <1>6. Listed(r)
    BY <1>2, <1>5, SessionListed
  <1>7. (\A s : Queued(s)' <=> Queued(s) \/ s = r) /\ NoRepeat(emq')
    <2>1. emq \in Seq(Nodes) /\ ~Occurs(emq, r) /\ NoRepeat(emq)
      BY <1>2, <1>5, <1>6, QueuedOccurs DEF Listed, Typed, Jobs
    <2>2. \A s : Occurs(emq', s) <=> Occurs(emq, s) \/ s = r
      BY <1>1, <1>5, <2>1, OccursAppend
    <2>3. NoRepeat(emq')
      BY <1>1, <1>5, <2>1, OccursAppend
    <2>4. \A s : Queued(s)' <=> Occurs(emq', s)
      BY DEF Queued, Occurs
    <2> QED
      BY <2>2, <2>3, <2>4, QueuedOccurs
  <1>8. Session(r)'
    <2>2. /\ Queued(r)'
          /\ \A w \in Workers : Handles(w, r)' <=> Handles(w, r)
          /\ ~Pushing(r)' /\ (InPipe(r)' <=> InPipe(r))
          /\ Due(r)' <=> Due(r)
          /\ status[r] = "READY"
      BY <1>1, <1>2, <1>5, <1>6, <1>7 DEF Handles, Pushing, InPipe, Due, ssnVars, Listed
    <2>4. Listed(r)'
      BY <1>1, <1>6, <2>2 DEF Listed, peerVars, ssnVars
    <2> QED
      BY <2>4, ListedSession
  <1>9. ASSUME NEW s \in Nodes, s # r
        PROVE  Session(s)'
    <2>1. Session(s) /\ conn[s] \in Conns \cup {NULL}
      BY DEF Jobs, Typed
    <2>2. SameJob(s)
      BY <1>1, <1>5, <1>7, <1>9 DEF SameJob, InPipe, Handles, ssnVars
    <2>3. SameEvents(s)
      BY <1>1, <2>1 DEF SameEvents, Session, Alone, Ending, Due, Typed, peerVars, ssnVars
    <2> QED
      BY <2>1, <2>2, <2>3, SameSession DEF Typed
  <1> QED
    BY <1>1, <1>3, <1>4, <1>7, <1>8, <1>9 DEF Jobs

LEMMA DeleteSsnJobs ==
  ASSUME Typed, Typed', Jobs, DeleteSsn
  PROVE  Jobs'
  <1>1. /\ io = "ctl" /\ pipe # <<>> /\ Head(pipe) # NULL /\ pipe' = Tail(pipe)
        /\ UNCHANGED <<inbox, fin, emq, io, batch, cur, pc, ssn, hits, ret>>
    BY DEF DeleteSsn, queueVars, ioVars, workerVars
  <1>2. /\ pipe \in Seq(Nodes \cup {NULL}) /\ NoRepeat(pipe)
    BY DEF Typed, Jobs
  <1>3. PICK r \in Nodes : r = Head(pipe)
    BY <1>1, <1>2, OccursTail
  <1>4. InPipe(r) /\ (\A s : InPipe(s)' <=> InPipe(s) /\ s # r) /\ NoRepeat(pipe')
    BY <1>1, <1>2, <1>3, OccursTail DEF InPipe
  <1>5. Session(r) /\ conn[r] # NULL /\ fin[conn[r]] /\ ~Active(r) /\ r \notin batch /\ ~Due(r)
    <2>1. Session(r)
      BY DEF Jobs
    <2>2. conn[r] # NULL /\ fin[conn[r]]
      BY <1>4, <2>1 DEF Session, Alone, Ending
    <2> QED
      BY <1>4, <2>1, <2>2 DEF Session, Ending
  <1>6. PICK c \in Conns : c = conn[r]
    BY <1>5 DEF Typed
  <1>7. /\ peer' = [peer EXCEPT ![c] = "closed"] /\ ready' = ready \ {c}
        /\ conn' = [conn EXCEPT ![r] = NULL] /\ status' = [status EXCEPT ![r] = "IDLE"]
        /\ events' = [events EXCEPT ![r] = FALSE] /\ pin_hits' = [pin_hits EXCEPT ![r] = 0]
        /\ UNCHANGED <<stop, is_run>>
    <2>1. conn[Head(pipe)] # NULL
      BY <1>3, <1>5
    <2> QED
      BY <1>3, <1>6, <2>1 DEF DeleteSsn, stopVars
  <1>8. \A s \in Nodes : s # r => conn[s] # c /\ conn'[s] = conn[s]
    BY <1>6, <1>7, EmqAssumption DEF Jobs, Connected, Typed
  <1>9. Connected'
    BY <1>1, <1>6, <1>7, <1>8 DEF Jobs, Connected, Typed
  <1>10. Session(r)'
    <2>1. Idle(r)
      BY <1>5, SessionIdle
    <2>2. ~Queued(r)' /\ ~Pushing(r)' /\ ~InPipe(r)' /\ \A w \in Workers : ~Handles(w, r)'
      BY <1>1, <1>4, <2>1 DEF Idle, Queued, Pushing, Handles
    <2>3. conn'[r] = NULL /\ status'[r] = "IDLE" /\ r \notin batch'
      BY <1>1, <1>5, <1>7 DEF Typed
    <2>4. Idle(r)'
      BY <2>2, <2>3 DEF Idle
    <2> QED
      BY <2>4, IdleSession
  <1>11. ASSUME NEW s \in Nodes, s # r
         PROVE  Session(s)'
    <2>1. Session(s) /\ conn[s] \in Conns \cup {NULL} /\ conn'[s] = conn[s]
      BY <1>8, <1>11 DEF Jobs, Typed
    <2>2. SameJob(s)
      BY <1>1, <1>4, <1>7, <1>11, <2>1 DEF SameJob, Queued, Handles, Typed
    <2>3. Due(s)' <=> Due(s)
      BY <1>7, <1>8, <1>11 DEF Due
    <2>4. SameEvents(s)
      BY <1>1, <2>1, <2>3 DEF SameEvents, Session, Alone, Ending, Typed
    <2> QED
      BY <2>1, <2>2, <2>4, SameSession DEF Typed
  <1>12. Stopped'
    <2>1. stop = "no" => ~Occurs(pipe', NULL)
      BY <1>4, <1>3, EmqAssumption DEF Jobs, Stopped, InPipe
    <2> QED
      BY <1>1, <1>7, <2>1, StillRunning
  <1> QED
    BY <1>1, <1>4, <1>9, <1>10, <1>11, <1>12 DEF Jobs

LEMMA ExitCommandJobs ==
  ASSUME Typed, Typed', Jobs, ExitCommand
  PROVE  Jobs'
  <1>1. /\ io = "ctl" /\ pipe # <<>> /\ Head(pipe) = NULL /\ pipe' = Tail(pipe) /\ is_run' = FALSE
        /\ UNCHANGED <<peerVars, ready, ssnVars, emq, io, batch, cur, pc, ssn, hits, ret, stop>>
    BY DEF ExitCommand, queueVars, ioVars, workerVars
  <1>2. /\ pipe \in Seq(Nodes \cup {NULL}) /\ NoRepeat(pipe)
    BY DEF Typed, Jobs
  <1>3. Occurs(pipe, NULL) /\ (\A s : InPipe(s)' <=> InPipe(s) /\ s # NULL) /\ NoRepeat(pipe')
    BY <1>1, <1>2, OccursTail DEF InPipe
  <1>4. stop # "no"
    BY <1>3 DEF Jobs, Stopped
  <1>6. Connected'
    BY <1>1 DEF Jobs, Connected, peerVars, ssnVars
  <1>7. Stopped'
    BY <1>1, <1>4 DEF Jobs, Stopped, Stopping
  <1>8. ASSUME NEW s \in Nodes
        PROVE  Session(s)'
    <2>1. Session(s) /\ conn[s] \in Conns \cup {NULL} /\ s # NULL
      BY EmqAssumption DEF Jobs, Typed
    <2>2. SameJob(s)
      BY <1>1, <1>3, <2>1 DEF SameJob, Queued, Handles, ssnVars
    <2>3. SameEvents(s)
      BY <1>1, <2>1 DEF SameEvents, Session, Alone, Ending, Due, Typed, peerVars, ssnVars
    <2> QED
      BY <2>1, <2>2, <2>3, SameSession DEF Typed
  <1> QED
    BY <1>1, <1>3, <1>6, <1>7, <1>8 DEF Jobs

(***************************************************************************)
(* The workers.                                                            *)
(***************************************************************************)
\* A step of worker w leaves the sessions of the others alone.
LEMMA OtherSessions ==
  ASSUME Typed, Typed', Jobs, NEW w \in Workers, NEW s \in Nodes,
         \A v \in Workers \ {w} : pc'[v] = pc[v] /\ ssn'[v] = ssn[v] /\ hits'[v] = hits[v]
                                  /\ ret'[v] = ret[v],
         ~Handles(w, s), ~Handles(w, s)', Queued(s)' <=> Queued(s), InPipe(s)' <=> InPipe(s),
         UNCHANGED <<conn, status[s], events[s], pin_hits[s], ready, batch, io, cur, fin>>,
         conn[s] # NULL => inbox'[conn[s]] = inbox[conn[s]]
  PROVE  Session(s)'
  <1>1. Session(s) /\ conn[s] \in Conns \cup {NULL}
    BY DEF Jobs, Typed
  <1>2. \A v \in Workers \ {w} : Handles(v, s)' <=> Handles(v, s)
    BY DEF Handles
  <1>3. SameJob(s)
    BY <1>2 DEF SameJob
  <1>4. SameEvents(s)
    BY <1>1 DEF SameEvents, Session, Alone, Ending, Due, Typed
  <1> QED
    BY <1>1, <1>3, <1>4, SameSession DEF Typed

\* A worker that handles no session before and after its step.
LEMMA WaitingJobs ==
  ASSUME Typed, Typed', Jobs, NEW w \in Workers,
         \/ SemWait(w) \/ WorkerExit(w)
         \/ PopSsn(w) /\ emq = <<>>
  PROVE  Jobs'
  <1>1. /\ pc[w] \in {"wait", "pop"} /\ pc'[w] \in {"wait", "pop", "exit"}
        /\ \A v \in Workers \ {w} : pc'[v] = pc[v] /\ ssn'[v] = ssn[v] /\ hits'[v] = hits[v]
                                    /\ ret'[v] = ret[v]
        /\ UNCHANGED <<peerVars, ready, pipe, ssnVars, emq, io, batch, cur, stop, is_run>>
    BY DEF SemWait, WorkerExit, PopSsn, Goto, Typed, queueVars, ioVars, workerVars, stopVars
  <1>2. \A s \in Nodes : ~Handles(w, s) /\ ~Handles(w, s)'
    BY <1>1 DEF Handles
  <1>3. \A s \in Nodes : Session(s)'
    BY <1>1, <1>2, OtherSessions DEF Queued, InPipe, peerVars, ssnVars
  <1>4. Connected'
    BY <1>1 DEF Jobs, Connected, peerVars, ssnVars
  <1>5. Stopped'
    BY <1>1 DEF Jobs, Stopped, Stopping
  <1> QED
    BY <1>1, <1>3, <1>4, <1>5 DEF Jobs

LEMMA PopSsnJobs ==
  ASSUME Typed, Typed', Jobs, NEW w \in Workers, PopSsn(w), emq # <<>>
  PROVE  Jobs'
  <1>1. /\ pc[w] = "pop" /\ pc' = [pc EXCEPT ![w] = "hits"] /\ emq' = Tail(emq)
        /\ ssn' = [ssn EXCEPT ![w] = Head(emq)] /\ ret' = [ret EXCEPT ![w] = "ok"]
        /\ UNCHANGED <<peerVars, ready, pipe, ssnVars, io, batch, cur, hits, stop, is_run>>
    BY DEF PopSsn, Goto, ioVars, stopVars
  <1>2. emq \in Seq(Nodes) /\ NoRepeat(emq)
    BY DEF Typed, Jobs
  <1>3. PICK r \in Nodes : r = Head(emq)
    BY <1>2, OccursTail
  <1>4. Queued(r) /\ (\A s : Queued(s)' <=> Queued(s) /\ s # r) /\ NoRepeat(emq')
    <2>1. Occurs(emq, r) /\ NoRepeat(emq')
      BY <1>1, <1>2, <1>3, OccursTail
    <2>2. \A s : Occurs(emq', s) <=> Occurs(emq, s) /\ s # r
      BY <1>1, <1>2, <1>3, OccursTail
    <2>3. \A s : Queued(s)' <=> Occurs(emq', s)
      BY DEF Queued, Occurs
    <2> QED
      BY <2>1, <2>2, <2>3, QueuedOccurs
  <1>5. Listed(r)
    BY <1>4, SessionListed DEF Jobs
  <1>6. Stopped'
    <2>1. stop = "no" => ~Occurs(pipe', NULL)
      BY <1>1 DEF Jobs, Stopped
    <2> QED
      BY <1>1, <2>1, StillRunning
  <1>7. Connected'
    BY <1>1 DEF Jobs, Connected, peerVars, ssnVars
  <1>8. Session(r)'
    <2>1. /\ Handles(w, r)' /\ \A v \in Workers : Handles(v, r)' => v = w
      BY <1>1, <1>3, <1>5 DEF Handles, Typed, Listed
    <2>2. /\ pc'[w] = "hits" /\ ret'[w] = "ok" /\ ~Pushing(r)' /\ ~Queued(r)' /\ ~InPipe(r)'
          /\ Due(r)' <=> Due(r)
      BY <1>1, <1>4, <1>5 DEF Typed, Listed, Pushing, InPipe, Due, ssnVars
    <2>3. Held(w, r)'
      BY <1>1, <1>4, <1>5, <2>1, <2>2 DEF Listed, Held, peerVars, ssnVars
    <2> QED
      BY <2>3, HeldSession
  <1>9. ASSUME NEW s \in Nodes, s # r
        PROVE  Session(s)'
    <2>1. ~Handles(w, s) /\ ~Handles(w, s)'
      BY <1>1, <1>3, <1>9 DEF Handles, Typed
    <2>2. \A v \in Workers \ {w} : pc'[v] = pc[v] /\ ssn'[v] = ssn[v] /\ hits'[v] = hits[v]
                                   /\ ret'[v] = ret[v]
      BY <1>1
    <2>3. (Queued(s)' <=> Queued(s)) /\ (InPipe(s)' <=> InPipe(s))
      BY <1>1, <1>4, <1>9 DEF InPipe
    <2> QED
      BY <1>1, <2>1, <2>2, <2>3, OtherSessions DEF peerVars, ssnVars
  <1> QED
    BY <1>1, <1>4, <1>6, <1>7, <1>8, <1>9 DEF Jobs

\* A step of the worker of session r.
LEMMA JobStep ==
  ASSUME Typed, Typed', Jobs, NEW w \in Workers, NEW r \in Nodes, Handles(w, r), ssn' = ssn,
         \A v \in Workers \ {w} : pc'[v] = pc[v] /\ hits'[v] = hits[v] /\ ret'[v] = ret[v],
         UNCHANGED <<peer, fin, ready, conn, pin_hits, batch, io, cur, emq, stop, is_run>>,
         \A s \in Nodes \ {r} : status'[s] = status[s] /\ events'[s] = events[s],
         \A c \in Conns : c # conn[r] => inbox'[c] = inbox[c],
         \A s : Occurs(pipe', s) /\ s # r <=> Occurs(pipe, s) /\ s # r,
         NoRepeat(pipe'), Session(r)'
  PROVE  Jobs'
  <1>1. (stop = "no" => ~Occurs(pipe, NULL)) /\ r # NULL
    BY EmqAssumption DEF Jobs, Stopped
  <1>2. Stopped'
    <2>1. stop = "no" => ~Occurs(pipe', NULL)
      BY <1>1
    <2> QED
      BY <2>1, StillRunning
  <1>3. Connected'
    BY DEF Jobs, Connected
  <1>4. ASSUME NEW s \in Nodes, s # r
        PROVE  Session(s)'
    <2>1. ~Handles(w, s) /\ ~Handles(w, s)'
      BY <1>4 DEF Handles
    <2>2. (Queued(s)' <=> Queued(s)) /\ (InPipe(s)' <=> InPipe(s))
      BY <1>4 DEF Queued, InPipe
    <2>3. conn[s] # NULL => inbox'[conn[s]] = inbox[conn[s]]
      BY <1>4 DEF Jobs, Connected, Typed
    <2> QED
      BY <1>4, <2>1, <2>2, <2>3, OtherSessions
  <1> QED
    BY <1>2, <1>3, <1>4 DEF Jobs

\* The worker stays with the session.
LEMMA HeldJobs ==
  ASSUME Typed, Typed', Jobs, QuietPeers, NEW w \in Workers,
         ReadHits(w) \/ TestEvents(w) \/ ReadMessage(w) \/ WorkDone(w)
  PROVE  Jobs'
  <1>1. PICK r \in Nodes : r = ssn[w] /\ Handles(w, r)
    BY DEF ReadHits, TestEvents, ReadMessage, WorkDone, Goto, Handles, Typed, Busy
  <1>2. Session(r) /\ Held(w, r)
    BY <1>1, SessionHeld DEF Jobs
  <1>3. PICK c \in Conns : c = conn[r]
    BY <1>2 DEF Held, Typed
  <1>4. /\ ssn' = ssn
        /\ \A v \in Workers \ {w} : pc'[v] = pc[v] /\ hits'[v] = hits[v] /\ ret'[v] = ret[v]
        /\ UNCHANGED <<peer, fin, ready, ssnVars, batch, io, cur, emq, stop, is_run, pipe>>
    BY DEF ReadHits, TestEvents, ReadMessage, WorkDone, Goto, Typed, peerVars, queueVars, ioVars,
       stopVars
  <1>5. /\ \A v \in Workers : Handles(v, r)' => v = w
        /\ ~Pushing(r)' /\ ~Queued(r)' /\ ~InPipe(r)' /\ (Due(r)' <=> Due(r))
    BY <1>2, <1>4 DEF Held, Handles, Pushing, Queued, InPipe, Due, ssnVars
  <1>6. CASE ReadHits(w)
    <2>1. pc[w] = "hits" /\ pc'[w] = "events" /\ hits'[w] = pin_hits[r] /\ ret' = ret /\ inbox' = inbox
      BY <1>1, <1>6 DEF ReadHits, Goto, Typed, peerVars
    <2>2. Handles(w, r)' /\ pin_hits[r] \in Nat
      BY <1>1, <1>4, <2>1 DEF Handles, Typed
    <2>3. Held(w, r)'
      BY <1>2, <1>4, <1>5, <2>1, <2>2 DEF Held, ssnVars
    <2> QED
      BY <1>1, <1>4, <2>1, <2>3, HeldSession, JobStep DEF ssnVars, Jobs
  <1>7. CASE TestEvents(w)
    <2>1. pc[w] = "events" /\ pc'[w] = "work" /\ hits' = hits /\ ret' = ret /\ inbox' = inbox
      BY <1>1, <1>2, <1>7 DEF TestEvents, Goto, Typed, peerVars, Held
    <2>2. Handles(w, r)'
      BY <1>1, <1>4, <2>1 DEF Handles
    <2>3. Held(w, r)'
      BY <1>2, <1>4, <1>5, <2>1, <2>2 DEF Held, ssnVars
    <2> QED
      BY <1>1, <1>4, <2>1, <2>3, HeldSession, JobStep DEF ssnVars, Jobs
  <1>8. CASE ReadMessage(w)
    <2>1. /\ pc[w] = "work" /\ pc' = pc /\ hits' = hits /\ ret' = ret
          /\ inbox[c] > 0 /\ inbox' = [inbox EXCEPT ![c] = @ - 1]
      BY <1>1, <1>3, <1>8 DEF ReadMessage
    <2>2. Handles(w, r)' /\ inbox[c] \in Nat /\ ~fin[c]
      BY <1>1, <1>2, <1>3, <1>4, <2>1 DEF Handles, Typed, Held
    <2>3. Held(w, r)'
      BY <1>2, <1>3, <1>4, <1>5, <2>1, <2>2 DEF Held, ssnVars
    <2> QED
      BY <1>1, <1>3, <1>4, <2>1, <2>3, HeldSession, JobStep DEF ssnVars, Jobs, Typed
  <1>9. CASE WorkDone(w)
    <2>1. /\ pc[w] = "work" /\ pc'[w] = "stat" /\ hits' = hits /\ inbox' = inbox /\ inbox[c] = 0
          /\ ret'[w] = IF fin[c] THEN "eof" ELSE "ok"
      BY <1>1, <1>2, <1>3, <1>9 DEF WorkDone, Goto, Typed, peerVars, QuietPeers, Held
    <2>2. Handles(w, r)'
      BY <1>1, <1>4, <2>1 DEF Handles
    <2>3. Held(w, r)'
      BY <1>2, <1>3, <1>4, <1>5, <2>1, <2>2 DEF Held, ssnVars
    <2> QED
      BY <1>1, <1>4, <2>1, <2>3, HeldSession, JobStep DEF ssnVars, Jobs
  <1> QED
    BY <1>6, <1>7, <1>8, <1>9

LEMMA SetIdleJobs ==
  ASSUME Typed, Typed', Jobs, NEW w \in Workers, SetIdle(w)
  PROVE  Jobs'
  <1>1. PICK r \in Nodes : r = ssn[w] /\ Handles(w, r)
    BY DEF SetIdle, Goto, Handles, Typed, Busy
  <1>2. Held(w, r)
    BY <1>1, SessionHeld DEF Jobs
  <1>3. PICK more \in BOOLEAN : more <=> pin_hits[r] # hits[w]
    BY Zenon
  <1>4. /\ pc[w] = "stat"
        /\ pc' = [pc EXCEPT ![w] = IF ret[w] = "eof" THEN "del" ELSE IF more THEN "hits" ELSE NextSsn]
        /\ status' = (IF more THEN status ELSE [status EXCEPT ![r] = "IDLE"])
        /\ events' = (IF more THEN events ELSE [events EXCEPT ![r] = FALSE])
        /\ UNCHANGED <<peerVars, ready, pipe, conn, pin_hits, emq, io, batch, cur, ssn, hits, ret,
                       stop, is_run>>
    BY <1>1, <1>3 DEF SetIdle, Goto, queueVars, ioVars, stopVars
  <1>5. /\ \A v \in Workers \ {w} : pc'[v] = pc[v] /\ hits'[v] = hits[v] /\ ret'[v] = ret[v]
        /\ \A s \in Nodes \ {r} : status'[s] = status[s] /\ events'[s] = events[s]
    BY <1>4 DEF Typed
  <1>6. /\ \A v \in Workers : Handles(v, r)' => v = w
        /\ ~Pushing(r)' /\ ~Queued(r)' /\ ~InPipe(r)' /\ (Due(r)' <=> Due(r))
    BY <1>2, <1>4 DEF Held, Handles, Pushing, Queued, InPipe, Due, Typed
  <1>7. CASE ret[w] = "eof"
    <2>1. pc'[w] = "del" /\ Handles(w, r)'
      BY <1>1, <1>4, <1>7 DEF Handles, Typed
    <2>2. Held(w, r)'
      BY <1>2, <1>4, <1>6, <1>7, <2>1 DEF Held, peerVars
    <2> QED
      BY <1>1, <1>4, <1>5, <2>2, HeldSession, JobStep DEF Jobs, peerVars
  <1>8. CASE ret[w] # "eof" /\ more
    <2>1. pc'[w] = "hits" /\ Handles(w, r)' /\ ret[w] = "ok"
      BY <1>1, <1>4, <1>8 DEF Handles, Typed
    <2>2. Held(w, r)'
      BY <1>2, <1>4, <1>6, <1>8, <2>1 DEF Held, peerVars
    <2> QED
      BY <1>1, <1>4, <1>5, <2>2, HeldSession, JobStep DEF Jobs, peerVars
  <1>9. CASE ret[w] # "eof" /\ ~more
    <2>1. pc'[w] \in {"pop", "exit"}
      BY <1>4, <1>9 DEF NextSsn, Typed
    <2>2. ~fin[conn[r]] /\ (inbox[conn[r]] > 0 => Due(r) \/ r \in batch)
      BY <1>2, <1>3, <1>4, <1>9 DEF Held
    <2>3. status'[r] = "IDLE"
      BY <1>4, <1>9 DEF Typed
    <2>4. \A v \in Workers : ~Handles(v, r)'
      BY <1>6, <2>1 DEF Handles
    <2>5. Idle(r)'
      BY <1>2, <1>4, <1>6, <2>2, <2>3, <2>4 DEF Idle, Held, peerVars
    <2> QED
      BY <1>1, <1>4, <1>5, <2>5, IdleSession, JobStep DEF Jobs, peerVars
  <1> QED
    BY <1>7, <1>8, <1>9

LEMMA CommandJobs ==
  ASSUME Typed, Typed', Jobs, NEW w \in Workers, Command(w)
  PROVE  Jobs'
  <1>1. PICK r \in Nodes : r = ssn[w] /\ Handles(w, r)
    BY DEF Command, Goto, Handles, Typed, Busy
  <1>2. Held(w, r)
    BY <1>1, SessionHeld DEF Jobs
  <1>3. /\ pc[w] = "del" /\ pc'[w] \in {"pop", "exit"} /\ pipe' = Append(pipe, r)
        /\ UNCHANGED <<peerVars, ready, ssnVars, emq, io, batch, cur, ssn, hits, ret, stop, is_run>>
        /\ \A v \in Workers \ {w} : pc'[v] = pc[v]
    BY <1>1 DEF Command, Goto, NextSsn, Typed, queueVars, ioVars, stopVars
  <1>4. NoRepeat(pipe') /\ \A s : Occurs(pipe', s) <=> Occurs(pipe, s) \/ s = r
    <2>1. pipe \in Seq(Nodes \cup {NULL}) /\ NoRepeat(pipe) /\ ~Occurs(pipe, r)
      BY <1>2 DEF Jobs, Typed, Held, InPipe
    <2> QED
      BY <1>3, <2>1, OccursAppend
  <1>5. /\ \A v \in Workers : ~Handles(v, r)'
        /\ ~Pushing(r)' /\ ~Queued(r)' /\ InPipe(r)' /\ (Due(r)' <=> Due(r))
    BY <1>2, <1>3, <1>4 DEF Held, Handles, Pushing, Queued, InPipe, Due, Typed, ssnVars
  <1>6. Idle(r)'
    BY <1>2, <1>3, <1>5 DEF Idle, Held, peerVars, ssnVars
  <1> QED
    BY <1>1, <1>3, <1>4, <1>6, IdleSession, JobStep DEF peerVars, ssnVars

(***************************************************************************)
(* zemq_stop.                                                              *)
(***************************************************************************)
LEMMA StopCommandJobs ==
  ASSUME Typed, Typed', Jobs, StopCommand
  PROVE  Jobs'
  <1>1. /\ stop = "no" /\ stop' = "join" /\ pipe' = Append(pipe, NULL)
        /\ UNCHANGED <<peerVars, ready, ssnVars, emq, io, batch, cur, pc, ssn, hits, ret, is_run>>
    BY DEF StopCommand, queueVars, ioVars, workerVars
  <1>2. ~Occurs(pipe, NULL) /\ pipe \in Seq(Nodes \cup {NULL}) /\ NoRepeat(pipe)
    BY <1>1 DEF Jobs, Stopped, Typed
  <1>3. (\A s : Occurs(pipe', s) <=> Occurs(pipe, s) \/ s = NULL) /\ NoRepeat(pipe')
    BY <1>1, <1>2, OccursAppend
  <1>4. Stopped'
    BY <1>1 DEF Jobs, Stopped, Stopping
  <1>5. ASSUME NEW s \in Nodes
        PROVE  Session(s)'
    <2>1. Session(s) /\ conn[s] \in Conns \cup {NULL} /\ s # NULL
      BY EmqAssumption DEF Jobs, Typed
    <2>2. SameJob(s)
      BY <1>1, <1>3, <2>1 DEF SameJob, Queued, InPipe, Handles, ssnVars
    <2>3. SameEvents(s)
      BY <1>1, <2>1 DEF SameEvents, Session, Alone, Ending, Due, Typed, peerVars, ssnVars
    <2> QED
      BY <2>1, <2>2, <2>3, SameSession DEF Typed
  <1>6. Connected'
    BY <1>1 DEF Jobs, Connected, peerVars, ssnVars
  <1> QED
    BY <1>1, <1>3, <1>4, <1>5, <1>6 DEF Jobs

\* The sessions are given up wherever they are.
LEMMA ReleaseJobs ==
  ASSUME Jobs, Release
  PROVE  Left'
  <1>1. Stopping' /\ UNCHANGED <<emq, io, pc, ssn>>
    BY DEF Release, Stopping, queueVars, ioVars, workerVars
  <1>2. io = "exit" /\ NoRepeat(emq)
    BY DEF Jobs, Stopped, Release
  <1>3. \A s \in Nodes : Single(s)
    BY DEF Jobs, Session, Alone, Single
  <1> QED
    BY <1>1, <1>2, <1>3 DEF Left, Single, NoRepeat, Queued, Handles

LEMMA RestJobs ==
  ASSUME Jobs, JoinIo \/ JoinWorkers \/ Rest \/ UNCHANGED vars
  PROVE  Jobs'
  <1>1. /\ UNCHANGED <<peerVars, ready, pipe, ssnVars, emq, io, batch, cur, pc, ssn, hits, ret, is_run>>
        /\ stop' = stop \/ (stop = "join" /\ stop' = "release" /\ io = "exit")
    <2>1. ~JoinWorkers
      BY DEF Jobs, Stopped, Stopping, JoinWorkers
    <2> QED
      BY <2>1 DEF JoinIo, Rest, vars, queueVars, ioVars, workerVars, stopVars
  <1>2. /\ \A s : (Queued(s)' <=> Queued(s)) /\ (InPipe(s)' <=> InPipe(s)) /\ (Due(s)' <=> Due(s))
        /\ \A s : Pushing(s)' <=> Pushing(s)
        /\ \A w, s : Handles(w, s)' <=> Handles(w, s)
    BY <1>1 DEF Queued, InPipe, Due, Pushing, Handles, ssnVars
  <1>3. \A s : Active(s)' <=> Active(s)
    BY <1>2 DEF Active
  <1>4. Stopped'
    BY <1>1 DEF Jobs, Stopped, Stopping
  <1>5. \A s \in Nodes : Session(s)'
    <2>1. \A s \in Nodes : Session(s)
      BY DEF Jobs
    <2> QED
      BY <1>1, <1>2, <1>3, <2>1 DEF Session, Alone, Marked, Ending, Heard, peerVars, ssnVars
  <1>6. Connected'
    BY <1>1 DEF Jobs, Connected, peerVars, ssnVars
  <1> QED
    BY <1>1, <1>4, <1>5, <1>6 DEF Jobs

\* After that the queue gets no session, so that none gets into a second place.
LEMMA LeftWorker ==
  ASSUME Typed, Left, NEW w \in Workers, Worker(w)
  PROVE  Left'
  <1>1. Stopping' /\ io' = "exit"
    BY DEF Left, Stopping, Worker, SemWait, PopSsn, ReadHits, TestEvents, ReadMessage, WorkDone,
       SetIdle, Command, WorkerExit, ioVars, stopVars
  <1>2. CASE PopSsn(w) /\ emq # <<>>
    <2>1. /\ pc[w] = "pop" /\ pc' = [pc EXCEPT ![w] = "hits"] /\ emq' = Tail(emq)
          /\ ssn' = [ssn EXCEPT ![w] = Head(emq)]
      BY <1>2 DEF PopSsn, Goto
    <2>2. emq \in Seq(Nodes) /\ NoRepeat(emq)
      BY DEF Typed, Left
    <2>3. PICK r \in Nodes : r = Head(emq)
      BY <1>2, <2>2, OccursTail
    <2>4. Queued(r) /\ (\A s : Queued(s)' <=> Queued(s) /\ s # r) /\ NoRepeat(emq')
      <3>1. Occurs(emq, r) /\ NoRepeat(emq')
        BY <1>2, <2>1, <2>2, <2>3, OccursTail
      <3>2. \A s : Occurs(emq', s) <=> Occurs(emq, s) /\ s # r
        BY <1>2, <2>1, <2>2, <2>3, OccursTail
      <3>3. \A s : Queued(s)' <=> Occurs(emq', s)
        BY DEF Queued, Occurs
      <3> QED
        BY <3>1, <3>2, <3>3, QueuedOccurs
    <2>5. \A s : \A v \in Workers : Handles(v, s)' <=> (IF v = w THEN s = r ELSE Handles(v, s))
      BY <2>1, <2>3 DEF Handles, Typed
    <2>6. ASSUME NEW s \in Nodes
          PROVE  Single(s)'
      <3>1. Single(s) /\ Single(r)
        BY DEF Left
      <3>2. CASE s = r
        <4>1. \A v \in Workers : Handles(v, s)' => v = w
          BY <2>4, <2>5, <3>1, <3>2 DEF Single
        <4>2. ~Queued(s)'
          BY <2>4, <3>2
        <4> QED
          BY <4>1, <4>2 DEF Single
      <3>3. CASE s # r
        <4>1. \A v \in Workers : Handles(v, s)' => Handles(v, s)
          BY <2>5, <3>3
        <4>2. Queued(s)' => Queued(s)
          BY <2>4
        <4> QED
          BY <3>1, <4>1, <4>2 DEF Single
      <3> QED
        BY <3>2, <3>3
    <2> QED
      BY <1>1, <2>4, <2>6 DEF Left
  <1>3. CASE ~(PopSsn(w) /\ emq # <<>>)
    <2>1. /\ emq' = emq /\ \A v \in Workers \ {w} : pc'[v] = pc[v] /\ ssn'[v] = ssn[v]
          /\ pc'[w] \in Busy => pc[w] \in Busy /\ ssn'[w] = ssn[w]
      BY <1>3 DEF Left, Worker, SemWait, PopSsn, ReadHits, TestEvents, ReadMessage, WorkDone,
         SetIdle, NextSsn, Command, WorkerExit, Goto, Typed, Busy, queueVars
    <2>2. \A v \in Workers : \A s : Handles(v, s)' => Handles(v, s)
      BY <2>1 DEF Handles, Busy
    <2>3. \A s : Queued(s)' <=> Queued(s)
      BY <2>1 DEF Queued
    <2>4. \A s \in Nodes : Single(s)'
      BY <2>2, <2>3 DEF Left, Single
    <2> QED
      BY <1>1, <2>1, <2>4 DEF Left, NoRepeat
  <1> QED
    BY <1>2, <1>3

LEMMA NextLeft ==
  ASSUME Typed, Left, [Next]_vars
  PROVE  Left'
  <1>1. ~Io
    BY DEF Left, Io, Wait, BatchDone, PipeEvent, DeleteSsn, ExitCommand, PipeEmpty, ListenEvent,
       AcceptDone, Accept, Refuse, Hit, SetReady, PushSsn, Post, IoGoto
  <1>2. CASE (\E c \in Conns : Peer(c)) \/ Stop \/ Rest \/ UNCHANGED vars
    <2>1. UNCHANGED <<emq, io, pc, ssn>> /\ Stopping'
      BY <1>2 DEF Left, Peer, Connect, Send, Close, Stop, StopCommand, JoinIo, Release, JoinWorkers,
         Rest, Stopping, vars, queueVars, ioVars, workerVars, stopVars
    <2> QED
      BY <2>1 DEF Left, NoRepeat, Single, Queued, Handles
  <1> QED
    BY <1>1, <1>2, LeftWorker DEF Next

LEMMA NextJobs ==
  ASSUME Typed, Jobs, QuietPeers, [Next]_vars
  PROVE  Jobs' \/ Left'
  <1>1. Typed'
    BY NextTyped
  <1>2. ASSUME NEW c \in Conns, Peer(c)
        PROVE  Jobs'
    BY <1>1, <1>2, PeerJobs
  <1>3. CASE Io
    BY <1>1, <1>3, IoQuietJobs, AcceptJobs, HitJobs, SetReadyJobs, PushSsnJobs, DeleteSsnJobs,
       ExitCommandJobs DEF Io
  <1>4. ASSUME NEW w \in Workers, Worker(w)
        PROVE  Jobs'
    BY <1>1, <1>4, WaitingJobs, PopSsnJobs, HeldJobs, SetIdleJobs, CommandJobs DEF Worker
  <1>5. CASE Stop \/ Rest \/ UNCHANGED vars
    BY <1>1, <1>5, StopCommandJobs, ReleaseJobs, RestJobs DEF Stop
  <1> QED
    BY <1>2, <1>3, <1>4, <1>5 DEF Next

(***************************************************************************)
(* The theorems.                                                           *)
(***************************************************************************)
\* Sessions stay in one place, their status says so, and the end of the input is the last
\* thing that happens to them, until zemq_stop gives them up; from then on none gets into a
\* second place (epoll.c:477-498, 793-858, 904-919).
THEOREM JobsKept ==
  ASSUME QuietPeers
  PROVE  Spec => [](Typed /\ (Jobs \/ Left))
  <1>1. Init => Typed /\ (Jobs \/ Left)
    BY InitTyped, InitJobs
  <1>2. Typed /\ (Jobs \/ Left) /\ [Next]_vars => (Typed /\ (Jobs \/ Left))'
    BY NextTyped, NextJobs, NextLeft
  <1> QED
    BY <1>1, <1>2, PTL DEF Spec

\* With quiet peers a session is in the hands of one thread at a time, for any number of
\* workers, nodes and connections: no two workers run do_work on it, and it is neither queued
\* twice nor queued while a worker has it (epoll.c:477-498 against 800-832).
THEOREM OneHandlerPerSession ==
  ASSUME QuietPeers
  PROVE  Spec => []HandledOnce
  <1>1. Typed /\ (Jobs \/ Left) => HandledOnce
    <2>1. ASSUME Typed, Jobs
          PROVE  HandledOnce
      <3>1. \A s \in Nodes : Alone(s)
        BY <2>1 DEF Jobs, Session
      <3>2. \A i, j \in DOMAIN emq : emq[i] = emq[j] => i = j
        BY <2>1 DEF Jobs, NoRepeat
      <3>3. io \in {"set", "push"} => cur \in Nodes
        BY <2>1 DEF Typed
      <3> QED
        BY <3>1, <3>2, <3>3 DEF Alone, Pushing, HandledOnce
    <2>2. ASSUME Left
          PROVE  HandledOnce
      BY <2>2 DEF Left, Single, NoRepeat, HandledOnce
    <2> QED
      BY <2>1, <2>2
  <1> QED
    BY <1>1, JobsKept, PTL

\* With quiet peers no input gets stuck: an event, a job that will still read, or the command to
\* delete the session is under way whenever recv would not block, until zemq_stop gives the
\* sessions up; a hit that arrives between the last recv and the test of pin_hits is seen by
\* that test (epoll.c:477-498 against 815-824).
THEOREM InputIsNoticed ==
  ASSUME QuietPeers
  PROVE  Spec => []InputNoticed
  <1>1. Typed /\ (Jobs \/ Left) => InputNoticed
    <2> SUFFICES ASSUME Typed, Jobs, NEW s \in Nodes, conn[s] # NULL, Readable(conn[s])
                 PROVE  \/ conn[s] \in ready \/ s \in batch
                        \/ cur = s \/ Queued(s)
                        \/ \E w \in Workers :
                             Handles(w, s) /\ (pc[w] \in {"stat", "del"}
                                                => ret[w] = "eof" \/ pin_hits[s] # hits[w])
                        \/ \E i \in DOMAIN pipe : pipe[i] = s
      BY DEF InputNoticed, Left
    <2>1. Session(s)
      BY DEF Jobs
    <2>2. CASE fin[conn[s]]
      <3>1. Due(s) \/ s \in batch \/ Active(s) \/ InPipe(s)
        BY <2>1, <2>2 DEF Session, Ending
      <3>2. \A w \in Workers : Handles(w, s) => (pc[w] \in {"stat", "del"} => ret[w] = "eof")
        BY <2>1, <2>2 DEF Session, Ending
      <3> QED
        BY <3>1, <3>2 DEF Due, Active, Pushing, InPipe, Occurs
    <2>3. CASE inbox[conn[s]] > 0
      <3>1. \A w \in Workers : Handles(w, s) /\ pc[w] = "del" => ret[w] = "eof"
        BY <2>1 DEF Session, Ending
      <3> QED
        BY <2>1, <2>3, <3>1 DEF Session, Heard, Due, Pushing
    <2> QED
      BY <2>2, <2>3 DEF Readable
  <1> QED
    BY <1>1, JobsKept, PTL
=============================================================================
