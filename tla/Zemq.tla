-------------------------------- MODULE Zemq --------------------------------
(***************************************************************************)
(* The event message queue of src/epoll.c: an I/O thread (zproc_emq) turns *)
(* edge-triggered events into entries of the queue emq, workers            *)
(* (zproc_worker) pop sessions and call do_work on them.  pin_hits, events *)
(* and status decide, under spin_status, whether a session is queued again.*)
(* A worker that sees the end of the input asks the I/O thread through a   *)
(* pipe to delete the session; its node is cleared and used again.         *)
(* zemq_stop has the I/O thread leave by a command without a session,      *)
(* gives up the sessions and joins the workers.  The worker's sends are in *)
(* ZemqSend; heart beats and idle work are left out.                       *)
(***************************************************************************)
EXTENDS Integers, Sequences, FiniteSets

CONSTANTS
  Workers,         \* the threads of emq->workers
  Nodes,           \* tree nodes, each with a session: what zrbtree_get_node returns
  Conns,           \* the connections that peers make in a behaviour
  NULL,            \* no session, no connection
  Listen, Pipe,    \* events of the listening socket and of the command pipe
  MaxSends,        \* bound on the messages that peers send
  PipeMax,         \* commands the pipe can hold
  PeersClose,      \* when a peer may close: "quiet" (its session is at rest) or "anytime"
  EmptyReadCloses  \* do_work answers ZEOF if it finds no input (tests/tepoll.h:226)

ASSUME EmqAssumption ==
  /\ NULL \notin Nodes \cup Conns \cup {Listen, Pipe}
  /\ {Listen, Pipe} \cap (Nodes \cup Conns) = {} /\ Listen # Pipe
  /\ MaxSends \in Nat /\ PipeMax \in Nat \ {0}
  /\ PeersClose \in {"quiet", "anytime"}
  /\ EmptyReadCloses \in BOOLEAN

VARIABLES
  peer,       \* peer[c]: "new", "backlog", "open", "closed" (by the server), "refused"
  inbox,      \* inbox[c]: messages in the receive buffer
  sent,       \* messages the peers have sent
  fin,        \* fin[c]: the peer has closed
  ready,      \* the ready list of the epoll instance: connections and Listen
  pipe,       \* emq->pipe: sessions to delete
  conn,       \* conn[s]: the connection of ssn->fd; NULL in a node that is not in the tree
  status,     \* status[s]: ssn->status
  events,     \* events[s]: whether EPOLLIN is in ssn->events
  pin_hits,   \* pin_hits[s]
  emq,        \* emq->emq
  sem_emq,    \* emq->sem_emq
  total_ssns, \* emq->total_ssns
  io,         \* control point of the I/O thread
  batch,      \* events returned by epoll_wait and not yet handled
  cur,        \* the session of the event being handled
  pc,         \* control point of every worker
  ssn,        \* ssn[w]
  hits,       \* hits[w]: hits_pin
  ret,        \* ret[w]: what do_work returned, "ok" or "eof"
  readok,     \* readok[w]: do_work has read something
  is_run,     \* the local is_run of zproc_emq
  stop        \* zemq_stop: "no", "join", "release", "workers" (is_run is cleared), "done"

peerVars == <<peer, inbox, sent, fin>>
ssnVars == <<conn, status, events, pin_hits>>
queueVars == <<emq, sem_emq>>
ioVars == <<io, batch, cur>>
workerVars == <<pc, ssn, hits, ret, readok>>
stopVars == <<is_run, stop>>
vars == <<peerVars, ready, pipe, ssnVars, queueVars, total_ssns, ioVars, workerVars, stopVars>>

\* The sessions are given up, emq->is_run is cleared for the workers and the pipe closed.
Stopping == stop \in {"workers", "done"}

\* No connection yet.
PeersInit ==
  /\ peer = [c \in Conns |-> "new"]
  /\ inbox = [c \in Conns |-> 0]
  /\ sent = 0
  /\ fin = [c \in Conns |-> FALSE]

\* zemq_init: an empty queue, no sessions.
EmqInit ==
  /\ emq = <<>> /\ sem_emq = 0 /\ total_ssns = 0
  /\ conn = [s \in Nodes |-> NULL]
  /\ status = [s \in Nodes |-> "IDLE"]
  /\ events = [s \in Nodes |-> FALSE]
  /\ pin_hits = [s \in Nodes |-> 0]

\* zbuild_emq: the I/O thread listens, and waits for the listening socket and the pipe.
BuildEmq == ready = {} /\ io = "wait" /\ batch = {} /\ cur = NULL

\* zemq_run: the pipe and the threads.
Init ==
  /\ PeersInit /\ EmqInit /\ BuildEmq
  /\ pipe = <<>>
  /\ pc = [w \in Workers |-> "wait"]
  /\ ssn = [w \in Workers |-> NULL]
  /\ hits = [w \in Workers |-> 0]
  /\ ret = [w \in Workers |-> "ok"]
  /\ readok = [w \in Workers |-> FALSE]
  /\ is_run = TRUE
  /\ stop = "no"

IoGoto(from, to) == io = from /\ io' = to

Goto(w, from, to) == pc[w] = from /\ pc' = [pc EXCEPT ![w] = to]

Queued(s) == \E i \in DOMAIN emq : emq[i] = s

\* Worker w handles session s: from the pop until it set the session idle or asked for
\* its deletion.
Handles(w, s) == pc[w] \in {"hits", "events", "work", "stat", "del"} /\ ssn[w] = s

\* recv would not block.
Readable(c) == inbox[c] > 0 \/ fin[c]

-----------------------------------------------------------------------------
(* The peers and the kernel.  An event of a connection makes it ready if   *)
(* it is registered; epoll_wait drops it again unless it is readable then. *)

Notify(c) == ready' = IF peer[c] = "open" THEN ready \cup {c} ELSE ready

Connect(c) ==
  /\ peer[c] = "new"
  /\ peer' = [peer EXCEPT ![c] = "backlog"]
  /\ ready' = ready \cup {Listen}
  /\ UNCHANGED <<inbox, sent, fin, pipe, ssnVars, queueVars, total_ssns, ioVars, workerVars, stopVars>>

Send(c) ==
  /\ peer[c] \in {"backlog", "open"}
  /\ ~fin[c] /\ sent < MaxSends
  /\ sent' = sent + 1
  /\ inbox' = [inbox EXCEPT ![c] = @ + 1]
  /\ Notify(c)
  /\ UNCHANGED <<peer, fin, pipe, ssnVars, queueVars, total_ssns, ioVars, workerVars, stopVars>>

\* No event of c and no thread at its session is under way.
Quiet(c) ==
  \E s \in Nodes :
    /\ conn[s] = c
    /\ inbox[c] = 0 /\ c \notin ready
    /\ s \notin batch /\ cur # s
    /\ ~Queued(s) /\ \A w \in Workers : ~Handles(w, s)

Close(c) ==
  /\ peer[c] \in {"backlog", "open"} /\ ~fin[c]
  /\ PeersClose = "anytime" \/ Quiet(c)
  /\ fin' = [fin EXCEPT ![c] = TRUE]
  /\ Notify(c)
  /\ UNCHANGED <<peer, inbox, sent, pipe, ssnVars, queueVars, total_ssns, ioVars, workerVars, stopVars>>

-----------------------------------------------------------------------------
(* The I/O thread: zproc_emq.                                              *)

Arrived ==
  {s \in Nodes : conn[s] \in ready /\ Readable(conn[s])}
  \cup (ready \cap {Listen})
  \cup (IF pipe = <<>> THEN {} ELSE {Pipe})

\* zepoll_wait: the events carry the pointers registered with the descriptors.  The order
\* of the events of a batch is not promised, so they are handled in any order.
Wait ==
  /\ Arrived # {}
  /\ IoGoto("wait", "next")
  /\ batch' = Arrived
  /\ ready' = {}
  /\ UNCHANGED <<peerVars, pipe, ssnVars, queueVars, total_ssns, cur, workerVars, stopVars>>

BatchDone ==
  /\ batch = {}
  /\ IoGoto("next", IF is_run THEN "wait" ELSE "exit")
  /\ UNCHANGED <<peerVars, ready, pipe, ssnVars, queueVars, total_ssns, batch, cur, workerVars, stopVars>>

PipeEvent ==
  /\ Pipe \in batch
  /\ IoGoto("next", "ctl")
  /\ batch' = batch \ {Pipe}
  /\ UNCHANGED <<peerVars, ready, pipe, ssnVars, queueVars, total_ssns, cur, workerVars, stopVars>>

\* zemq_push_ssn: the descriptor is closed; the node is taken out of the tree, cleared and
\* recycled.  For a node that was cleared before, descriptor 0 is closed and none is found
\* in the tree.
DeleteSsn ==
  LET s == Head(pipe)
      c == conn[s]
  IN  /\ io = "ctl" /\ pipe # <<>> /\ s # NULL
      /\ pipe' = Tail(pipe)
      /\ IF c = NULL
           THEN UNCHANGED <<peer, ready, ssnVars, total_ssns, stopVars>>
           ELSE /\ peer' = [peer EXCEPT ![c] = "closed"]
                /\ ready' = ready \ {c}
                /\ conn' = [conn EXCEPT ![s] = NULL]
                /\ status' = [status EXCEPT ![s] = "IDLE"]
                /\ events' = [events EXCEPT ![s] = FALSE]
                /\ pin_hits' = [pin_hits EXCEPT ![s] = 0]
                /\ total_ssns' = total_ssns - 1
      /\ UNCHANGED <<inbox, sent, fin, queueVars, ioVars, workerVars, stopVars>>

\* Mutated form: the command is taken for one of a session that is gone.
ExitIgnored ==
  /\ io = "ctl" /\ pipe # <<>> /\ Head(pipe) = NULL
  /\ pipe' = Tail(pipe)
  /\ UNCHANGED <<peerVars, ready, ssnVars, queueVars, total_ssns, ioVars, workerVars, stopVars>>

\* The command without a session: the loop is left when the batch is done.
ExitCommand ==
  /\ io = "ctl" /\ pipe # <<>> /\ Head(pipe) = NULL
  /\ pipe' = Tail(pipe)
  /\ is_run' = FALSE
  /\ UNCHANGED <<peerVars, ready, ssnVars, queueVars, total_ssns, ioVars, workerVars, stop>>

PipeEmpty ==
  /\ pipe = <<>>
  /\ IoGoto("ctl", "next")
  /\ UNCHANGED <<peerVars, ready, pipe, ssnVars, queueVars, total_ssns, batch, cur, workerVars, stopVars>>

ListenEvent ==
  /\ Listen \in batch
  /\ IoGoto("next", "accept")
  /\ batch' = batch \ {Listen}
  /\ UNCHANGED <<peerVars, ready, pipe, ssnVars, queueVars, total_ssns, cur, workerVars, stopVars>>

\* What zemq_get_ssn takes a session from: nodes that are cleared and not in the tree.
Free == {s \in Nodes : conn[s] = NULL}

\* zaccept_session: a node is taken, the descriptor registered and the node inserted.
Accept(c) ==
  /\ io = "accept"
  /\ peer[c] = "backlog"
  /\ \E s \in Free : conn' = [conn EXCEPT ![s] = c]
  /\ peer' = [peer EXCEPT ![c] = "open"]
  /\ ready' = IF Readable(c) THEN ready \cup {c} ELSE ready
  /\ total_ssns' = total_ssns + 1
  /\ UNCHANGED <<inbox, sent, fin, pipe, status, events, pin_hits, queueVars, ioVars,
                 workerVars, stopVars>>

\* No node can be had: the connection is closed and the loop left.
Refuse(c) ==
  /\ peer[c] = "backlog"
  /\ Free = {}
  /\ IoGoto("accept", "next")
  /\ peer' = [peer EXCEPT ![c] = "refused"]
  /\ UNCHANGED <<inbox, sent, fin, ready, pipe, ssnVars, queueVars, total_ssns, batch, cur,
                 workerVars, stopVars>>

AcceptDone ==
  /\ \A c \in Conns : peer[c] # "backlog"
  /\ IoGoto("accept", "next")
  /\ UNCHANGED <<peerVars, ready, pipe, ssnVars, queueVars, total_ssns, batch, cur, workerVars, stopVars>>

\* Mutated form: the session is queued whatever its status.
HitPushesAlways(s) ==
  /\ s \in batch
  /\ IoGoto("next", "set")
  /\ batch' = batch \ {s}
  /\ pin_hits' = [pin_hits EXCEPT ![s] = @ + 1]
  /\ events' = [events EXCEPT ![s] = TRUE]
  /\ cur' = s
  /\ UNCHANGED <<peerVars, ready, pipe, conn, status, queueVars, total_ssns, workerVars, stopVars>>

\* Mutated form: a hit during the work is not counted.
HitUncounted(s) ==
  /\ s \in batch
  /\ IoGoto("next", IF status[s] = "IDLE" THEN "set" ELSE "next")
  /\ batch' = batch \ {s}
  /\ events' = [events EXCEPT ![s] = TRUE]
  /\ cur' = IF status[s] = "IDLE" THEN s ELSE NULL
  /\ UNCHANGED <<peerVars, ready, pipe, conn, status, pin_hits, queueVars, total_ssns,
                 workerVars, stopVars>>

\* zepoll_in, under spin_status: the hit is counted and the status tested.
Hit(s) ==
  /\ s \in batch
  /\ IoGoto("next", IF status[s] = "IDLE" THEN "set" ELSE "next")
  /\ batch' = batch \ {s}
  /\ pin_hits' = [pin_hits EXCEPT ![s] = @ + 1]
  /\ events' = [events EXCEPT ![s] = TRUE]
  /\ cur' = IF status[s] = "IDLE" THEN s ELSE NULL
  /\ UNCHANGED <<peerVars, ready, pipe, conn, status, queueVars, total_ssns, workerVars, stopVars>>

\* The status is set when spin_status has been released.
SetReady ==
  /\ IoGoto("set", "push")
  /\ status' = [status EXCEPT ![cur] = "READY"]
  /\ UNCHANGED <<peerVars, ready, pipe, conn, events, pin_hits, queueVars, total_ssns, batch,
                 cur, workerVars, stopVars>>

PushSsn ==
  /\ IoGoto("push", "post")
  /\ emq' = Append(emq, cur)
  /\ UNCHANGED <<peerVars, ready, pipe, ssnVars, sem_emq, total_ssns, batch, cur, workerVars, stopVars>>

\* Mutated form: the semaphore is not posted.
PostForgotten ==
  /\ IoGoto("post", "next")
  /\ cur' = NULL
  /\ UNCHANGED <<peerVars, ready, pipe, ssnVars, queueVars, total_ssns, batch, workerVars, stopVars>>

Post ==
  /\ IoGoto("post", "next")
  /\ sem_emq' = sem_emq + 1
  /\ cur' = NULL
  /\ UNCHANGED <<peerVars, ready, pipe, ssnVars, emq, total_ssns, batch, workerVars, stopVars>>

-----------------------------------------------------------------------------
(* A worker: zproc_worker.                                                 *)

SemWait(w) ==
  /\ sem_emq > 0
  /\ Goto(w, "wait", "pop")
  /\ sem_emq' = sem_emq - 1
  /\ UNCHANGED <<peerVars, ready, pipe, ssnVars, emq, total_ssns, ioVars, ssn, hits, ret,
                 readok, stopVars>>

\* zqueue_lock_pop and ssn = *ppssn; the loop pops until the queue is empty.
PopSsn(w) ==
  /\ Goto(w, "pop", IF emq = <<>> THEN "wait" ELSE "hits")
  /\ emq' = IF emq = <<>> THEN emq ELSE Tail(emq)
  /\ ssn' = [ssn EXCEPT ![w] = IF emq = <<>> THEN NULL ELSE Head(emq)]
  /\ ret' = [ret EXCEPT ![w] = "ok"]
  /\ UNCHANGED <<peerVars, ready, pipe, ssnVars, sem_emq, total_ssns, ioVars, hits, readok, stopVars>>

ReadHits(w) ==
  /\ Goto(w, "hits", "events")
  /\ hits' = [hits EXCEPT ![w] = pin_hits[ssn[w]]]
  /\ UNCHANGED <<peerVars, ready, pipe, ssnVars, queueVars, total_ssns, ioVars, ssn, ret,
                 readok, stopVars>>

\* do_work is called if EPOLLIN is among the events.
TestEvents(w) ==
  /\ Goto(w, "events", IF events[ssn[w]] THEN "work" ELSE "stat")
  /\ readok' = [readok EXCEPT ![w] = FALSE]
  /\ UNCHANGED <<peerVars, ready, pipe, ssnVars, queueVars, total_ssns, ioVars, ssn, hits,
                 ret, stopVars>>

\* do_work reads a message; the callback reads until it fails (tests/tepoll.h:205-240).
ReadMessage(w) ==
  LET c == conn[ssn[w]]
  IN  /\ pc[w] = "work"
      /\ c # NULL /\ inbox[c] > 0
      /\ inbox' = [inbox EXCEPT ![c] = @ - 1]
      /\ readok' = [readok EXCEPT ![w] = TRUE]
      /\ UNCHANGED <<peer, sent, fin, ready, pipe, ssnVars, queueVars, total_ssns, ioVars, pc,
                     ssn, hits, ret, stopVars>>

\* recv returns 0, an error (the node is not connected) or EAGAIN.
WorkDone(w) ==
  LET c == conn[ssn[w]]
      eof == c = NULL \/ fin[c] \/ (EmptyReadCloses /\ ~readok[w])
  IN  /\ Goto(w, "work", "stat")
      /\ c # NULL => inbox[c] = 0
      /\ ret' = [ret EXCEPT ![w] = IF eof THEN "eof" ELSE "ok"]
      /\ UNCHANGED <<peerVars, ready, pipe, ssnVars, queueVars, total_ssns, ioVars, ssn, hits,
                     readok, stopVars>>

\* Where a worker goes when it is done with a session.
NextSsn == IF Stopping THEN "exit" ELSE "pop"

\* Mutated form: the session is set idle without a look at new hits.
SetIdleUnchecked(w) ==
  LET s == ssn[w]
  IN  /\ Goto(w, "stat", IF ret[w] = "eof" THEN "del" ELSE NextSsn)
      /\ status' = [status EXCEPT ![s] = "IDLE"]
      /\ events' = [events EXCEPT ![s] = FALSE]
      /\ UNCHANGED <<peerVars, ready, pipe, conn, pin_hits, queueVars, total_ssns, ioVars,
                     ssn, hits, ret, readok, stopVars>>

\* Mutated form: the end of the input is not looked at.
SetIdleNoDelete(w) ==
  LET s == ssn[w]
      more == pin_hits[s] # hits[w]
  IN  /\ Goto(w, "stat", IF more THEN "hits" ELSE NextSsn)
      /\ status' = IF more THEN status ELSE [status EXCEPT ![s] = "IDLE"]
      /\ events' = IF more THEN events ELSE [events EXCEPT ![s] = FALSE]
      /\ UNCHANGED <<peerVars, ready, pipe, conn, pin_hits, queueVars, total_ssns, ioVars,
                     ssn, hits, ret, readok, stopVars>>

\* Under spin_status: without new hits the session is set idle.
SetIdle(w) ==
  LET s == ssn[w]
      more == pin_hits[s] # hits[w]
  IN  /\ Goto(w, "stat", IF ret[w] = "eof" THEN "del" ELSE IF more THEN "hits" ELSE NextSsn)
      /\ status' = IF more THEN status ELSE [status EXCEPT ![s] = "IDLE"]
      /\ events' = IF more THEN events ELSE [events EXCEPT ![s] = FALSE]
      /\ UNCHANGED <<peerVars, ready, pipe, conn, pin_hits, queueVars, total_ssns, ioVars,
                     ssn, hits, ret, readok, stopVars>>

\* zemq_ssn_ctl(EPOLL_CTL_DEL) writes to the pipe, again and again while it is full or closed.
\* (Between the closes of its two ends a write would end the program by SIGPIPE: left out.)
Command(w) ==
  /\ Len(pipe) < PipeMax /\ ~Stopping
  /\ Goto(w, "del", NextSsn)
  /\ pipe' = Append(pipe, ssn[w])
  /\ UNCHANGED <<peerVars, ready, ssnVars, queueVars, total_ssns, ioVars, ssn, hits, ret,
                 readok, stopVars>>

\* The wait ends, at the latest after a second, and is_run is seen.
WorkerExit(w) ==
  /\ Stopping
  /\ Goto(w, "wait", "exit")
  /\ UNCHANGED <<peerVars, ready, pipe, ssnVars, queueVars, total_ssns, ioVars, ssn, hits, ret,
                 readok, stopVars>>

-----------------------------------------------------------------------------
(* zemq_stop: it may be called while peers and threads are at work.        *)

StopCommand ==
  /\ stop = "no"
  /\ Len(pipe) < PipeMax
  /\ pipe' = Append(pipe, NULL)
  /\ stop' = "join"
  /\ UNCHANGED <<peerVars, ready, ssnVars, queueVars, total_ssns, ioVars, workerVars, is_run>>

JoinIo ==
  /\ stop = "join" /\ io = "exit"
  /\ stop' = "release"
  /\ UNCHANGED <<peerVars, ready, pipe, ssnVars, queueVars, total_ssns, ioVars, workerVars,
                 is_run>>

\* zemq_release_conn takes the data it is given for a node: what it closes is no session's
\* descriptor, and what it clears and recycles begins with the session and ends in the node
\* behind it, so that the walk may miss sessions.  The connections stay open.
Release ==
  /\ stop = "release"
  /\ \E visited \in SUBSET {s \in Nodes : conn[s] # NULL} :
       /\ (\E s \in Nodes : conn[s] # NULL) => visited # {}
       /\ conn' = [s \in Nodes |-> IF s \in visited THEN NULL ELSE conn[s]]
       /\ status' = [s \in Nodes |-> IF s \in visited THEN "IDLE" ELSE status[s]]
       /\ events' = [s \in Nodes |-> events[s] /\ s \notin visited]
       /\ pin_hits' = [s \in Nodes |-> IF s \in visited THEN 0 ELSE pin_hits[s]]
  /\ pipe' = <<>>
  /\ stop' = "workers"
  /\ UNCHANGED <<peerVars, ready, queueVars, total_ssns, ioVars, workerVars, is_run>>

JoinWorkers ==
  /\ stop = "workers" /\ \A w \in Workers : pc[w] = "exit"
  /\ stop' = "done"
  /\ UNCHANGED <<peerVars, ready, pipe, ssnVars, queueVars, total_ssns, ioVars, workerVars,
                 is_run>>

-----------------------------------------------------------------------------
Peer(c) == Connect(c) \/ Send(c) \/ Close(c)

Io ==
  \/ Wait \/ BatchDone
  \/ PipeEvent \/ DeleteSsn \/ ExitCommand \/ PipeEmpty
  \/ ListenEvent \/ AcceptDone \/ \E c \in Conns : Accept(c) \/ Refuse(c)
  \/ \E s \in Nodes : Hit(s)
  \/ SetReady \/ PushSsn \/ Post

Worker(w) ==
  \/ SemWait(w) \/ PopSsn(w) \/ ReadHits(w) \/ TestEvents(w) \/ ReadMessage(w) \/ WorkDone(w)
  \/ SetIdle(w) \/ Command(w) \/ WorkerExit(w)

Stop == StopCommand \/ JoinIo \/ Release \/ JoinWorkers

\* Every thread of the server waits for an event or is gone, or a worker writes to the closed
\* pipe for ever.
Rest ==
  /\ \/ stop = "done"
     \/ Stopping /\ \E w \in Workers : pc[w] = "del"
     \/ /\ io = "wait" /\ Arrived = {}
        /\ sem_emq = 0 /\ \A w \in Workers : pc[w] = "wait"
  /\ UNCHANGED vars

Next ==
  \/ \E c \in Conns : Peer(c)
  \/ Io
  \/ \E w \in Workers : Worker(w)
  \/ Stop
  \/ Rest

Spec == Init /\ [][Next]_vars

\* The threads of the server keep running, and so does one that has called zemq_stop; no
\* peer has to do anything.
FairSpec ==
  /\ Spec
  /\ WF_vars(Io) /\ \A w \in Workers : WF_vars(Worker(w))
  /\ WF_vars(JoinIo) /\ WF_vars(Release) /\ WF_vars(JoinWorkers)

-----------------------------------------------------------------------------
(* Safety                                                                  *)

\* A session is in the hands of one thread: it is once in emq, or with one worker, or with
\* the I/O thread that queues it.  do_work and packet_buf rely on it (epoll.c:800-832).
HandledOnce ==
  /\ \A v, w \in Workers, s \in Nodes : Handles(v, s) /\ Handles(w, s) => v = w
  /\ \A w \in Workers, s \in Nodes : Handles(w, s) => ~Queued(s)
  /\ \A i, j \in DOMAIN emq : emq[i] = emq[j] => i = j
  /\ io \in {"set", "push"} => ~Queued(cur) /\ \A w \in Workers : ~Handles(w, cur)

\* Until zemq_stop gives up the sessions input does not get stuck: the connection is in the
\* ready list, its event is being handled, or its session is queued or with a worker that
\* will look again.  A hit between the last recv and the test of pin_hits is the case to get
\* right (epoll.c:477-498 against 815-824).
InputNoticed ==
  \A s \in Nodes :
    conn[s] # NULL /\ Readable(conn[s]) /\ ~Stopping =>
      \/ conn[s] \in ready \/ s \in batch
      \/ cur = s \/ Queued(s)
      \/ \E w \in Workers : Handles(w, s) /\ (pc[w] \in {"stat", "del"}
                                               => ret[w] = "eof" \/ pin_hits[s] # hits[w])
      \/ \E i \in DOMAIN pipe : pipe[i] = s

\* A queued session is attended to: the semaphore has a unit for a waiting worker, a worker
\* is in the loop that empties the queue, or the post is still to come (epoll.c:491-492
\* against 793-795).
QueueAttended ==
  emq # <<>> => sem_emq > 0 \/ io = "post" \/ \E w \in Workers : pc[w] # "wait"

\* The server closes a connection only when the peer has closed it, as the sample's handler
\* and its clients assume (tests/tepoll.h:219-223, 86-114).
ClosedByPeerOnly == \A c \in Conns : peer[c] = "closed" => fin[c]

(* Liveness                                                                *)

\* Whatever a peer sent on an accepted connection is read, or the connection closed, unless
\* the server is stopped.
InputRead ==
  \A c \in Conns :
    peer[c] = "open" /\ inbox[c] > 0 ~> inbox[c] = 0 \/ peer[c] = "closed" \/ stop # "no"

\* The session of a peer that closed is deleted, unless the server is stopped.
SessionReleased ==
  \A c \in Conns : peer[c] = "open" /\ fin[c] ~> peer[c] = "closed" \/ stop # "no"

\* Whatever the I/O thread and the workers are doing when zemq_stop is called, the I/O thread
\* leaves and every worker does, but for those that want a session deleted when the pipe is
\* closed: they write to it for ever (epoll.c:904-919 against 550-612 and 792-858).
StopReturns ==
  stop = "join" ~> stop = "done" \/ (Stopping /\ \E w \in Workers : pc[w] = "del")
=============================================================================
