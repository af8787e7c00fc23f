------------------------------ MODULE TraceNet ------------------------------
(***************************************************************************)
(* src/tracenet.c: a program that sends its trace lines to a log server,   *)
(* and the program with the server's thread, zproc_tracenet.  A byte is    *)
(* <<line, piece>>; the connection between the two is external.            *)
(***************************************************************************)
EXTENDS Integers, Sequences, FiniteSets, SequencesExt

CONSTANTS
  Capacity,   \* bytes that a connection holds
  MaxNetLines \* bound on the lines sent

VARIABLES
  logfd,  \* zg_logfd, "ZINVALID_SOCKET" or "open"; "killed" when the sender's program is gone
  sending, \* what znet_send has left of the current piece, and of the pieces after it
  lines,  \* lines so far
  given,  \* the bytes given to the current connection
  conn,   \* the connection: "none", "waiting" for accept, "accepted", "leaked"
  fin,    \* the sender has closed its end
  pipe, \* bytes in the connection
  shown,  \* bytes of the connection that zg_netfn was given
  state,  \* zg_tracenet_state: 0, 1 running, 2 to be stopped
  thread  \* zproc_tracenet: "none", "start", "select", "read", "closing"

senderVars == <<logfd, sending, lines, given>>
serverVars == <<state, thread>>
netVars == <<senderVars, conn, fin, pipe, shown, serverVars>>

NetInit ==
  /\ logfd = "ZINVALID_SOCKET" /\ sending = <<>> /\ lines = 0 /\ given = <<>>
  /\ conn = "none" /\ fin = FALSE /\ pipe = <<>> /\ shown = <<>>
  /\ state = 0 /\ thread = "none"

-----------------------------------------------------------------------------
(* The sender.                                                             *)

\* ztrace_netctl, called when the last connection has ended.  It succeeds; or it fails: no
\* socket, a bad address, an error or no answer in 3 s; or the connect is refused at once and
\* SO_ERROR, asked afterwards, says nothing.
Netctl ==
  /\ logfd = "ZINVALID_SOCKET" /\ sending = <<>> /\ conn = "none"
  /\ given' = <<>> /\ shown' = <<>> /\ pipe' = <<>> /\ fin' = FALSE
  /\ \/ thread \in {"select", "read"} /\ conn' = "waiting" /\ logfd' = "open"
     \/ UNCHANGED <<conn, logfd>>
     \/ thread \notin {"select", "read"} /\ logfd' = "open" /\ UNCHANGED conn
  /\ UNCHANGED <<sending, lines, serverVars>>

\* The pieces of a line: time, severity, text, newline.
Pieces(n) == <<<<n, "time">>>> \o <<<<n, "level">>>> \o <<<<n, "text">>, <<n, "text">>>>
             \o <<<<n, "newline">>>>

\* ztrace_net begins a line; without a connection it drops it.
TraceLine ==
  /\ logfd # "killed" /\ sending = <<>>
  /\ lines < MaxNetLines /\ lines' = lines + 1
  /\ IF logfd = "open"
     THEN sending' = Pieces(lines') /\ given' = given \o sending'
     ELSE UNCHANGED <<sending, given>>
  /\ UNCHANGED <<logfd, conn, fin, pipe, shown, serverVars>>

\* The next send(2) is given the bytes of one piece.
PieceLength == Cardinality({i \in DOMAIN sending : sending[i] = Head(sending)})

Reachable == conn # "none"

\* Mutated form: a send that takes a part of a piece ends it.
RestOfPieces(n) == SubSeq(sending, PieceLength + 1, Len(sending))

\* What is left when n bytes of the piece are sent.
Rest(n) == SubSeq(sending, n + 1, Len(sending))

\* A send of znet_send takes a part of the piece; with no room (EAGAIN) it is tried again.
NetSend ==
  /\ sending # <<>> /\ logfd = "open" /\ Reachable
  /\ \E n \in 1..PieceLength :
       /\ Len(pipe) + n <= Capacity
       /\ pipe' = pipe \o SubSeq(sending, 1, n)
       /\ sending' = Rest(n)
  /\ UNCHANGED <<logfd, lines, given, conn, fin, shown, serverVars>>

\* Mutated form: the error is taken for EAGAIN.
DropNot == UNCHANGED <<sending, logfd>>

\* An error closes the socket, and the rest of the line finds no connection.
Drop == sending' = <<>> /\ logfd' = "ZINVALID_SOCKET"

NetSendFails ==
  /\ sending # <<>> /\ logfd = "open" /\ ~Reachable
  /\ Drop
  /\ UNCHANGED <<lines, given, conn, fin, pipe, shown, serverVars>>

\* Or the signal SIGPIPE, which send raises on a connection that the server has closed, ends
\* the sender's program: neither its flags nor anybody else prevent it.
NetSendKills ==
  /\ sending # <<>> /\ logfd = "open" /\ ~Reachable
  /\ sending' = <<>> /\ logfd' = "killed"
  /\ UNCHANGED <<lines, given, conn, fin, pipe, shown, serverVars>>

\* ztrace_netstop in the sender.
NetstopSender ==
  /\ logfd = "open" /\ sending = <<>>
  /\ logfd' = "ZINVALID_SOCKET" /\ fin' = TRUE
  /\ UNCHANGED <<sending, lines, given, conn, pipe, shown, serverVars>>

-----------------------------------------------------------------------------
(* The server.                                                             *)

\* ztrace_netserver.  While a server runs or stops it does nothing and returns ZOK.  A server
\* is started again when the last one has closed its socket.
Netserver ==
  /\ state = 0 /\ thread = "none"
  /\ thread' = "start" /\ state' = 1
  /\ UNCHANGED <<senderVars, conn, fin, pipe, shown>>

\* ztrace_netstop in the server: it waits 2 s for the thread, then returns all the same.
NetstopServer ==
  /\ state = 1 /\ state' = 2
  /\ UNCHANGED <<senderVars, conn, fin, pipe, shown, thread>>

\* Without a socket the thread returns and leaves zg_tracenet_state as it is.
ServerSocket ==
  /\ thread = "start" /\ thread' \in {"select", "none"}
  /\ UNCHANGED <<senderVars, conn, fin, pipe, shown, state>>

Accept ==
  /\ thread = "select" /\ state # 2 /\ conn = "waiting"
  /\ conn' = "accepted" /\ thread' = "read"
  /\ UNCHANGED <<senderVars, fin, pipe, shown, state>>

\* zrecv takes what has arrived ...
Receive ==
  /\ thread = "read" /\ state # 2 /\ pipe # <<>>
  /\ shown' = shown \o pipe /\ pipe' = <<>>
  /\ UNCHANGED <<senderVars, conn, fin, serverVars>>

\* ... or, at its end, 0: back to select.
Ended ==
  /\ thread = "read" /\ state # 2 /\ pipe = <<>> /\ fin
  /\ conn' = "none" /\ thread' = "select"
  /\ UNCHANGED <<senderVars, fin, pipe, shown, state>>

\* Mutated form: the inner loop does not look at zg_tracenet_state.
StoppedOutside == state = 2 /\ thread # "read"

\* What both loops look at.
Stopped == state = 2

\* The loops end.
Leave ==
  /\ thread \in {"select", "read"} /\ Stopped
  /\ state' = 0 /\ thread' = "closing"
  /\ UNCHANGED <<senderVars, conn, fin, pipe, shown>>

\* The listening socket is closed, and the connections that wait for accept with it; an
\* accepted one stays open.
Close ==
  /\ thread = "closing" /\ thread' = "none"
  /\ conn' = CASE conn = "waiting" -> "none" [] conn = "accepted" -> "leaked" [] OTHER -> conn
  /\ UNCHANGED <<senderVars, fin, pipe, shown, state>>

\* The server's program may exit some time after that.
Exit ==
  /\ conn = "leaked" /\ conn' = "none"
  /\ UNCHANGED <<senderVars, fin, pipe, shown, serverVars>>

NetNext ==
  \/ Netctl \/ TraceLine \/ NetSend \/ NetSendFails \/ NetSendKills \/ NetstopSender
  \/ Netserver \/ NetstopServer \/ ServerSocket
  \/ Accept \/ Receive \/ Ended \/ Leave \/ Close \/ Exit

\* Both programs' threads run; the server's program need not end.
NetFairness ==
  /\ WF_netVars(NetSend) /\ WF_netVars(NetSendFails)
  /\ WF_netVars(Accept) /\ WF_netVars(Receive) /\ WF_netVars(Ended)
  /\ WF_netVars(Leave) /\ WF_netVars(Close)

NetSpec == NetInit /\ [][NetNext]_netVars /\ NetFairness

-----------------------------------------------------------------------------
\* The server shows the lines of a connection in their order and without a gap, also when a
\* line's pieces are sent in parts and when the connection breaks (tracenet.c:27-73, 155-186).
LinesInOrder ==
  /\ IsPrefix(shown \o pipe, given)
  /\ conn # "none" => given = shown \o pipe \o sending

\* A server that has its socket and is stopped says so (tracenet.c:197-206, 234-279).
ServerStops == state = 2 /\ thread \in {"select", "read"} ~> state = 0

\* ztrace_net returns (or its program is ended by SIGPIPE), whatever becomes of the server, but
\* for a connection that the server has leaked and its program keeps: that one, once it is full,
\* holds the sender for ever, where tracenet.h:34 says the line is dropped (tracenet.c:37-68,
\* 285-289).
TraceReturns == (sending # <<>> ~> sending = <<>>) \/ <>[](conn = "leaked")
=============================================================================
