------------------------------ MODULE ZemqSend ------------------------------
(***************************************************************************)
(* zemq_send of src/epoll.c on one session: what does not fit into the     *)
(* socket is kept in ssn->send_buf and sent when the socket has room.  A   *)
(* byte is its message and its place; a call holds spin_send, so calls     *)
(* follow one another, and each send(2) of a call is a step.               *)
(***************************************************************************)
EXTENDS Integers, Sequences, SequencesExt

CONSTANTS
  Messages, \* the messages that are sent
  Length,   \* bytes of a message
  MaxWire,  \* bound on the bytes on the wire
  Garbage,  \* a byte from behind a buffer
  NULL      \* no buffer

VARIABLES
  called,   \* the bytes of the messages that zemq_send has not refused
  wire,     \* the bytes the socket took
  send_buf, \* ssn->send_buf, as long as send_buf_len, or NULL
  at,       \* the running call: "none", or in zemq_sendn with "pending" or "direct"
  buf,      \* the message of the call; NULL if a worker polls out
  sended,   \* the local of zemq_sendn
  data,     \* what the events of the descriptor carry: the session's "ptr" or its "fd"
  crashed   \* memory was touched that is not there

sendVars == <<called, wire, send_buf, at, buf, sended, data, crashed>>

Bytes(m) == [i \in 1..Length |-> <<m, i>>]

\* Nothing sets emq->buf_size after zemq_init has cleared it.
BufSize == 0

SendInit ==
  /\ called = <<>> /\ wire = <<>>
  /\ send_buf = NULL /\ at = "none" /\ buf = NULL
  /\ sended = 0 /\ data = "ptr" /\ crashed = FALSE

\* What zemq_sendn was given.
Out == IF at = "pending" THEN send_buf ELSE buf

\* A worker sends a message, or polls out what is pending.
Call(m) ==
  /\ ~crashed /\ at = "none"
  /\ buf' = m
  /\ called' = IF m = NULL THEN called ELSE called \o m
  /\ at' = IF send_buf # NULL THEN "pending" ELSE IF m # NULL THEN "direct" ELSE "none"
  /\ sended' = 0
  /\ UNCHANGED <<wire, send_buf, data, crashed>>

\* send(2) takes some of the Len(Out) bytes behind the first sended ones.
SendSome ==
  /\ ~crashed /\ at # "none" /\ sended # Len(Out)
  /\ \E n \in 1..Len(Out) :
       /\ Len(wire) + n <= MaxWire
       /\ sended' = sended + n
       /\ wire' = wire \o [i \in 1..n |-> IF sended + i <= Len(Out) THEN Out[sended + i]
                                          ELSE Garbage]
  /\ UNCHANGED <<called, send_buf, at, buf, data, crashed>>

\* zemq_get_buf: the allocator has a buffer or not; the caller does not look.
GetBuf == BOOLEAN

\* zemq_push_buf.
PushBuf == send_buf' = NULL

\* zemq_ctl_ssn puts the number of the descriptor where the session's address was.
CtlSsn == data' = "fd"

\* The buffer is given back and the descriptor registered without EPOLLOUT, by its number.
PendingSent ==
  /\ ~crashed /\ at = "pending" /\ sended = Len(Out)
  /\ PushBuf /\ CtlSsn /\ sended' = 0
  /\ at' = IF buf = NULL THEN "none" ELSE "direct"
  /\ UNCHANGED <<called, wire, buf, crashed>>

\* EAGAIN: the rest moves to the front; the message is appended if buf_size allows.
PendingAgain ==
  /\ ~crashed /\ at = "pending" /\ sended # Len(Out)
  /\ at' = "none"
  /\ crashed' = (sended > Len(send_buf))
  /\ LET rest == SubSeq(send_buf, sended + 1, Len(send_buf))
         len == IF buf = NULL THEN 0 ELSE Len(buf)
         insufficient == len + Len(rest) > BufSize
     IN  /\ send_buf' = IF insufficient \/ buf = NULL THEN rest ELSE rest \o buf
         /\ called' = IF insufficient /\ buf # NULL
                        THEN SubSeq(called, 1, Len(called) - len) ELSE called
  /\ UNCHANGED <<wire, buf, sended, data>>

DirectSent ==
  /\ ~crashed /\ at = "direct" /\ sended = Len(Out)
  /\ at' = "none"
  /\ UNCHANGED <<called, wire, send_buf, buf, sended, data, crashed>>

\* EAGAIN: as many bytes as are left are kept, from the front of the message, and the
\* descriptor is registered with EPOLLOUT, by its number.
DirectAgain ==
  /\ ~crashed /\ at = "direct" /\ sended # Len(Out)
  /\ at' = "none"
  /\ \E got \in GetBuf : crashed' = (sended > Len(buf) \/ ~got)
  /\ send_buf' = IF crashed' THEN send_buf ELSE SubSeq(buf, 1, Len(buf) - sended)
  /\ CtlSsn
  /\ UNCHANGED <<called, wire, buf, sended>>

\* The I/O thread takes the number for the address of a session; zepoll_out would queue the
\* session's first bytes for its address.
Event ==
  /\ ~crashed /\ data = "fd"
  /\ crashed' = TRUE
  /\ UNCHANGED <<called, wire, send_buf, at, buf, sended, data>>

SendNext ==
  \/ \E m \in Messages : Call(Bytes(m))
  \/ Call(NULL)
  \/ SendSome \/ PendingSent \/ PendingAgain \/ DirectSent \/ DirectAgain \/ Event

SendSpec == SendInit /\ [][SendNext]_sendVars

\* What the peer receives is a prefix of the messages that were accepted, in their order
\* (epoll.c:345, 380-391).
SentInOrder == IsPrefix(wire, called)
=============================================================================
