------------------------------ MODULE Sockets -------------------------------
(***************************************************************************)
(* The TCP calls of src/socket.c between two programs: one listens,        *)
(* accepts and takes packets with zrecv_packet, the other connects and     *)
(* sends packets with zsend.  A packet is a byte between two flags; filler *)
(* may follow it.  The kernel's side of a connection is external.          *)
(***************************************************************************)
EXTENDS Integers, Sequences, FiniteSets

CONSTANTS
  Payloads,   \* the bytes that packets carry
  Flag,       \* the bitmask of zrecv_packet
  Filler,     \* a byte between two packets
  MaxLen,     \* maxlen: the reader's buffer, and what a connection holds
  MaxPackets, \* bound on the packets sent
  WholePackets \* the reader calls zrecv_packet only when all that was sent has arrived

ASSUME SocketsAssumption ==
  /\ Flag # Filler /\ Flag \notin Payloads /\ Filler \notin Payloads
  /\ MaxLen \in Nat \ {0} /\ MaxPackets \in Nat
  /\ WholePackets \in BOOLEAN

VARIABLES
  lsock,   \* the listener: "none", "open", "listening"
  csock,   \* the sender: "none", "open", "trying", "refused", "up", "shut"
  asock,   \* the accepted socket: "none", "up", "shut"
  backlog, \* a connection waits for accept
  result,  \* what zconnectx returned to the sender, "none" before
  tosend,  \* what zsend has not sent yet: buf+sended
  stream,  \* bytes in the connection
  sent,    \* the packets given to zsend
  buf, offset, len, \* the reader's buffer, and where the packet and the data end
  got      \* the packets that zrecv_packet returned

connVars == <<lsock, csock, asock, backlog, result>>
readVars == <<buf, offset, len, got>>
sockVars == <<connVars, tosend, stream, sent, readVars>>

Index == 0..MaxLen

SockInit ==
  /\ lsock = "none" /\ csock = "none" /\ asock = "none" /\ backlog = FALSE
  /\ result = "none"
  /\ tosend = <<>> /\ stream = <<>> /\ sent = <<>>
  /\ buf = [i \in Index |-> Filler] /\ offset = 0 /\ len = 0
  /\ got = <<>>

-----------------------------------------------------------------------------
(* Connections.                                                            *)

\* zsocket: nonblocking, or none.
Zsocket ==
  /\ \/ lsock = "none" /\ lsock' = "open" /\ UNCHANGED csock
     \/ csock = "none" /\ csock' = "open" /\ UNCHANGED lsock
  /\ UNCHANGED <<asock, backlog, result, tosend, stream, sent, readVars>>

\* zconnectx stops at an address that zinet_addr cannot convert.
BadAddress ==
  /\ csock = "open" /\ result = "none" /\ result' = "ZFUN_FAIL"
  /\ UNCHANGED <<lsock, csock, asock, backlog, tosend, stream, sent, readVars>>

\* zbind and zlisten.
Zlisten == lsock = "open" /\ lsock' = "listening"

\* zconnectx with listenq > 0.
Listen ==
  /\ Zlisten
  /\ UNCHANGED <<csock, asock, backlog, result, tosend, stream, sent, readVars>>

\* The kernel's answer to a connect.
Answer(state) ==
  \/ lsock = "listening" /\ state = "up" /\ backlog' = TRUE
  \/ lsock # "listening" /\ state = "refused" /\ UNCHANGED backlog

\* zconnect on a blocking socket.
Zconnect(state) == Answer(state) /\ csock' = state

\* zconnectx with a timeout of -1: the socket is blocking for the length of zconnect.
ConnectBlocking ==
  /\ csock = "open" /\ result = "none"
  /\ \E state \in {"up", "refused"} :
       Zconnect(state) /\ result' = IF state = "up" THEN "ZOK" ELSE "ZFUN_FAIL"
  /\ UNCHANGED <<lsock, asock, tosend, stream, sent, readVars>>

\* A nonblocking connect is under way (EINPROGRESS) ...
ConnectStart ==
  /\ csock = "open" /\ result = "none" /\ csock' = "trying"
  /\ UNCHANGED <<lsock, asock, backlog, result, tosend, stream, sent, readVars>>

Resolve ==
  /\ csock = "trying"
  /\ \E state \in {"up", "refused"} : Answer(state) /\ csock' = state
  /\ UNCHANGED <<lsock, asock, result, tosend, stream, sent, readVars>>

\* What zselect finds: the connection's end has come, or the time has.
Zselect == csock \in {"up", "refused"}

\* ... zselect waits for it, 4 s if the timeout is not between 1 and 15 s, and SO_ERROR tells
\* what it came to.
SelectDone ==
  /\ result = "none" /\ csock \in {"trying", "up", "refused"}
  /\ result' = IF ~Zselect THEN "ZTIMEOUT" ELSE IF csock = "up" THEN "ZOK" ELSE "ZFAIL"
  /\ UNCHANGED <<lsock, csock, asock, backlog, tosend, stream, sent, readVars>>

Zaccept ==
  /\ backlog /\ asock = "none"
  /\ asock' = "up" /\ backlog' = FALSE
  /\ UNCHANGED <<lsock, csock, result, tosend, stream, sent, readVars>>

\* zsockclose, of a connection that failed or after the last packet.
Zsockclose ==
  /\ csock \in {"open", "trying", "refused", "up"} /\ result # "none" /\ tosend = <<>>
  /\ csock' = "shut"
  /\ UNCHANGED <<lsock, asock, backlog, result, tosend, stream, sent, readVars>>

-----------------------------------------------------------------------------
(* Data.                                                                   *)

Packet(p) == <<Flag, p, Flag>>

SendPacket(p) ==
  /\ csock = "up" /\ result = "ZOK" /\ tosend = <<>> /\ Len(sent) < MaxPackets
  /\ \E filler \in {<<>>, <<Filler>>} : tosend' = Packet(p) \o filler
  /\ sent' = Append(sent, p)
  /\ UNCHANGED <<connVars, stream, readVars>>

\* A send(2) of zsend takes some of the rest; without room it is called again.
Zsend ==
  /\ csock = "up" /\ tosend # <<>>
  /\ \E n \in 1..Len(tosend) :
       /\ Len(stream) + n <= MaxLen
       /\ stream' = stream \o SubSeq(tosend, 1, n)
       /\ tosend' = SubSeq(tosend, n + 1, Len(tosend))
  /\ UNCHANGED <<connVars, sent, readVars>>

\* The first flag of b from i on, or the end of the data.
FlagFrom(b, i, end) ==
  CHOOSE j \in i..end : (j = end \/ b[j] = Flag) /\ \A k \in i..j - 1 : b[k] # Flag

\* Mutated form: the scan begins with the flag that opens the packet.
ScanFromOpening(b, end) ==
  CHOOSE j \in 0..end : (b[j] = Flag \/ j = end) /\ \A k \in 0..j - 1 : b[k] # Flag

\* The scan for the flag that closes a packet just received tests each byte, the one at the
\* end included, before it looks for the end.
Scan(b, end) ==
  CHOOSE j \in 1..end : (b[j] = Flag \/ j = end) /\ \A k \in 1..j - 1 : b[k] # Flag

\* The data behind the last packet: what stands before a flag is dropped, the rest moved to
\* the front.
Moved(start) == [i \in Index |-> IF i < len - start THEN buf[i + start] ELSE buf[i]]

Bytes(b, n) == [i \in 1..n |-> b[i - 1]]

\* zrecv: the n bytes that have arrived.
Zrecv(b, n) == [i \in Index |-> IF i < n THEN stream[i + 1] ELSE b[i]]

\* zrecv_packet finds the next packet in the buffer (with an offset behind the data its scan
\* would leave the buffer: such a call is left out) ...
NextPacket ==
  LET start == FlagFrom(buf, offset, len)
      close == FlagFrom(Moved(start), 1, len - start)
  IN  /\ asock = "up" /\ offset \in 1..len
      /\ start < len /\ close < len - start
      /\ buf' = Moved(start) /\ len' = len - start /\ offset' = close + 1
      /\ got' = Append(got, Bytes(buf', offset'))
      /\ UNCHANGED <<connVars, tosend, stream, sent>>

\* ... or empties the buffer, whatever is left in it, and receives: nothing (ZAGAIN), the end
\* (the reader closes) or what has arrived, which may end within a packet.
ReceivePacket ==
  LET start == FlagFrom(buf, offset, len)
      moved == Moved(start)
      end == Scan(buf', len')
  IN  /\ asock = "up" /\ offset <= len
      /\ offset # 0 /\ start < len => FlagFrom(moved, 1, len - start) = len - start
      /\ \E n \in 0..Len(stream) :
           /\ WholePackets => tosend = <<>> /\ n = Len(stream)
           /\ buf' = Zrecv(moved, n) /\ len' = n /\ stream' = SubSeq(stream, n + 1, Len(stream))
      /\ IF len' = 0 THEN offset' = 0 /\ UNCHANGED got
         ELSE IF buf'[end] = Flag THEN offset' = end + 1 /\ got' = Append(got, Bytes(buf', end + 1))
         ELSE offset' = end /\ UNCHANGED got
      /\ asock' = IF stream = <<>> /\ csock = "shut" THEN "shut" ELSE asock
      /\ UNCHANGED <<lsock, csock, backlog, result, tosend, sent>>

SockNext ==
  \/ Zsocket \/ BadAddress \/ Listen \/ ConnectBlocking \/ ConnectStart \/ Resolve \/ SelectDone
  \/ Zaccept \/ Zsockclose
  \/ \E p \in Payloads : SendPacket(p)
  \/ Zsend \/ NextPacket \/ ReceivePacket

SockSpec == SockInit /\ [][SockNext]_sockVars

-----------------------------------------------------------------------------
\* If the reader calls when all that was sent has arrived, zrecv_packet returns the packets as
\* they were sent, and those that it did not return yet are in the buffer or on their way
\* (socket.c:281-342).
PacketsDelivered ==
  LET rest == SubSeq(Bytes(buf, len), offset + 1, len) \o stream \o tosend
      flags == Cardinality({i \in DOMAIN rest : rest[i] = Flag})
  IN  /\ Len(got) <= Len(sent)
      /\ \A i \in DOMAIN got : got[i] = Packet(sent[i])
      /\ tosend = <<>> => flags = 2 * (Len(sent) - Len(got))

\* The same whenever the reader calls: after a part of a packet zrecv_packet "needs more"
\* (socket.h:82), and what it returns is a packet that was sent.
PacketsWhole ==
  \A i \in DOMAIN got : i <= Len(sent) /\ got[i] = Packet(sent[i])
=============================================================================
