\* Peers close only while the server does nothing for them; the handler survives empty reads.
\* One node, which the second connection uses again.  No symmetry: liveness is checked.
SPECIFICATION FairSpec
CONSTANTS
  Workers = {w1, w2}
  Nodes = {s1}
  Conns = {c1, c2}
  NULL = NULL
  Listen = Listen
  Pipe = Pipe
  MaxSends = 2
  PipeMax = 1
  PeersClose = "quiet"
  EmptyReadCloses = FALSE
INVARIANTS
  HandledOnce
  InputNoticed
  QueueAttended
PROPERTIES
  InputRead
  SessionReleased
  
