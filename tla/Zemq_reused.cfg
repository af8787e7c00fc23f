\* Peers close at any time; the handler survives empty reads.
SPECIFICATION Spec
CONSTANTS
  Workers = {w1, w2}
  Nodes = {s1}
  Conns = {c1, c2}
  NULL = NULL
  Listen = Listen
  Pipe = Pipe
  MaxSends = 2
  PipeMax = 1
  PeersClose = "anytime"
  EmptyReadCloses = FALSE
SYMMETRY Symmetry
INVARIANT ClosedByPeerOnly
