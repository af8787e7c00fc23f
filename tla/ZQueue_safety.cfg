\* The three ways to take a value; nobody pushes after an allocation failed.
SPECIFICATION Spec
CONSTANTS
  Producers = {p1, p2}
  Consumers = {c1, c2}
  Chunks = {k1, k2, k3, k4}
  NULL = NULL
  ChunkSize = 2
  Usages = {"front", "lock_front", "lock_pop"}
  MaxPush = 8
SYMMETRY Symmetry
INVARIANTS
  ChainSound
  SizeMatches
  FrontReadsIntact
PROPERTIES
  ImplementsFifo
