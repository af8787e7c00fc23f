\* The queue: up to three chunks and a spare one.  The list: two threads, up to two chunks.
SPECIFICATION MCSpec
CONSTANTS
  Chunks = {k1, k2, k3, k4}
  NULL = NULL
  ChunkSize = 2
  Values = {v1, v2}
  MaxSize = 3
  Threads = {u1, u2}
  Capacity = 2
  MaxMem = 1
  Nil = Nil
SYMMETRY Symmetry
INVARIANTS
  ChunksAccounted
  ForeachVisitsItems
  BackIsLastItem
  MemoryBounded
  LinksAgree
  BlocksSound
PROPERTIES
  ImplementsDeque
  ListImplementsDeque
