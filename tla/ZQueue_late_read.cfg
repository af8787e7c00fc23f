\* A value read through the pointer that zqueue_lock_pop returned.
SPECIFICATION Spec
CONSTANTS
  Producers = {p1, p2}
  Consumers = {c1, c2}
  Chunks = {k1, k2, k3, k4}
  NULL = NULL
  ChunkSize = 2
  Usages = {"lock_pop"}
  MaxPush = 4
SYMMETRY Symmetry
INVARIANTS
  ReadsIntact
