SPECIFICATION PoolSpec
CONSTANTS
  Node = {1, 2, 3, 4, 5, 6}
  KeyOf <- MCKeyOf
  NULL = NULL
  Idle = Idle
  Readers = {}
  MaxHeld = 1
  ErasesHeads = TRUE
  Bufs = {b1, b2, b3, b4}
  Sizes = {1, 2, 4}
  Width = 4
INVARIANT Verify
