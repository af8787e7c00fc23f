\* A tree of seven nodes; eight bytes on a connection and three packets; two logs of up to three
\* bytes (five at first) and three lines of up to two; three lines of five bytes over trace
\* connections of three; two changes of a file tree of four entries.
SPECIFICATION MCSpec
CONSTANTS
  Node = {1, 2, 3, 4, 5, 6, 7}
  KeyOf <- MCKeyOf
  NULL = NULL
  Idle = Idle
  Readers = {r1}
  MaxHeld = 1
  ErasesHeads = FALSE
  Payloads = {p1, p2}
  Flag = Flag
  Filler = Filler
  MaxLen = 8
  MaxPackets = 3
  WholePackets = TRUE
  Names = {n1, n2}
  DefaultName = n1
  Sizes = {3}
  DefaultSize = 5
  BufLen = 2
  Flags <- MCFlags
  MaxLines = 3
  Capacity = 3
  MaxNetLines = 3
  d1 = d1
  e1 = e1
  e2 = e2
  Root = Root
  Entries = {Root, d1, e1, e2}
  Dir <- MCDir
  MaxChanges = 2
INVARIANTS
  Verify
  TreeSound
  FindExact
  PrintsAll
  
  LogSuffix
  LogBounded
  LinesInOrder
  WalkVisits
PROPERTIES
  ImplementsMultimap
  ServerStops
  TraceReturns
\* Each part may come to its end.
CHECK_DEADLOCK FALSE
