\* One packet, of which the reader may get a part.
SPECIFICATION SockSpec
CONSTANTS
  Payloads = {p1}
  Flag = Flag
  Filler = Filler
  MaxLen = 4
  MaxPackets = 1
  WholePackets = FALSE
INVARIANT PacketsWhole
\* The reader may have closed.
CHECK_DEADLOCK FALSE
