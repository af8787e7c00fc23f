\* Two messages of two bytes, and a socket that takes some of what it is given.
SPECIFICATION SendSpec
CONSTANTS
  Messages = {m1, m2}
  Length = 2
  MaxWire = 6
  Garbage = Garbage
  NULL = NULL
INVARIANT SentInOrder
\* A crash ends the behaviour.
CHECK_DEADLOCK FALSE
