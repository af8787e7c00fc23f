\* Threads may fail to start, the server may be stopped at any time.
SPECIFICATION Spec
CONSTANTS
  s = s
  c = c
  shared = shared
  copied = copied
  unheard = unheard
  None = None
  Workers = {w1, w2}
  Posters = {p1, p2}
  Missions = {s, c}
  Types = {shared, copied, unheard}
  Objs = {o1, o2, o3, o4}
  Mode <- MCMode
  Subscribers <- MCSubscribers
  CloneMode <- MCCloneMode
  BatchMax = 2
  MaxPosts = 2
  MayStop = TRUE
  CreateMayFail = TRUE
SYMMETRY Symmetry
INVARIANTS
  TypeOK
  ScheduledOnce
  NoLostWakeup
  SemaphoreMatches
  RefsMatchHolders
  ContentIntact
PROPERTIES
  ImplementsMissionExec
