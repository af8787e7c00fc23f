\* Every thread starts, the server may be stopped.
SPECIFICATION FairSpec
CONSTANTS
  s = s
  c = c
  shared = shared
  copied = copied
  unheard = unheard
  None = None
  Workers = {w1, w2}
  Posters = {p1}
  Missions = {s, c}
  Types = {shared}
  Objs = {o1, o2}
  Mode <- MCMode
  Subscribers <- MCSubscribers
  CloneMode <- MCCloneMode
  BatchMax = 1
  MaxPosts = 2
  MayStop = TRUE
  CreateMayFail = FALSE
PROPERTIES
  Delivered
  Recycled
  StopCompletes
