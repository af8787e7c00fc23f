\* One object only: the clone of a copied task fails.
SPECIFICATION Spec
CONSTANTS
  s = s
  c = c
  shared = shared
  copied = copied
  unheard = unheard
  None = None
  Workers = {w1, w2}
  Posters = {p1}
  Missions = {s, c}
  Types = {copied}
  Objs = {o1}
  Mode <- MCMode
  Subscribers <- MCSubscribers
  CloneMode <- MCCloneMode
  BatchMax = 1
  MaxPosts = 1
  MayStop = FALSE
  CreateMayFail = FALSE
INVARIANTS
  RefsMatchHolders
