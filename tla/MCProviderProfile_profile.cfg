CONSTANTS
  h1 = h1
  h2 = h2
  d1 = d1
  d2 = d2
  j1 = j1
  j2 = j2
  n1 = n1
  n2 = n2
  Handlers = {h1, h2}
  Numbers = {n1, n2}
  NoNumber = NoNumber
  DocIds = {d1, d2}
  Jobs = {j1, j2}
  MaxCalls = 4
SPECIFICATION Spec
SYMMETRY Symmetry
INVARIANT TypeOK
INVARIANT RatingNeverInflated
INVARIANT LockedIsPromoted
INVARIANT SoundUnlessStale
PROPERTY LifecycleUnlessStale
CHECK_DEADLOCK FALSE
