CONSTANTS
  s1 = s1
  s2 = s2
  r1 = r1
  r2 = r2
  Seekers = {s1}
  Providers = {p1, p2}
  Requests = {r1}
  SeekerOf <- Single
  Handlers = {h1, h2}
  Sweepers = {w1}
  MayFail = {h1, h2, w1}
  None = None
SPECIFICATION FairSpec
INVARIANT ExpiredOnlyPastDeadline
PROPERTY HelperIsFixed
PROPERTY OpenRequestCloses
CHECK_DEADLOCK FALSE
