CONSTANTS
  s1 = s1
  s2 = s2
  r1 = r1
  r2 = r2
  Seekers = {s1, s2}
  Providers = {p1}
  Requests = {r1, r2}
  SeekerOf <- OneEach
  Handlers = {h1, h2}
  Sweepers = {}
  MayFail = {h1, h2}
  None = None
SPECIFICATION Spec
INVARIANT OneJobPerProvider
INVARIANT FulfilledHasJob
PROPERTY LockSpec
PROPERTY LeftoversAreInert
SYMMETRY Alike
CHECK_DEADLOCK FALSE
