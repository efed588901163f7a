CONSTANTS
  s1 = s1
  s2 = s2
  r1 = r1
  r2 = r2
  Seekers = {s1}
  Providers = {p1, p2}
  Requests = {r1, r2}
  SeekerOf <- TwoOfOne
  Handlers = {h1, h2}
  Sweepers = {}
  MayFail = {}
  None = None
SPECIFICATION Spec
INVARIANT TypeOK
INVARIANT OneOpenPerSeeker
INVARIANT OneJobPerSeeker
INVARIANT OpenJobIsBeingFulfilled
SYMMETRY Alike
CHECK_DEADLOCK FALSE
