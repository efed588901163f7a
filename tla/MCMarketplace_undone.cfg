CONSTANTS
  s1 = s1
  s2 = s2
  r1 = r1
  r2 = r2
  Seekers = {s1}
  Providers = {p1}
  Requests = {r1}
  SeekerOf <- Single
  Handlers = {h1, h2}
  Sweepers = {}
  MayFail = {}
  None = None
SPECIFICATION Spec
PROPERTY CompletedStaysCompleted
SYMMETRY Alike
CHECK_DEADLOCK FALSE
