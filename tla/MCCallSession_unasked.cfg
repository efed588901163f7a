CONSTANTS
  c1 = c1
  c2 = c2
  Seeker = seeker
  Provider = provider
  Ids = {c1, c2}
  None = None
  Dials <- Again
SPECIFICATION Spec
PROPERTY AnsweredByUser
CHECK_DEADLOCK FALSE
