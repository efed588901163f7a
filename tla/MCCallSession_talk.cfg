CONSTANTS
  c1 = c1
  c2 = c2
  Seeker = seeker
  Provider = provider
  Ids = {c1, c2}
  None = None
  Dials <- Anyone
SPECIFICATION Spec
INVARIANT TypeOK
INVARIANT RingingIsTimed
INVARIANT TalkIsWatched
INVARIANT PathIsOfCall
PROPERTY LineSpec
SYMMETRY AnyId
CHECK_DEADLOCK FALSE
