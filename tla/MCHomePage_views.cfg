CONSTANTS
  Requests = {r1}
  None = None
  MaxDrops = 1
  MaxFailures = 1
SPECIFICATION Spec
INVARIANT TypeOK
INVARIANT BarIsCurrent
INVARIANT ShownIsTimed
PROPERTY FeedSettles
PROPERTY ClosedLeavesPage
PROPERTY BarSettles
CHECK_DEADLOCK FALSE
