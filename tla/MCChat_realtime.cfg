CONSTANTS
  Texts = {t1}
  Incoming = {m1}
  PageLimit = 2
  MaxDrops = 2
  MaxFailures = 2
SPECIFICATION Spec
INVARIANT TypeOK
INVARIANT OwnTextOnce
PROPERTY SendingEnds
PROPERTY DropIsHealed
CHECK_DEADLOCK FALSE
