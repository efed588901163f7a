CONSTANTS
  h1 = h1
  h2 = h2
  h3 = h3
  t1 = t1
  t2 = t2
  s1 = s1
  s2 = s2
  Handlers = {h1, h2, h3}
  MaxCalls = 3
  Browsers = {b1}
  Tabs = {t1, t2}
  NoTab = NoTab
  Sids = {s1, s2}
  MaxTime = 1
SPECIFICATION Spec
SYMMETRY Symmetry
INVARIANT TypeOK
INVARIANT FalseAlarmNeedsLoss
INVARIANT DeletedLeavesNoSession
PROPERTY AdminStaysAdmin
PROPERTY RolesUnlessOvertaken
CHECK_DEADLOCK FALSE
