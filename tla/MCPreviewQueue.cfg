SPECIFICATION FairSpec
CONSTANTS
  p1 = p1
  p2 = p2
  p3 = p3
  Windows = {w1, w2}
  Paths = {p1, p2, p3}
  NoPath = NoPath
  Refreshable <- MCRefreshable
  CacheCap = 2
  MaxGestures = 4
  MaxWarms = 1
INVARIANTS NothingWedges OnlyRealFailuresStick
PROPERTIES PanesFill
CHECK_DEADLOCK FALSE
