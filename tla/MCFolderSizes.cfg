SPECIFICATION Spec
CONSTANTS
  top = top
  a = a
  b = b
  side = side
  deep = deep
  Walks = {1, 2}
  Workers = {k1, k2}
  Dirs = {top, a, b}
  Children <- MCChildren
  NoDir = NoDir
  Tabs = {t1}
  NoTab = NoTab
  Places = {top}
  Pooled = {1}
  ChannelBatches = 1
  MaxChanges <- MCChanges
INVARIANTS  RefreshMeasures InvalidationHolds 
SYMMETRY WorkersSymmetry
CHECK_DEADLOCK FALSE
