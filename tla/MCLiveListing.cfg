SPECIFICATION Spec
CONSTANTS
  t1 = t1
  t2 = t2
  w1 = w1
  w2 = w2
  a = a
  b = b
  Tabs = {t1, t2}
  Windows = {w1, w2}
  WindowOf <- MCWindowOf
  Start <- MCStart
  Dirs = {a, b}
  Batches <- MCBatches
  ToolBatches = 0
  Unreliable = {}
  ChannelBatches = 1
  MaxMoves = 1
  MaxChanges <- MCChanges
INVARIANTS ChangesSurface
CHECK_DEADLOCK FALSE
