SPECIFICATION FairSpec
CONSTANTS
  t1 = t1
  t2 = t2
  w1 = w1
  w2 = w2
  a = a
  b = b
  Tabs = {t1}
  Windows = {w1}
  WindowOf <- OneWindowOf
  Start <- OneStart
  Dirs = {a, b}
  Batches <- MCBatches
  ToolBatches = 1
  Unreliable = {b}
  ChannelBatches = 1
  MaxMoves = 2
  MaxChanges <- MCChanges
INVARIANTS ListingConsistent FinishedListingIsWhole TasksEndWithTheirTab
PROPERTIES ListingsCatchUp
CHECK_DEADLOCK FALSE
