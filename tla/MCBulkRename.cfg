SPECIFICATION FairSpec
CONSTANTS
  a = a
  A = A
  b = b
  c = c
  d = d
  Names = {a, A, b, c}
  Key <- MCKey
  FoldsCase = TRUE
  Items = {x, y, z}
  Newcomers = {w}
  Selections <- AnySelection
  MaxBatches = 2
  FaultyBatches = 1
  MaxFailures = 2
  MaxForeign = 2
INVARIANTS BatchConsistent  ItemsWhereReported
PROPERTIES KeepsPromise BatchEnds
CHECK_DEADLOCK FALSE
