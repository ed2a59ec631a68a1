SPECIFICATION FairSpec
CONSTANTS
  Views = {v1}
  Calls = {1, 2}
  Helpers = {1, 2}
  Engines = {"fast", "portable"}
  Protected = {2}
  PipeFrames = 1
  FastRows = 1
  PortableRows = 1
  QueueCap = 1
  MaxPerTick = 1
INVARIANTS ProtocolSafe TreeIsOneScan TasksAreScans
CHECK_DEADLOCK FALSE
PROPERTIES ScansSettle NoOrphan
