SPECIFICATION Spec
CONSTANTS
  Thumbs = {t1, t2}
  Icons = {i1}
  Surfaces = {s1}
  ProviderSlots = 2
  ProviderQueue = 1
  UploadQueue = 1
  ApplyQueue = 1
  Concurrency <- MCConcurrency
  Capacity <- MCCapacity
  UploadsPerFrame = 2
  AppliesPerFrame = 1
  CacheCap = 1
  MaxRequests = 3
  MaxVersion = 0
  MaxListing = 1
INVARIANTS JobsAccountedFor QueuedWorkIsWanted
CHECK_DEADLOCK FALSE
