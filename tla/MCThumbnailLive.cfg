SPECIFICATION FairSpec
CONSTANTS
  Thumbs = {t1}
  Icons = {}
  Surfaces = {s1}
  ProviderSlots = 2
  ProviderQueue = 1
  UploadQueue = 2
  ApplyQueue = 1
  Concurrency <- MCConcurrency
  Capacity <- MCCapacity
  UploadsPerFrame = 1
  AppliesPerFrame = 1
  CacheCap = 1
  MaxRequests = 3
  MaxVersion = 1
  MaxListing = 1
CHECK_DEADLOCK FALSE
PROPERTIES EveryRequestSettles
