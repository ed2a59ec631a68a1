SPECIFICATION FairLaneSpec
CONSTANTS
  s1 = s1
  s2 = s2
  k1 = k1
  k2 = k2
  Scopes <- MCScopes
  AssetKeys <- MCKeys
  Generations = {1, 2}
  LaneConcurrency = 2
  LaneCapacity = 2
  MaxSequence = 3
INVARIANTS QueueSound RunningWithinCap OneWorkerPerReservation
PROPERTIES RetirementReachesWorkers EvictionRespectsPriority LaneDrains
