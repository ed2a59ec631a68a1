SPECIFICATION FairSpec
CONSTANTS
  Calls = {c1, c2, c3}
  dead = dead
  healthy = healthy
  Keys <- MCKeys
  Stuck <- MCStuck
  Threads = {t1, t2}
  MaxPanics = 1
  None = None
INVARIANTS PoolSound OneProbePerKey KeysAccountedFor
PROPERTIES CallsReturn KeysComeBack
CHECK_DEADLOCK FALSE
