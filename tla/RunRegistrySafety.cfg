SPECIFICATION Spec
CONSTANTS
  r1 = r1
  r2 = r2
  r3 = r3
  r4 = r4
  a = a
  b = b
  c = c
  d = d
  None = None
  Reqs = {r1, r2, r3, r4}
  RunIds = {a, b, c}
  RunIdOf <- SharedId
  MaxRuns = 2
  PendingMax = 1
  UseRedis = TRUE
  GlobalLimit = 2
  Strict = TRUE
  RedisFaults = TRUE
  SpawnFaults = TRUE
CHECK_DEADLOCK FALSE
INVARIANTS
  TypeOK
  NoLostRun
  PlacedOnce
  CancelledNeverRuns
  ExitOnce
  ClusterCap
