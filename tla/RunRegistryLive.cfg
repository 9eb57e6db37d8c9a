SPECIFICATION FairSpec
CONSTANTS
  r1 = r1
  r2 = r2
  r3 = r3
  r4 = r4
  a = a
  b = b
  c = c
  d = d
  None = None
  Reqs = {r1, r2, r3, r4}
  RunIds = {a, b, c, d}
  RunIdOf <- OwnIds
  MaxRuns = 2
  PendingMax = 2
  UseRedis = FALSE
  GlobalLimit = 1
  Strict = FALSE
  RedisFaults = FALSE
  SpawnFaults = FALSE
CHECK_DEADLOCK FALSE
INVARIANTS
  RunningCap
PROPERTIES
  QueuedIsServed
  AcceptedRunExits
  ImplementsPool
