SPECIFICATION FairSpec
CONSTANTS
  r1 = r1
  r2 = r2
  n1 = n1
  None = None
  Runs = {r1, r2}
  MaxConcurrent = 1
  Nodes = {n1}
  SilentStreams = TRUE
  WebSocket = TRUE
INVARIANTS
  TypeOK
  NoIdleSlotWithQueue
  PerRunStateReleased
PROPERTIES
  DirtyReachesRun
  QueueMovesUnlessCut
