SPECIFICATION FairSpec
CONSTANTS
  r1 = r1
  r2 = r2
  n1 = n1
  None = None
  Runs = {r1, r2}
  MaxConcurrent = 1
  Nodes = {}
  SilentStreams = FALSE
  WebSocket = FALSE
PROPERTIES
  QueuedJobStarts
