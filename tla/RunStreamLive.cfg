SPECIFICATION FairSpec
CONSTANTS
  c1 = c1
  c2 = c2
  Conns = {c1, c2}
  OutLines <- MCShortOut
  ErrLines <- MCNoErr
  Depth = 1
  ReplaySize = 1
CHECK_DEADLOCK FALSE
PROPERTIES
  StreamEndsIfAllStay
