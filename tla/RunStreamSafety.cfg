SPECIFICATION Spec
CONSTANTS
  c1 = c1
  c2 = c2
  Conns = {c1}
  OutLines <- MCLongOut
  ErrLines <- MCErr
  Depth = 1
  ReplaySize = 2
CHECK_DEADLOCK FALSE
INVARIANTS
  TypeOK
  NoGap
  CompleteAtExit
  InOrder
  DropsAccounted
  OneRunFinished
