SPECIFICATION Spec
CONSTANTS
  a = a
  b = b
  c = c
  g1 = g1
  g2 = g2
  g3 = g3
  Nodes = {a, b, c}
  GraphIds = {g1, g2, g3}
  Inputs <- MCInputs
CHECK_DEADLOCK FALSE
INVARIANTS
  ReachIsLeast
  CycleVerdict
  GateAgrees
