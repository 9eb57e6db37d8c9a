SPECIFICATION Spec
CONSTANTS
  a = a
  b = b
  s1 = s1
  s2 = s2
  None = None
  Files = {a, b}
  Slots = {s1, s2}
  MaxDepth = 1
  MaxVersion = 2
SYMMETRY MCSymmetry
CONSTRAINT MCBound
CHECK_DEADLOCK FALSE
INVARIANTS
  AutosaveAsksFirst
  UnsavedIsPending
PROPERTIES
  FileKeepsGraph
