SPECIFICATION Spec
CONSTANTS
  a = a
  b = b
  s1 = s1
  s2 = s2
  None = None
  Files = {a}
  Slots = {s1}
  MaxDepth = 2
  MaxVersion = 2
CHECK_DEADLOCK FALSE
PROPERTIES
  UndoStands
