SPECIFICATION Spec
CONSTANTS
  None = None
  Nodes <- MCNodes
  GraphIds <- MCOneId
  Graphs <- MCAsk
CHECK_DEADLOCK FALSE
INVARIANTS
  ResumedRunSucceeds
