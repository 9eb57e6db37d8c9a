SPECIFICATION FairSpec
CONSTANTS
  None = None
  Nodes <- MCNodes
  GraphIds <- MCGraphIds
  Graphs <- MCGraphs
CHECK_DEADLOCK FALSE
INVARIANTS
  TypeOK
  MergeAfterAll
  MergeOnce
  JoinsComplete
  SuccessStands
  CancelledOnRequest
PROPERTIES
  RunEnds
