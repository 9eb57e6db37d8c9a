SPECIFICATION FairSpec
CONSTANTS
  LastSeq = 8
  ReplaySize = 4
  Droppable <- MCDroppable
  MaxPending = 1
  MaxAttempts = 3
CHECK_DEADLOCK FALSE
INVARIANTS
  TypeOK
  InOrderOnce
  HolesAreMissed
  WithheldOnlyIfMissed
PROPERTIES
  FeedEnds
