SPECIFICATION FairSpec
CONSTANTS
  Directions = {"in", "out"}
  MayFail = {"add", "modify", "ready"}
  MaxTime = 2
  MaxVideo = 1
INVARIANTS
  TypeOK
  RowIsKept
  OutcomeAgrees
PROPERTIES
  EventuallyClosed
  
CHECK_DEADLOCK FALSE
