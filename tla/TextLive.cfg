SPECIFICATION FairSpec
CONSTANTS
  n1 = n1
  e1 = e1
  r1 = r1
  x1 = x1
  c1 = c1
  p1 = p1
  p2 = p2
  s1 = s1
  Msgs <- ReportMsgs
  Kind <- ReportKind
  Target <- ReportTarget
  Sent = {s1}
  Self = {}
  MAX_SAVE_ATTEMPTS = 2
  MayFail = {"commit", "query"}
  MaxResends = 0
  MaxRestarts = 0
INVARIANTS
  TypeOK
PROPERTIES
  EventuallyClosed
  
CHECK_DEADLOCK FALSE
