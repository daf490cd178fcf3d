SPECIFICATION FairSpec
CONSTANTS
  i1 = i1
  o1 = o1
  s1 = s1
  s2 = s2
  l1 = l1
  In = {i1}
  Out = {o1}
  Modems = {s1, s2}
  DefaultModem = s1
  Sim <- OtherSim
  Location <- OneLocation
  NoLocation = NoLocation
  NoPath = NoPath
  SendsReports = {s2}
  Spent <- OneOrTheOther
  MayFail = {"add", "copy", "open", "modify"}
  MaxBus = 2
INVARIANTS
  TypeOK
  
  FilesMatchRow
PROPERTIES
  InProgressEnds
CHECK_DEADLOCK FALSE
