SPECIFICATION Spec
CONSTANTS
  sip = sip
  sim = sim
  conn1 = conn1
  conn2 = conn2
  Accounts = {sip, sim}
  Connections = {conn1, conn2}
  Early = {conn1}
  Of <- MCOf
  NoConnection = NoConnection
  Ring = {sim}
  MayFail = {"account"}
  MaxMoves = 3
  MaxStops = 1
CHECK_DEADLOCK FALSE
INVARIANTS
  AnnouncementsBounded
  LastAskedIsSet

  
