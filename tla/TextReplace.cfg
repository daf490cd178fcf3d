SPECIFICATION Spec
CONSTANTS
  n1 = n1
  e1 = e1
  r1 = r1
  x1 = x1
  c1 = c1
  p1 = p1
  p2 = p2
  s1 = s1
  Msgs <- ReplaceMsgs
  Kind <- ReplaceKind
  Target <- ReplaceTarget
  Sent = {s1}
  Self = {}
  MAX_SAVE_ATTEMPTS = 1
  MayFail = {"conv", "add", "getEvents", "commit", "resave"}
  MaxResends = 1
  MaxRestarts = 1
INVARIANTS
  Bookkeeping
PROPERTIES
  ImplementsStore
CHECK_DEADLOCK FALSE
