SPECIFICATION Spec
CONSTANTS
  n1 = n1
  e1 = e1
  r1 = r1
  x1 = x1
  c1 = c1
  p1 = p1
  p2 = p2
  s1 = s1
  Msgs <- BatchMsgs
  Kind <- BatchKind
  Target <- BatchTarget
  Sent = {}
  Self = {e1}
  MAX_SAVE_ATTEMPTS = 1
  MayFail = {"add", "scroll", "commit", "resave"}
  MaxResends = 0
  MaxRestarts = 1
INVARIANTS
  SavedBeforeExpunged
  
  
CHECK_DEADLOCK FALSE
