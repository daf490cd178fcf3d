SPECIFICATION FairSpec
CONSTANTS
  c1 = c1
  c2 = c2
  t1 = t1
  t2 = t2
  pa = pa
  Tokens = {t1, t2}
  Conns = {c1, c2}
  Path <- OnePath
  MAX_RETRIES = 3
  MayFail = {"fetch", "timer", "lost"}
INVARIANTS
  TypeOK
  ChecksBounded
PROPERTIES
  ActsOnSeenTwice
  ChecksEnd
  ImplementsStore
CHECK_DEADLOCK FALSE
