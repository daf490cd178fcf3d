SPECIFICATION Spec
CONSTANTS
  ge = ge
  gm = gm
  g1 = g1
  g2 = g2
  a = a
  c1 = c1
  me = me
  h1 = h1
  Groups = {ge, gm, g1, g2}
  Fit <- MixedFit
  Own = {g1, g2}
  Stored <- SomeStored
  NoName = NoName
  Names = {NoName, a}
  People = {c1, me}
  Me = me
  Handles = {h1}
  Nobody = Nobody
  MayFail = {"model", "add", "modify", "list", "get", "contacts", "owners"}
  MaxMoves = 3
INVARIANTS
  TypeOK
  
  PeopleAreCurrent
PROPERTIES
  TopicStored
CHECK_DEADLOCK FALSE
