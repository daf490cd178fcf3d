SPECIFICATION NotifyFairSpec
CONSTANTS
  a1 = a1
  a2 = a2
  c1 = c1
  c2 = c2
  r1 = r1
  r2 = r2
  m1 = m1
  m2 = m2
  k1 = k1
  k2 = k2
  Events <- MixedEvents
  Type <- MixedType
  Account <- MixedAccount
  Conversation <- MixedConv
  Remote <- MixedRemote
  Token <- MixedToken
  Named = {m2}
  MaxShows = 3
  MaxRestarts = 1
INVARIANTS
  ListsAreSound
  
PROPERTIES
  SeenIsRemoved
  WaitingIsPublished
CHECK_DEADLOCK FALSE
