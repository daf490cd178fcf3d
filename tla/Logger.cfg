SPECIFICATION Spec
CONSTANTS
  text1 = text1
  text2 = text2
  call = call
  m1 = m1
  m2 = m2
  Channels = {text1, text2, call}
  Path <- MCPath
  Media = {call}
  Unknown = {}
  Msgs = {m1, m2}
  MsgPath <- MCMsgPath
  MayFail = {"ready"}
CHECK_DEADLOCK FALSE
INVARIANTS
  ListenersAreSound
  StoredOnce
PROPERTIES
  QueuedIsStored
