SPECIFICATION Spec
CONSTANTS
  sip = sip
  sim = sim
  text = text
  vcard = vcard
  call1 = call1
  call2 = call2
  modem = modem
  Accounts = {sip, sim}
  Messages = {text, vcard}
  CallLog <- MCCallLog
  Old = {text, call1}
  Owner <- MCOwner
  NoEvent = NoEvent
  Modems = {modem}
  RingAccount <- MCModem
  MayFail = {"groupsReady","delete","group","add","save"}
  MaxMoves = 3
  MaxStops = 1
  MaxSetups = 2
  MaxModels = 3
CHECK_DEADLOCK FALSE
INVARIANTS
  PartsAreThere
  LastDialedIsNewest
  ModelsAreSound

  
