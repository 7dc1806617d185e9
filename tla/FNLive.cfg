CONSTANTS
  Player <- OnePlayer
  NumSlots = 1
  NoGuid = NoGuid
  NoPlayer = NoPlayer
  Validations = {"map"}
  CentralCvar = {TRUE, FALSE}
  Failures <- EveryPath
  BadRestores = {"data", "name"}
  MaxSerial <- ThreeRequests
  MaxVer = 0
SPECIFICATION FairSpec
INVARIANTS
  RequestsOnlyWhileLoaded
  ClientViewCurrent
PROPERTIES
  TransactionsEnd
  ClientCatchesUp
CHECK_DEADLOCK TRUE
