CONSTANTS
  Player <- OnePlayer
  NumSlots = 1
  NoGuid = NoGuid
  NoPlayer = NoPlayer
  Validations = {}
  CentralCvar = {TRUE}
  Failures = {"servererror"}
  BadRestores = {}
  MaxSerial <- TwoRequests
  MaxVer = 0
SPECIFICATION FairSpec
PROPERTY LoadingEnds
CHECK_DEADLOCK TRUE
