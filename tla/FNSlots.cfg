CONSTANTS
  Player <- OnePlayer
  NumSlots = 2
  NoGuid = NoGuid
  NoPlayer = NoPlayer
  Validations = {}
  CentralCvar = {TRUE}
  Failures = {"noresponse"}
  BadRestores = {"name"}
  MaxSerial <- SixRequests
  MaxVer = 1
SPECIFICATION Spec
INVARIANTS
  SlotLocked
  PlayedCharacterIsStored
  StoredUnderItsName
  OnlyOwnCharacters
PROPERTIES
  NoRollback
VIEW ServerView
CHECK_DEADLOCK TRUE
