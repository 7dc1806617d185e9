CONSTANTS
  ann = ann
  bob = bob
  cid = cid
  Client <- ThreePlayers
  CentralCvar = {TRUE, FALSE}
  ms_reset_time = 2
  ms_joinreset = 1
  SwitchDelay = 2
  MaxTime = 8
SPECIFICATION TimersSpec
INVARIANTS
  StrandedAreMoved
PROPERTIES
  ResetOnlyEmptyServer
  NobodyPlayingSentAway
SYMMETRY Symmetry
CHECK_DEADLOCK TRUE
