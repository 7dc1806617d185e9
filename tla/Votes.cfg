CONSTANTS
  ann = ann
  bob = bob
  cid = cid
  Player <- ThreePlayers
  Nobody = Nobody
  Index <- ThreeIndices
  VoteTime = 2
  Cooldown = 0
SPECIFICATION Spec
PROPERTIES
  MajorityDecides
  KickOnlyTarget
  VoteEnds
  ConvictedLeave
CHECK_DEADLOCK TRUE
