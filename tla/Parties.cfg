CONSTANTS
  ann = ann
  bob = bob
  cid = cid
  a1 = a1
  a2 = a2
  wolves = wolves
  bears = bears
  Player <- ThreePlayers
  Addr <- TwoAddrs
  PartyName <- TwoNames
  Null = Null
  MaxSerial = 3
  MaxMaps = 2
SPECIFICATION PartiesSpec
INVARIANTS
  MembersAgree
SYMMETRY Symmetry
CHECK_DEADLOCK TRUE
