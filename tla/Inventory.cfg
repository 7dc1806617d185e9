CONSTANTS
  ann = ann
  bob = bob
  quiver = quiver
  arrow1 = arrow1
  arrow2 = arrow2
  spear = spear
  Player <- TwoPlayers
  Nobody = Nobody
  Item <- FourItems
  Pack <- OnePack
  NoPack = NoPack
  Pref <- Prefs
  WornOn <- WornOnBack
  Kind <- Kinds
  Groupable <- Stacking
  Accepts <- AcceptsAll
  PackLimit <- RoomForTwo
  MaxItems = 2
  MaxGroupable = 3
  StackCap = 2
  MaxPending = 1
SPECIFICATION Spec
INVARIANTS
  PlacesAgree
  HandsHoldOne
PROPERTIES
  NothingStranded
  NothingMultiplies
  NobodyRobbed
SYMMETRY Symmetry
CHECK_DEADLOCK TRUE
