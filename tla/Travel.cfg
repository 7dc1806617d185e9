CONSTANTS
  north = north
  south = south
  Index <- TwoIndices
  Area <- TwoAreas
  NoArea = NoArea
  MaxJoins = 4
SPECIFICATION Spec
INVARIANTS
  EveryoneVotedTravels
PROPERTIES
  NobodyLeftBehind
  NobodyDraggedAlong
SYMMETRY Symmetry
CHECK_DEADLOCK TRUE
