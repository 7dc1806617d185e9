CONSTANTS
  Slot <- TwoSlots
  NoChar = NoChar
  MaxPieces = 3
  MaxChars = 2
  MaxVer = 2
  MaxOffers = 3
SPECIFICATION Spec
PROPERTIES
  ImplementsCharCopy
  NeverOlder
  OffersEnd
CHECK_DEADLOCK TRUE
