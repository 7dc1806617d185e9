CONSTANTS
  Slot <- OneSlot
  NoChar = NoChar
  MaxChars = 2
  MaxVer = 1
SPECIFICATION Spec
INVARIANTS
  OneCrashIsSafe
  WholeCopyLeft
  ListMatchesDisk
CHECK_DEADLOCK TRUE
