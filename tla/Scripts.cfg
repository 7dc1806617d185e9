CONSTANTS
  die = die
  main = main
  none = none
  Names <- FourEvents
  Unnamed = none
  EffectDie = die
  MaxLoops = 2
  MaxDelay = 1
  MaxTime = 1
  MaxOwed = 2
  MaxDepth = 6
SPECIFICATION Spec
INVARIANTS
  RegistersBelongToCaller
  DelayedCallsRunOnce
  ExitIsOwn
CHECK_DEADLOCK FALSE
