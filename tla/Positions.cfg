CONSTANTS
  Scanners = {m1, m2}
  BuyVolume = 2
  MaxBuys = 1
  MaxIntents = 6
  MaxSetbacks = 1
  None = None

SPECIFICATION FairSpec
INVARIANTS
  CyclesMatchAccount
  OneExitAtATime
PROPERTIES
  ExitsComplete
CHECK_DEADLOCK FALSE
