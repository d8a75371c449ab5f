CONSTANTS
  Scanners = {m1}
  BuyVolume = 1
  MaxBuys = 2
  MaxIntents = 3
  MaxSetbacks = 0
  None = None

SPECIFICATION Spec
PROPERTIES
  NeverPyramids
CHECK_DEADLOCK FALSE
