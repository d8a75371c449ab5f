CONSTANTS
  Workers = {w1, w2}
  Reconcilers = {}
  Intents = {i1, i2}
  Orders = {o1, o2}
  Volume = 1
  Sources = {"CALLBACK"}
  MaxFaults = 0
  MaxSwitches = 1
  NoWorker = NoWorker
  NoIntent = NoIntent
  NoOrder = NoOrder

SPECIFICATION Spec
INVARIANTS
  OneExposure
  IntentMatchesOrder
  BoundedKillLeak
PROPERTIES
  ImplementsSingleExposure
CONSTRAINT SwitchedAlone
SYMMETRY Symmetry
CHECK_DEADLOCK FALSE
