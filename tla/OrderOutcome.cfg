CONSTANTS
  Workers = {w1}
  Reconcilers = {w1}
  Intents = {i1}
  Orders = {o1}
  Volume = 2
  Sources = {"SNAPSHOT"}
  MaxFaults = 0
  MaxSwitches = 0
  NoWorker = NoWorker
  NoIntent = NoIntent
  NoOrder = NoOrder

SPECIFICATION FairSpec
INVARIANTS
  LedgerIsTruthful
PROPERTIES
  OutcomeReachesLedger
CHECK_DEADLOCK FALSE
