CONSTANTS
  Workers = {w1, w2}
  Reconcilers = {w1, w2}
  Intents = {i1}
  Orders = {o1}
  Volume = 1
  Sources = {"CALLBACK"}
  MaxFaults = 1
  MaxSwitches = 0
  NoWorker = NoWorker
  NoIntent = NoIntent
  NoOrder = NoOrder

SPECIFICATION Spec
INVARIANTS
  LedgerIsTruthful
  SubmittedOnce
PROPERTIES
  OutcomesAreFinal
  NoOrderDuringReconciliation
SYMMETRY Symmetry
CHECK_DEADLOCK FALSE
