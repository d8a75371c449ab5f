CONSTANTS
  Workers = {w1, w2}
  MaxRuns = 1
  RunTypes = {"CHECK"}
  MaxTime = 2
  MaxAttempts = 1
  MaxFaults = 1
  MaxSwitches = 0
  NoWorker = NoWorker

SPECIFICATION Spec
INVARIANTS
  FaultsAreNotRetried
SYMMETRY Symmetry
CHECK_DEADLOCK FALSE
