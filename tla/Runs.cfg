CONSTANTS
  Workers = {w1, w2}
  MaxRuns = 2
  RunTypes = {"PREFLIGHT", "EOD"}
  MaxTime = 1
  MaxAttempts = 1
  MaxFaults = 1
  MaxSwitches = 1
  NoWorker = NoWorker

SPECIFICATION FairSpec
INVARIANTS
  SuccessIsConfirmed
  FailedMeansHalted
  ClosedAfterReconciliation
PROPERTIES
  EndedRunsStay
  ImplementsSerialQueue
  EveryRunEnds
CHECK_DEADLOCK FALSE
