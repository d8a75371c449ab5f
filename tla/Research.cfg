CONSTANTS
  SyncWorkers = {w1, w2}
  EvaluationWorkers = {w1, w2}
  SyncRuns = {y1}
  EvaluationRuns = {e1}
  Days = 2
  share = share
  younger = younger
  Securities = {share, younger}
  Target = share
  AssetTypes <- Types
  TypeOf <- ByType
  ListedFrom <- Listing
  Windows = {2}
  MaxFaults = 1
  Unknown = Unknown
  NoRun = NoRun

SPECIFICATION FairSpec
INVARIANTS
  SucceededIsComplete
PROPERTIES
  ResearchRunsEnd
  ResultsCatchUp
CHECK_DEADLOCK FALSE
