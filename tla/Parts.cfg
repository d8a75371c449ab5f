CONSTANTS
  Deciders = {a1, a2}
  Refreshers = {a1, a2}
  Names = {b1, b2}

  EventIds = {1}
  NextId = 2
  Triggers = {"PRE_OPEN"}
  Moments = {3, 4}
  DayLength = 3
  FirstTick = 3
  LastTick = 5
  Opening = 1
  Closing = 1
  OpenDays = {0, 1, 2}
  Fresh = 0
  Lease = 1
  Lookback = 2
  MaxRuns = 2
  MaxWrites = 1
  NoDecision = NoDecision

  share = share
  sector = sector
  Codes = {share, sector}
  Kind <- AssetTypes
  ListedFrom <- ListDates
  Ends = {0, 2}
  Variants <- NameVariants
  AsOfDates = {1}
  b1 = b1
  b2 = b2
  MaxChanges = 2
  NoRow = NoRow

  Recommendations = {1, 2}
  Bloggers = {1, 2}
  Documents = {"d1", "d2"}
  Dated = {"d1", "d2"}
  ArticleDate <- DateOf
  SectorCodes = {sector}
  Recommended = {sector}
  Results <- OneResult
  Dates = {1, 2}
  AllWindows = {5, 10}
  Versions = {1, 2}
  Evaluators = {"lane"}
  Command = "command"
  MaxEdits = 4

SPECIFICATION MCSpec
INVARIANTS
  NoLookAhead
  DecidedOnce
  MasterIsCurrent
  ReportsAgree
SYMMETRY Symmetry
CHECK_DEADLOCK FALSE
