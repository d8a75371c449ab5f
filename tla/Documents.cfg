CONSTANTS
  Processes = {p1, p2}
  Calls = {c1, c2}
  d1 = d1
  d2 = d2
  t1 = t1
  t2 = t2
  Docs = {d1}
  Sources = {s1}
  Content <- ContentOf
  ArticleDate <- DateOf
  Targets = {t1, t2}
  Sectors = {t2}
  Dates = {1, 2}
  Answers = {{t1, t2}, {t2}}
  LLMSlots = 1
  MaxCalls = 1
  MaxFaults = 1
  NoDoc = NoDoc
  NoDate = NoDate
  NoSource = NoSource

SPECIFICATION FairSpec
INVARIANTS
  NoStaleEvents
  SucceededHasOutcome
  NothingHalfDone
PROPERTIES
  RetryRepeatsOnlyFailures
  ArticlesSettle
CHECK_DEADLOCK FALSE
