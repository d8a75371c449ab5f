CONSTANTS
  Servers = {s1, s2}
  Types = {"OPENLIST"}
  MaxTime = 4
  DayLength = 5
  TradingDays = {0}
  StartMinute = 3
  ClaimTimeout = 1
  Interval = 2
  IntervalEnd = 3
  MaxVersion = 2
  OpenOn = {1, 2}
  MaxFaults = 1
  Slot <- SlotOf
  OpenSlot <- OpenSlotOf

SPECIFICATION FairSpec
INVARIANTS
  OneBatchPerDay
  ExclusiveClaims
PROPERTIES
  EndsOnce
  EveryTaskEnds
CHECK_DEADLOCK FALSE
