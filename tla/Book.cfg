CONSTANTS
  Scale = 10
  Units <- SmallUnits
  Risk <- SmallRisk
  Codes = {"600", "688"}
  SameDay = {}
  Cash0 = 200
  Mark = 10
  Prices = {9}
  Fees = {0, 1}
  Deposit = 5
  Keys = {1}
  Symbols = {"600"}
  Events = {1}
  AutoRatio = 7
  UATRatio = 1
  Cooldown = 1
  MaxOrders = 3
  MaxFills = 3
  MaxDay = 2

SPECIFICATION Spec
CHECK_DEADLOCK FALSE

INVARIANTS
  FeesAreTrue
  BoardsProvenFirst
  DecisionsWithinReserve

PROPERTIES
  OrdersOnTrueBooks
