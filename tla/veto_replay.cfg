SPECIFICATION Spec
CONSTANTS
  DayLen = 12
  WeekLen = 7
  Sessions <- FourSessions
  CoveredThrough = 4
  OpenBuffer = 0
  CloseBuffer = 1
  AbsoluteCutoff = 6
  SessionStop = 1
  ExpiryGuard = 7
  Readings <- SomeReadings
  Chains <- SomeChains
  CloseOf <- BrokenClose
  Bar = 2
  DecisionTime = 4
  MaxAge = 4
  MaxLegGap = 2
  PathSessions = 3
  Frictions = {0, 10}
  StartEquity = 10000000
  LongPrices = {550, 1110}
  ShortPrices = {300}
  MaxEntered = 2
INVARIANTS
  VetoIsBreadthAlone
  OnePositionAtATime
  TriggersInWindow
  DearerStopsFirst
CHECK_DEADLOCK FALSE
