SPECIFICATION FairSpec
CONSTANTS
  DayLen = 4
  WeekLen = 7
  Sessions <- ThreeSessions
  CoveredThrough = 3
  OpenBuffer = 0
  CloseBuffer = 1
  AbsoluteCutoff = 2
  SessionStop = 2
  ExpiryGuard = 7
  Modes = {"observe", "paper_execute"}
  Readings <- SomeReadings
  Chains <- SomeChains
  Accounts <- SomeAccounts
  Replies <- SomeReplies
  Values = {200, 520}
  CloseOf <- FallingCloses
  Horizons = {1, 2}
  MaxLag = 1
  MaxBarAge = 2
  Freshness = 0
  IntentTtl = 0
  MaxSpan = 1
  MaxDecisions = 3
  EndOfTime = 15
INVARIANTS
  CompletedCloses
  ApprovedInEnvelope
  ReviewedAtHorizon
  HorizonAsked
PROPERTIES
  EntryBeforeClose
  JobsResolve
