SPECIFICATION Spec
CONSTANTS
  MaxPositions = 2
  Quantity = 1
  CloseTerms = {"stop"}
  Symbols = {"c100", "c105"}
  Spreads <- OneSpread
  Modes = {TRUE, FALSE}
  Approved = TRUE
  Ends = {"expired"}
  Tracked = {"broker_unreachable"}
  MaxFaults = 1
  MaxCrashes = 1
  MaxLate = 0
  MaxMoves = 1
INVARIANTS
  TypeOK
  NoPhantomExposure
  AbandonedMeansDead
  OneStrategy
  ExposureOwned
