SPECIFICATION FairSpec
CONSTANTS
  MaxPositions = 1
  Quantity = 2
  CloseTerms = {"stop"}
  Symbols = {"c100", "c105"}
  Spreads <- OneSpread
  Modes = {TRUE}
  Approved = TRUE
  Ends = {"expired"}
  Tracked = {}
  MaxFaults = 0
  MaxCrashes = 0
  MaxLate = 0
  MaxMoves = 0
INVARIANTS
  NeverAheadOfBroker
  OneCloseWorking
PROPERTIES
  CloseSettles
