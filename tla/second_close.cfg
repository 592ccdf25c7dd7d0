SPECIFICATION Spec
CONSTANTS
  MaxPositions = 1
  Quantity = 1
  CloseTerms = {"stop", "target"}
  Symbols = {"c100", "c105"}
  Spreads <- OneSpread
  Modes = {TRUE}
  Approved = TRUE
  Ends = {"expired"}
  Tracked = {}
  MaxFaults = 1
  MaxCrashes = 0
  MaxLate = 0
  MaxMoves = 0
INVARIANTS
  OneCloseWorking
