SPECIFICATION FairSpec
CONSTANTS
  MaxPositions = 2
  Quantity = 1
  CloseTerms = {}
  Symbols = {"c100", "c105"}
  Spreads <- OneSpread
  Modes = {TRUE}
  Approved = TRUE
  Ends = {"expired"}
  Tracked = {"late_fill_after_terminal", "contested_exposure", "broker_unreachable"}
  MaxFaults = 1
  MaxCrashes = 1
  MaxLate = 1
  MaxMoves = 0
PROPERTIES
  LateFillNoticed
  ContestedNotJudged
  EntrySettles
  OutageHeals
