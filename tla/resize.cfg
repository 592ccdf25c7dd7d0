SPECIFICATION FairResizeSpec
CONSTANTS
  DayLen = 7
  OpenAt = 2
  CloseAt = 5
  StartLead = 1
  StopLag = 1
  PostCloseLag = 1
  MaxLock = 1
  LockGrace = 0
  MaxFaults = 1
  MaxCommands = 0
  MaxRuns = 1
  TrialFits = {TRUE, FALSE}
INVARIANTS
  UpAfterResize
PROPERTIES
  ChangedSafely
  UnfitIsUndone
