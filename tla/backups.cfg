SPECIFICATION FairSpec
CONSTANTS
  DayLen = 8
  WeekLen = 2
  Sessions <- TwoSessions
  CoveredThrough = 1
  OpenBuffer = 0
  CloseBuffer = 0
  AbsoluteCutoff = 5
  PostCloseLag = 1
  StartLead = 2
  StopLag = 2
  DueAfterClose = 3
  MaxDumpAge = 2
  MaxRecordAge = 4
  MaxCopyAge = 10
  BootGrace = 2
  Horizon = 16
  MaxFaults = 1
  ResizeTimes = {5}
INVARIANTS
  CopyIsPostClose
  SessionSaved
PROPERTIES
  StoppedWithCopy
  AlarmClears
