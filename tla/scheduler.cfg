SPECIFICATION FairSpec
CONSTANTS
  DayLen = 11
  OpenAt = 4
  CloseAt = 6
  StartLead = 4
  StopLag = 3
  PostCloseLag = 1
  MaxLock = 2
  LockGrace = 1
  MaxFaults = 2
  MaxCommands = 2
INVARIANTS
  UpForTheSession
PROPERTIES
  NoStopWithExposure
  SessionServed
  IdleServerStops
