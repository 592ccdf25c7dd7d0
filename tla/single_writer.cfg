SPECIFICATION FairSpec
CONSTANTS
  Workers = {w1, w2}
  Nobody = nobody
  TTL = 8
  HeartbeatEvery = 2
  Interval = 4
  OrderEvery = 1
  PositionEvery = 3
  ReviewEvery = 8
  RestartDelay = 1
  StartTime = 1
  ClockTime = 1
  TickTimes <- ShortAndLong
  MaxUpsets = 2
PROPERTIES
  SingleWriterSpec
  OldWriterYields
  OnlyHolderReleases
  Served
