SPECIFICATION Spec
CONSTANTS
  Commits <- EachKind
  MaxCommits = 2
  Columns = {}
  MaxRuns = 2
  MaxFaults = 1
  MaxRestarts = 1
INVARIANTS
  RevertRestores
  DeployedServed
  RestartedAsPlanned
CHECK_DEADLOCK FALSE
