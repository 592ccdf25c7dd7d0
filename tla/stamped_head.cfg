SPECIFICATION Spec
CONSTANTS
  Commits <- EachKind
  MaxCommits = 1
  Columns = {1}
  MaxRuns = 1
  MaxFaults = 0
  MaxRestarts = 1
INVARIANTS
  RevisionIsApplied
CHECK_DEADLOCK FALSE
