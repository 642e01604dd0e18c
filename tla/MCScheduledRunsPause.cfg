SPECIFICATION Spec
CONSTANTS
  Schedules = {s1, s2}
  Grants = {g1}
  GrantOf <- OneGrantOf
  Period <- AllRecur
  Missed = {s2}
  Overlap = {s1}
  Grace = 0
  MaxRuns = 2
  GrantRuns <- TwoRuns
  MaxTime = 3
  MaxRevision = 2
  MaxCrashes = 0
  TargetReturns = FALSE
PROPERTIES
  PausedDoesNotRun
CHECK_DEADLOCK FALSE
