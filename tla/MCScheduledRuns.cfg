SPECIFICATION Spec
CONSTANTS
  Schedules = {s1, s2}
  Grants = {g1}
  GrantOf <- OneGrantOf
  Period <- QueuedRecur
  Missed = {s2}
  Overlap = {s1}
  Grace = 0
  MaxRuns = 1
  GrantRuns <- TwoRuns
  MaxTime = 2
  MaxRevision = 2
  MaxCrashes = 1
  TargetReturns = TRUE
INVARIANTS
  RunsAreBounded
PROPERTIES
  WorkIsAuthorized
CHECK_DEADLOCK FALSE
