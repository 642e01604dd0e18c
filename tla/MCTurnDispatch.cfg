SPECIFICATION Spec
CONSTANTS
  Queued = {q1, q2}
  Direct = {d}
  Clients = {c1, c2}
  Sends <- SameTurn
  Worker = w
  MaxPending = 2
  MaxBinding = 2
  MaxRevision = 3
  MaxFaults = 1
INVARIANTS
  RunsAtMostOnce
  TurnsAreExclusive
PROPERTIES
  QueueOrder
  RunsAsConsented
  ImplementsPrompts
CHECK_DEADLOCK FALSE
