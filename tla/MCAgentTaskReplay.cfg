SPECIFICATION Spec
CONSTANTS
  MaxCalls = 2
  MaxBatch = 2
  Kinds = {"auto", "ask"}
  MaxPauses = 1
  MaxAsks = 4
  MaxCrashes = 0
  WithTakeover = FALSE
INVARIANT CompletedToolsAreNotReplayed
CHECK_DEADLOCK FALSE
