SPECIFICATION FairSpec
CONSTANTS
  MaxCalls = 2
  MaxBatch = 2
  Kinds = {"read", "auto", "ask", "managed"}
  MaxPauses = 1
  MaxAsks = 3
  MaxCrashes = 2
  WithTakeover = TRUE
INVARIANTS
  NothingIsForgotten
  NoUnconfirmedReplay
  EveryEffectWasGranted
PROPERTIES
  CancelIsAnswered
  ComesToRest
CHECK_DEADLOCK FALSE
