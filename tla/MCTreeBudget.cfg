SPECIFICATION Spec
CONSTANTS
    NoTask = NoTask
    Tasks = {t1, t2}
    Parent <- StarParent
    RootOf <- StarRoot
    Positions = {1, 2}
    StepLimits = {1, 2}
    SecondLimits = {2}
    MaxTime = 2
    MaxWorked = 4
    MaxVersion = 3
INVARIANTS
  ChargesAreExact
  StepsWithinCeiling
  UncertainIsExhausted
PROPERTIES
  OnlyADecisionRenews
