SPECIFICATION Spec
CONSTANTS
  edit = edit
  send = send
  c1 = c1
  c2 = c2
  c3 = c3
  r1 = r1
  r2 = r2
  none = none
  Actions <- MCActions
  Callers <- MCCallers
  Proposes <- MCProposes
  Sensitive <- MCSensitive
  Safe = {}
  Reviewers <- MCReviewers
  NoReviewer = none
SYMMETRY Symmetry
INVARIANTS
  EffectAtMostOnce
PROPERTIES
  EndedIsFinal
  StaleReviewerNeverActs
  ImplementsReviewedAction
