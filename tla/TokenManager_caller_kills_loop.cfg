SPECIFICATION Spec
CONSTANTS
  Callers = {c1, c2}
  MaxFetches = 2
  ForeignErrors = FALSE
  CallerCancels = TRUE
  LegacyWaitFor = FALSE
INVARIANTS
  LoopSurvives
