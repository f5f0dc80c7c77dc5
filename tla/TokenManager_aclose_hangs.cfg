SPECIFICATION AnsweredSpec
CONSTANTS
  Callers = {c1}
  MaxFetches = 2
  ForeignErrors = FALSE
  CallerCancels = FALSE
  LegacyWaitFor = TRUE
PROPERTIES
  AcloseReturns
