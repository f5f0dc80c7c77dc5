SPECIFICATION AnsweredSpec
CONSTANTS
  Callers = {c1, c2}
  MaxFetches = 2
  ForeignErrors = TRUE
  CallerCancels = TRUE
  LegacyWaitFor = TRUE
INVARIANTS
  TypeOK
  SingleFlight
  RefreshAdvances
  Consistent
  AuthErrorsSurvived
PROPERTIES
  ServesTokens
  CallersReturn
  RequestAnswered
