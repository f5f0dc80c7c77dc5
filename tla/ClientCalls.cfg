SPECIFICATION CallsSpec
CONSTANTS
  Callers = {conn, c1}
  Connector = conn
  Closers = {k1, k2}
  MaxFetches = 3
  ForeignErrors = TRUE
  CallerCancels = TRUE
  ConnectCancels = TRUE
  LegacyWaitFor = FALSE
CHECK_DEADLOCK FALSE
INVARIANTS
  ReadyHasToken
  FailedConnectLeaksNothing
  ReturnedIsReleased
  LoopEndsFirst
  EveryCallCarriesToken
  RetryCarriesNewerToken
PROPERTIES
  CloseReturns
  CallsEndWithClient
