SPECIFICATION LifecycleSpec
CONSTANTS
  Callers = {conn, c1}
  Connector = conn
  Closers = {k1}
  MaxFetches = 2
  ForeignErrors = TRUE
  CallerCancels = FALSE
  ConnectCancels = FALSE
  LegacyWaitFor = FALSE
CHECK_DEADLOCK FALSE
INVARIANTS
  CloseReleases
