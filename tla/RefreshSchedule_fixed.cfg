SPECIFICATION Spec
CONSTANTS
  Lifetimes = {18, 20}
  MIN_REFRESH_INTERVAL = 2
  MaxLatency = 2
  FetchFailures = TRUE
  EarlyRequests = TRUE
INVARIANTS
  NeverExpires
