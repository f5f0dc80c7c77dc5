SPECIFICATION Spec
CONSTANTS
  Lifetimes = {18, 9}
  MIN_REFRESH_INTERVAL = 2
  MaxLatency = 2
  FetchFailures = FALSE
  EarlyRequests = TRUE
INVARIANTS
  NeverExpires
