SPECIFICATION FairSpec
CONSTANTS
  N = 4
  Concurrency = 2
  MainCancels = TRUE
CHECK_DEADLOCK FALSE
INVARIANTS
  WaitsForAnswers
  FirstFailureRaised
PROPERTIES
  NoLateCalls
  KeepsPromise
  FailureEndsBatch
  BatchEnds
