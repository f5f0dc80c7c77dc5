SPECIFICATION FairSpec
CONSTANTS
  MaxPosition = 3
  Limits = {0, 1, 3}
  DEFAULT_PAGE_SIZE = 2
  MaxPageSize = 2
  MaxWrites = 2
  HydrationPageSize = 2
  Concurrency = 2
  Repeats = TRUE
CHECK_DEADLOCK FALSE
INVARIANTS
  TypeOK
  SteadyFound
  FoundOnce
  ResultsInOrder
PROPERTIES
  HydrationEnds
