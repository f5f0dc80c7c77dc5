SPECIFICATION Spec
CONSTANTS
  Items = {a, b}
  Document = a
  Binding = b
  Duplicates = {}
  Explicit = {}
  Concurrency = 2
  MaxRounds = 2
  MaxOthers = 1
CHECK_DEADLOCK FALSE
PROPERTIES
  ReplaySafe
