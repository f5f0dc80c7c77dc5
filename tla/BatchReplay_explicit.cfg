SPECIFICATION Spec
CONSTANTS
  Items = {a, b, c}
  Document = a
  Binding = b
  Duplicates = {b, c}
  Explicit = {a, b, c}
  Concurrency = 2
  MaxRounds = 3
  MaxOthers = 2
CHECK_DEADLOCK FALSE
INVARIANTS
  TypeOK
  AppliedOnce
  BindingFollowsDocument
PROPERTIES
  ReplaySafe
