SPECIFICATION Spec
CONSTANTS
  N = 4
  COUNTS <- Counts
  RETRIES = 2
INVARIANTS
  TypeOK
  NothingSkipped
PROPERTIES
  ImplementsCursor
