SPECIFICATION Spec
CONSTANTS
  CREDS = {"mine", "theirs"}
  TIMEOUTS = {0, 60}
  LEAKS = 1
INVARIANTS
  TypeOK
  SentAsAsked
  NothingElseLost
  ErrnoKept
