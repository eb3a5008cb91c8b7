SPECIFICATION Spec
CONSTANTS
  MIN_WAIT = 1
  MAX_WAIT = 5
  SLICE = 3
  LAST_CHANCE = 2
  MAX_ATTEMPTS = 3
  TIMEOUT = 14
  MAX_RPC = 4
  ESTIMATES <- MCEstimates
INVARIANTS
  TypeOK
  NoLateCall
  NoEarlyTimeout
  BoundedTries
PROPERTIES
  GivesUp
