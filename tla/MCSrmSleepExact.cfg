\* The comment at the loop of naps, at the values of a new context.
SPECIFICATION Spec
CONSTANTS
  MIN_WAIT = 2
  MAX_WAIT = 50
  SLICE = 5
  LAST_CHANCE = 20
  MAX_ATTEMPTS = 10
  TIMEOUT = 600
  MAX_RPC = 3
  NANOS = 10
  ESTIMATES <- MCEstimates
INVARIANTS
  SleepsExactly
