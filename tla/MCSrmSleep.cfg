\* The values of srm_context_extension_new and srm_context_new, a tick being 0.1 s:
\* waits of 0.2 s to 5 s, naps of 0.5 s, 60 s for the operation.
SPECIFICATION Spec
CONSTANTS
  MIN_WAIT = 2
  MAX_WAIT = 50
  SLICE = 5
  LAST_CHANCE = 20
  MAX_ATTEMPTS = 10
  TIMEOUT = 600
  MAX_RPC = 3
  NANOS = 10
  ESTIMATES <- MCEstimates
INVARIANTS
  TypeOK
  TimespecsDecide
PROPERTIES
  ImplementsBackoff
