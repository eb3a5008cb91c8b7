\* The same under the OLD polling logic, which reads the server's estimates.
SPECIFICATION Spec
CONSTANTS
  Tokens = {t1}
  NoToken = NoToken
  Kinds = {"ls", "put"}
  LOGIC = "OLD"
  TIMEOUT = 5
  MAX_RPC = 2
  MIN_WAIT = 1
  MAX_WAIT = 2
  SLICE = 2
  LAST_CHANCE = 1
  MAX_ATTEMPTS = 2
  ESTIMATES <- MCEstimates
  REFUSALS = {"FAILURE", "SPACE_LIFETIME_EXPIRED"}
INVARIANTS
  OneLateCall
PROPERTIES
  ImplementsCall
