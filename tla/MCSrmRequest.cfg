\* Safety of the four requests under the polling logic every context gets.
SPECIFICATION Spec
CONSTANTS
  Tokens = {t1, t2}
  NoToken = NoToken
  Kinds = {"ls", "put", "get", "bringonline"}
  LOGIC = "MIN_MAX_EXP"
  TIMEOUT = 5
  MAX_RPC = 1
  MIN_WAIT = 1
  MAX_WAIT = 2
  SLICE = 2
  LAST_CHANCE = 1
  MAX_ATTEMPTS = 2
  ESTIMATES <- MCNoEstimates
  REFUSALS = {"FAILURE", "SPACE_LIFETIME_EXPIRED", "TOO_MANY_RESULTS", "FILE_PINNED"}
SYMMETRY MCSymmetry
INVARIANTS
  TypeOK
  TokenWhilePolling
  NothingLeftQueued
  OneLateCall
  TimeoutErrno
  FailureHasErrno
