SPECIFICATION Spec
CONSTANTS
  REFUSALS = {"AUTHORIZATION_FAILURE", "INVALID_PATH", "FAILURE"}
  RETRIES = 2
INVARIANTS
  TypeOK
  SuccessMeansDone
  ErrorMeansUndone
  FailureExplained
  UnknownTokenEnds
