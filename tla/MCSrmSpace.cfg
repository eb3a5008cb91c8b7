SPECIFICATION Spec
CONSTANTS
  TOKENS = {s1, s2, s3}
  MAX_SIZE = 2
  NEEDS = {0, 1}
  MARGIN = 1
  REFUSALS = {"AUTHORIZATION_FAILURE"}
  NoToken = NoToken
SYMMETRY Symmetry
INVARIANTS
  TypeOK
  LeastThatFits
  NoneFits
  PutFits
  FailureExplained
  SuccessMeansDone
