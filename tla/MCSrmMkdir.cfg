SPECIFICATION Spec
CONSTANTS
  Clients = {c1, c2}
  DEPTH = 3
INVARIANTS
  TypeOK
  WholePath
  FailsOnlyByRace
  ClimbStops
PROPERTIES
  Finishes
