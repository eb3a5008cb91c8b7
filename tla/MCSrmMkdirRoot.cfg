\* One client is enough.
SPECIFICATION Spec
CONSTANTS
  Clients = {c1}
  DEPTH = 2
INVARIANTS
  NoRootMkdir
