SPECIFICATION Spec
CONSTANTS
  Callers = {c1, c2}
  Instances = {i1, i2}
  None = None
  Calls = {"start", "stop"}
  Exits = {"exitN"}
  MaxRestarts = 0
  KillMayStall = TRUE
SYMMETRY Symmetry
CONSTRAINT NotClobbered
INVARIANTS NoSilentOrphan RecordsAreTrue
