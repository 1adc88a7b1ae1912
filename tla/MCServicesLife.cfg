SPECIFICATION FairSpec
CONSTANTS
  Callers = {c1}
  Instances = {i1, i2}
  None = None
  Calls = {"list", "status", "start", "stop", "restart"}
  Exits = {"exit0", "exitN"}
  MaxRestarts = 1
  KillMayStall = FALSE
INVARIANTS TypeOK RecordsAreTrue
PROPERTIES RestartCountIsKept ExitIsNoticed
