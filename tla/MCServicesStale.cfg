SPECIFICATION Spec
CONSTANTS
  Callers = {c1}
  Instances = {i1}
  None = None
  Calls = {"status", "start"}
  Exits = {"exit0"}
  MaxRestarts = 0
  KillMayStall = FALSE
INVARIANTS NaturalExitIsReported
