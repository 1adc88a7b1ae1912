SPECIFICATION Spec
CONSTANTS
  Callers = {c1, c2, c3}
  Jobs = {j1}
  Streams = {stdout}
  MaxOutput = 0
  JoinMayTimeOut = TRUE
  KillMayStall = TRUE
SYMMETRY Symmetry
INVARIANTS TypeOK TerminalMeansDead FinishedWaiterLeavesNothing
PROPERTIES SettledCancelStays ContractSafe
CHECK_DEADLOCK FALSE
