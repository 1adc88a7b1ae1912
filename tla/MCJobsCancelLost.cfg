SPECIFICATION Spec
CONSTANTS
  Callers = {c1}
  Jobs = {j1}
  Streams = {stdout}
  MaxOutput = 0
  JoinMayTimeOut = FALSE
  KillMayStall = FALSE
PROPERTIES CancelIsReflected
