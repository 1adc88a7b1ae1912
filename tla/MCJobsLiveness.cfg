SPECIFICATION FairSpec
CONSTANTS
  Callers = {c1, c2}
  Jobs = {j1}
  Streams = {stdout, stderr}
  MaxOutput = 1
  JoinMayTimeOut = FALSE
  KillMayStall = FALSE
PROPERTIES VerdictFreezesOutput JobsEnd
