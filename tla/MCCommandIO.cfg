SPECIFICATION StartSpec
CONSTANTS
  outStream = outStream
  errStream = errStream
  Streams = {outStream, errStream}
  Chars = {"s", "a", "=", "-", " ", "n"}
  Chunk = 2
  Reserve = 2
  Threshold = 6
  Jobs <- SmallJobs
  Clients = {c1, c2}
  Count = 2
  None = None
  Bad = Bad
  py = py
  rm = rm
  opt = opt
  arg = arg
  apiKey = apiKey
  h1 = h1
  h2 = h2
  port = port
  Commands = {py, rm}
  Allowlist = {py}
  Presets <- SmallPresets
  HostVar = host
  PortVar = portVar
  Variables = {host, portVar, apiKey}
  Process <- SmallProcess
  Hosts = {h1, h2}
  Ports = {port}
  LocalHost = h2
  DefaultSeconds = 9
  Default <- SmallDefault
  Files <- SmallFiles
  AgentEnvs <- SmallAgentEnvs
  Requests <- SmallRequests
  PolicyBudgets <- SmallPolicyBudgets
SYMMETRY Symmetric
INVARIANTS TypeOK SecretsStayHidden NothingElseIsLost OutputIsBounded InvalidFilesChangeNothing ProcessesFollowThePolicy TestsUseTheFile
CHECK_DEADLOCK FALSE
