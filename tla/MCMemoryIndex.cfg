SPECIFICATION StartSpec
CONSTANTS
  p1 = p1
  p2 = p2
  blank = blank
  full = full
  Procs = {p1, p2}
  Paths = {1, 2}
  Texts = {blank, full}
  Chunked = {full}
  Refs = {1, 2}
  None = None
  Operations = {"record", "reindex", "status"}
  Tables = 2
  MaxCalls = 3
  MaxEdits = 2
SYMMETRY Symmetric
CONSTRAINT Apart
INVARIANTS TypeOK IndexIsSound UndisturbedCallsAreRight
PROPERTIES SessionsKeepTheirRow
CHECK_DEADLOCK FALSE
