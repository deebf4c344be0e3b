SPECIFICATION FairSpec
CONSTANTS
  Procs = {p1, p2}
  Names = {n1, n2}
  Ids = {f}
  Foreign = {f}
  None = None
  Ops <- AllOps
  Polls = 1
  DBFails = TRUE
  CSPFaults <- AllFaults
  AccessCheck = TRUE
  ConnFails = TRUE
INVARIANTS
  TypeOK
  VMsAreKnown
  RowsHaveVMs
  ReadersFindVM
PROPERTY
  CallsReturn
CHECK_DEADLOCK FALSE
