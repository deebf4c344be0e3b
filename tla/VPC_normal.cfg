SPECIFICATION Spec
CONSTANTS
  Procs = {p1, p2}
  VPCs = {v1}
  Subnets = {s1, s2}
  VIds = {x1, x2, x3}
  SIds = {y1, y2, y3}
  Foreign = {}
  None = None
  Ops <- ByNameOps
  DBFails = FALSE
  CSPFaults = {"refused", "error"}
  SingleVPC = FALSE
  KT = FALSE
  IDMgmt = TRUE
  Crashes = FALSE
SYMMETRY Symmetry
INVARIANTS
  SubnetRowsOwned
  RowsExistInCSP
  NothingLost
  ReadersFindResource
  SuccessMeansCreated
  DeleteRemovesSubnetRows
PROPERTIES
  SubnetRowsNeverReplaced
