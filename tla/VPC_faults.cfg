SPECIFICATION Spec
CONSTANTS
  Procs = {p1, p2}
  VPCs = {v1}
  Subnets = {s1}
  VIds = {x1, x2}
  SIds = {y1}
  Foreign = {x1}
  None = None
  Ops <- AllOps
  DBFails = TRUE
  CSPFaults = {"refused", "error", "lost"}
  SingleVPC = TRUE
  KT = TRUE
  IDMgmt = TRUE
  Crashes = TRUE
SYMMETRY Symmetry
INVARIANTS
  TypeOK
  DeleteRemovesVPCRow
PROPERTIES
  VPCRowsNeverReplaced
