SPECIFICATION FairSpec
CONSTANTS
  Procs = {p1, p2}
  VPCs = {v1}
  Subnets = {s1, s2}
  VIds = {x1}
  SIds = {y1, y2}
  Foreign = {}
  None = None
  Ops <- LiveOps
  DBFails = TRUE
  CSPFaults = {}
  SingleVPC = FALSE
  KT = FALSE
  IDMgmt = FALSE
  Crashes = FALSE
INVARIANTS
  RollbackRemovesSubnetRows
PROPERTIES
  CallsReturn
