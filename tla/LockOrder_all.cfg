SPECIFICATION FairSpec
CONSTANTS
  Procs = {p1, p2, p3}
  Vpcs = {v}
  Sgs = {}
  Keys = {}
  Vms = {}
  Disks = {}
  Clusters = {c}
  Nlbs = {}
  FileSystems = {}
  Dbs = {}
  SgLists <- SgListsOfOne
  RowLists <- SgListsOfOne
  KeyLists <- KeyListsOfOne
  None = None
INVARIANTS
  TypeOK
  NoDeadlock
PROPERTIES
  CallsReturn
