SPECIFICATION Spec
CONSTANTS
  Procs = {p1, p2}
  Vpcs = {v}
  Sgs = {}
  Keys = {k}
  Vms = {}
  Disks = {}
  Clusters = {c}
  Nlbs = {}
  FileSystems = {}
  Dbs = {}
  SgLists <- SgListsOfOne
  RowLists = {}
  KeyLists <- KeyListsOfTwo
  None = None
INVARIANTS
  NoDeadlock
