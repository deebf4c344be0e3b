SPECIFICATION FairSpec
CONSTANTS
  Procs = {p1, p2, p3}
  Conns = {aws}
  Ids = {vm1}
  Objs = {o1, o2, o3}
  None = None
  PermissionMode = perm
INVARIANTS
  TypeOK
  MutualExclusion
  CountIsReferences
  NoPanic
  NoLeakedEntry
PROPERTIES
  ImplementsRWLockTable
  LockReturns
