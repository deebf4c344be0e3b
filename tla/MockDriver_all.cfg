SPECIFICATION Spec
CONSTANTS
  Procs = {p1, p2, p3}
  VMs = {m1, m2}
  Disks = {d1}
  None = None
SYMMETRY Symmetry
CHECK_DEADLOCK FALSE
INVARIANTS
  TypeOK
  StuckOnlyByTerminateVM
  ListedByOwner
