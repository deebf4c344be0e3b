SPECIFICATION Spec
CONSTANTS
  Procs = {p1}
  VMs = {m1}
  UserIPs = {u}
  None = None
  Drivers <- OnlyAzure
  Faults = FALSE
INVARIANT
  UserIPKept
