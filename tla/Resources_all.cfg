SPECIFICATION Spec
CONSTANTS
  Procs = {p1, p2}
  Managers <- AllManagers
  Owners = {v1}
  Names = {n}
  Ids = {i1, i2, f}
  Foreign = {f}
  Conn = Conn
  None = None
  DBFails = TRUE
  CSPFaults = {"refused", "error", "lost"}
SYMMETRY Symmetric
INVARIANTS
  TypeOK
  NothingLost
  RowsExistInCSP
PROPERTIES
  RowsNeverReplaced
  InsertedUnderOwner
