SPECIFICATION Spec
CONSTANTS
  Runs = {r1, r2}
  Users = {u}
  CSPs = {aws}
  Resources = 2
  Ids = {i1, i2}
  Cleanups = {"true"}
  External = TRUE
  Postgres = TRUE
  DockerFails = TRUE
  SaveFails = FALSE
  Timeouts = FALSE
  Crons = {hourly, daily}
  FirstCron = None
  FirstCleanup = "true"
  MaxReloads = 2
  None = None
SYMMETRY Symmetric
CHECK_DEADLOCK FALSE
INVARIANTS
  DoneIsComplete
  OnlyConfiguredRuns
PROPERTIES
  FinalResultStays
