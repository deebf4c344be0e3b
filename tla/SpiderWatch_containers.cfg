SPECIFICATION FairSpec
CONSTANTS
  Runs = {r1, r2}
  Users = {u}
  CSPs = {aws}
  Resources = 1
  Ids = {i1}
  Cleanups = {"false"}
  External = FALSE
  Postgres = TRUE
  DockerFails = TRUE
  SaveFails = FALSE
  Timeouts = FALSE
  Crons = {hourly}
  FirstCron = hourly
  FirstCleanup = "false"
  MaxReloads = 0
  None = None
CHECK_DEADLOCK FALSE
INVARIANTS
  OneRunAtATime
PROPERTIES
  RunsEnd
