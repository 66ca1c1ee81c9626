\* One Slurm job that ended, and all the time in the world.
SPECIFICATION PatientShutdown
CONSTANTS
  Jobs = {1}
  Direct = {}
  Workers = {w1}
  Boot = boot
  Gates = {"exec", "direct_exec", "direct_refresh", "inference"}
  Requests = {"submit"}
  Faults = {}
  BulkMax = 1
  StartupMax = 1
  Options = {}
  Deadline = FALSE
PROPERTIES
  RefreshConverges
CHECK_DEADLOCK FALSE
