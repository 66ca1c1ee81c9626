\* Clients poll one Slurm job; an end of its own is recorded.
SPECIFICATION GetSpec
CONSTANTS
  Jobs = {1}
  Direct = {}
  Workers = {w1, w2}
  Boot = boot
  Gates = {"exec"}
  Requests = {"submit", "get", "cancel", "drain"}
  Faults = {"launch_error", "kill_error", "kill_timeout", "foreign_cancel"}
  BulkMax = 1
  StartupMax = 1
PROPERTIES
  EndIsRecorded
  OutcomeIsRecorded
