\* A direct and a Slurm job, one handler at a time, crashes, restarts with reconciliation.
SPECIFICATION Spec
CONSTANTS
  Jobs = {1, 2}
  Direct = {1}
  Workers = {w1}
  Boot = boot
  Gates = {"exec", "direct_exec", "direct_cancel", "direct_refresh", "inference", "bulk", "startup"}
  Requests = {"submit", "get", "list", "cancel", "drain"}
  Faults = {"launch_error", "launch_timeout", "query_error", "query_timeout", "kill_error", "crash"}
  BulkMax = 2
  StartupMax = 2
PROPERTIES
  ImplementsService
  BulkSparesTerminal
  OrphanedOnlyInFlight
  DrainTornOnlyByCrash
