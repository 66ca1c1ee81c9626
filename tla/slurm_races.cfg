\* One Slurm job, two handlers at a time, every fault but a crash and a lost sbatch answer.
SPECIFICATION Spec
CONSTANTS
  Jobs = {1}
  Direct = {}
  Workers = {w1, w2}
  Boot = boot
  Gates = {"exec", "bulk"}
  Requests = {"submit", "get", "list", "cancel", "drain"}
  Faults = {"launch_error", "query_error", "unmapped", "kill_error", "kill_timeout", "foreign_cancel"}
  BulkMax = 1
  StartupMax = 1
SYMMETRY Threads
INVARIANTS
  TypeOK
  AcknowledgedIsTracked
  SubmittedIsTracked
  SuccessIsReal
  BlockedNeverRuns
PROPERTIES
  ImplementsService
  CancelLostOnlyToStale
  BulkSparesTerminal
  SchedulerIdKept
