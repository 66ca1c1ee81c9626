\* Shutdown beside a server with one handler, a Slurm and a direct job.
SPECIFICATION FairShutdown
CONSTANTS
  Jobs = {1, 2}
  Direct = {2}
  Workers = {w1}
  Boot = boot
  Gates = {"exec", "direct_exec", "direct_refresh", "inference"}
  Requests = {"submit", "cancel"}
  Faults = {"query_timeout"}
  BulkMax = 1
  StartupMax = 1
  Options = {"no_drain", "no_direct_cancel"}
  Deadline = TRUE
INVARIANTS
  ShutdownTypeOK
  AcknowledgedIsTracked
  CanceledWasKilled
  NothingLeftRunning
PROPERTIES
  OneRoundOverrun
  DrainStopsAdmissions
  ShutdownEnds
\* Shutdown is over, the server is gone, and so are the jobs.
CHECK_DEADLOCK FALSE
