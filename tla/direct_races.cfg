\* One direct job, two handlers at a time; the queries that are answered tell the truth.
SPECIFICATION Spec
CONSTANTS
  Jobs = {1}
  Direct = {1}
  Workers = {w1, w2}
  Boot = boot
  Gates = {"direct_exec", "direct_cancel", "direct_refresh", "inference"}
  Requests = {"submit", "get", "list", "cancel", "drain"}
  Faults = {"launch_error", "launch_timeout", "query_timeout", "kill_error", "kill_timeout"}
  BulkMax = 1
  StartupMax = 1
SYMMETRY Threads
INVARIANTS
  DirectSuccessExplained
PROPERTIES
  SuccessLostOnlyToStale
