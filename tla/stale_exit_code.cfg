\* Two refreshes of a running unit, the second of them answered by nothing.
SPECIFICATION Spec
CONSTANTS
  Jobs = {1}
  Direct = {1}
  Workers = {w1}
  Boot = boot
  Gates = {"direct_exec", "direct_refresh", "inference"}
  Requests = {"submit", "get"}
  Faults = {"query_error"}
  BulkMax = 1
  StartupMax = 1
INVARIANTS
  NoSuccessWhileActive
CHECK_DEADLOCK FALSE
