\* A refresh in flight while the job is canceled.
SPECIFICATION Spec
CONSTANTS
  Jobs = {1}
  Direct = {}
  Workers = {w1, w2}
  Boot = boot
  Gates = {"exec"}
  Requests = {"submit", "get", "cancel"}
  Faults = {}
  BulkMax = 1
  StartupMax = 1
PROPERTIES
  CancelIsSticky
CHECK_DEADLOCK FALSE
