\* Clients poll the list with a cap of one refreshed job per request, and two jobs.
SPECIFICATION ListSpec
CONSTANTS
  Jobs = {1, 2}
  Direct = {}
  Workers = {w1}
  Boot = boot
  Gates = {"exec", "bulk"}
  Requests = {"submit", "list", "cancel", "drain"}
  Faults = {}
  BulkMax = 1
  StartupMax = 1
PROPERTIES
  EndIsRecorded
