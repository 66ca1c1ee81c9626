\* Two commands at a time in one directory, and pids that are used again.
SPECIFICATION FairSpec
CONSTANTS
  Commands = {c1, c2}
  Dirs = {here}
  Pids = {p1, p2}
  None = none
INVARIANTS
  TypeOK
  SoleServer
  ServersAreManaged
  StaleIsExplained
PROPERTIES
  StopIsEffective
