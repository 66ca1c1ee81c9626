\* Three overlapping calls, one of which cannot sync the directory.
SPECIFICATION Spec
CONSTANTS
  Calls = {a, b, c}
  Original = original
  Unsynced = {c}
INVARIANTS
  TypeOK
  WholeAlways
  ReturnedIsDurable
PROPERTIES
  ReplacesAtomically
