\* Two requests and a command at a time; whoever holds a file may die.
SPECIFICATION Spec
CONSTANTS
  Workers = {w1, w2}
  Clis = {c1, c2}
  Names = {ada, bob}
  MaxSerial = 3
  Deaths = TRUE
SYMMETRY Symmetry
INVARIANTS
  TypeOK
  UsernamesUnique
  AnsweredTokensAreKept
  OneRefreshPerSession
  TornHasWriter
  AnsweredKeysAreKept
