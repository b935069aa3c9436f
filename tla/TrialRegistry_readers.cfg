CONSTANTS
  Inst = {w, r}
  Configs = {c1}
  MaxLines = 2
  MaxLegacy = 0
  MaxCrashes = 0
  MaxEdits = 0
  ExclusiveWriters = TRUE
SPECIFICATION Spec
INVARIANT ReadersUndisturbed
