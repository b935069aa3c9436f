CONSTANTS
  Inst = {w1, w2}
  Configs = {c1, c2}
  MaxLines = 3
  MaxLegacy = 1
  MaxCrashes = 1
  MaxEdits = 1
  ExclusiveWriters = TRUE
SPECIFICATION Spec
INVARIANTS TypeOK ChainKept AckedKept DuplicateOfFirst
PROPERTIES ReadsHonest
SYMMETRY InstSymmetry
CONSTRAINT OneFault
