CONSTANTS
  Procs = {q1, q2}
  Versions = {v1, v2}
  MaxEdits = 2
  MaxCrashes = 1
  Serial = TRUE
  EditsAnytime = FALSE
  Inst = {p1, p2}
  Configs = {c1, n1, n2}
  Nonces = {n1, n2}
  MaxLines = 2
  MaxDeaths = 1
  MaxDeletes = 1
SPECIFICATION GatesSpec
INVARIANTS TypeOK  WithdrawnStays LockboxOnce
PROPERTY FailureResets
SYMMETRY Symmetry
