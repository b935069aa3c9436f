CONSTANTS
  Procs = {p1, p2}
  Versions = {v1, v2}
  MaxEdits = 0
  MaxCrashes = 0
  Serial = FALSE
  EditsAnytime = FALSE
SPECIFICATION Spec
INVARIANT WithdrawnStays
