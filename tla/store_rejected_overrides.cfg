SPECIFICATION Spec
CONSTANTS
  Path = {a}
  Image = {}
  Volatile = {}
  Field = {f}
  Tag = {x, y}
  MaxId = 4
  Absent = Absent
  Here = Here
  Elsewhere = Elsewhere
  Tampering = TRUE
INVARIANTS
  OverridesShown
CHECK_DEADLOCK FALSE
