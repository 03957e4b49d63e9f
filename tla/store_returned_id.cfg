SPECIFICATION Spec
CONSTANTS
  Path = {a, b}
  Image = {}
  Volatile = {b}
  Field = {}
  Tag = {x}
  MaxId = 6
  Absent = Absent
  Here = Here
  Elsewhere = Elsewhere
  Tampering = FALSE
INVARIANTS
  ReturnsWithItsId
CHECK_DEADLOCK FALSE
