SPECIFICATION Spec
CONSTANTS
  Path = {a, b}
  Image = {}
  Volatile = {b}
  Field = {f}
  Tag = {x}
  MaxId = 4
  Absent = Absent
  Here = Here
  Elsewhere = Elsewhere
  Tampering = TRUE
INVARIANTS
  SoundCatalogues
  RestartLoads
