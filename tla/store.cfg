\* A track that stays, one that comes and goes and a cover, up to the last id.
SPECIFICATION Spec
CONSTANTS
  Path = {a, b, art}
  Image = {art}
  Volatile = {b}
  Field = {f}
  Tag = {x, y}
  MaxId = 5
  Absent = Absent
  Here = Here
  Elsewhere = Elsewhere
  Tampering = FALSE
INVARIANTS
  HistoryInv
  IdsNeverReassigned
  ResidentsKeepIds
  OverridesShown
PROPERTIES
  OverridesKept
