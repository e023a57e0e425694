SPECIFICATION Spec
CONSTANTS
  Ids = {a, b}
  Vectors = {v1, v2}
  None = None
  MaxIdx = 2
SYMMETRY Symmetry
INVARIANTS
  TypeOK
  SettledPointsAgree
PROPERTY
  RebuildIsExact
