SPECIFICATION CSpec
CONSTANTS
  Vectors = {v1, v2}
  None = None
  ShardSize = 1
  MaxKey = 3
  Keys = {0, 1, 2}
  MaxShards = 2
SYMMETRY Symmetry
CONSTRAINT FewVectors
INVARIANTS
  CompactionTypeOK
  StagingIsHarmless
PROPERTY
  CompactionIsExact
