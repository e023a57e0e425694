SPECIFICATION CSpec
CONSTANTS
  Vectors = {v1, v2}
  None = None
  ShardSize = 1
  MaxKey = 2
  Keys = {0, 1}
  MaxShards = 3
SYMMETRY Symmetry
PROPERTY WrittenAreCarried
