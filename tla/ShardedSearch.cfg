SPECIFICATION SSpec
CONSTANTS
  Keys = {0, 1}
  Vectors = {1, 2}
  None = None
  ShardSize = 1
  MaxSealed = 2
INVARIANTS
  TypeOK
  RemovedAreSealed
  NothingOlderThanTheSave
  NoStaleMatch
  SearchIsExact
PROPERTY
  ImplementsDurableMap
