SPECIFICATION FairSpec
CONSTANTS
  Ids = {i1, i2}
  Values = {1, 2}
  None = None
  MaxVersion = 3
  MaxTables = 2
  MaxFaults = 1
INVARIANTS
  TypeOK
  CaughtUp
PROPERTY
  EventuallyInSync
