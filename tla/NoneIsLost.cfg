SPECIFICATION Spec
CONSTANTS
  Writers = {w1, w2}
  Servers = {s1, s2}
  None = None
  BlockLimit = 1
  MaxParts = 1
  MaxDays = 2
  MaxRecords = 2
  MaxFaults = 2
INVARIANTS
  NoneIsLost
CONSTRAINT Enough
SYMMETRY Alike
CHECK_DEADLOCK FALSE
