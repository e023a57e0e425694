SPECIFICATION FairSpec
CONSTANTS
  Texts = {t1, t2, bad}
  Unreadable = {bad}
  Short = {t2}
  None = None
  Batches = 2
  MaxVersions = 3
  MaxRepeats = 1
  MaxFaults = 1
INVARIANTS
  TypeOK
  WholeBetweenEvents
  NeverKeptUnindexed

  
CHECK_DEADLOCK FALSE
