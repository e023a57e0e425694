SPECIFICATION FairSpec
CONSTANTS
  Refreshes = {r1, r2}
  Keys = {k1, k2}
  Texts = {t1, t2}
  None = None
  Versions = {1, 2, 3, 4, 5, 6}
  Counted = TRUE
  MaxItems = 1
  MaxEditions = 3
  MaxTroubles = 1
INVARIANTS
  TypeOK
  OneAtOnce
  KeptTagIsWhole
  RememberedIsIndexed

  
CONSTRAINT Telling
CHECK_DEADLOCK FALSE
