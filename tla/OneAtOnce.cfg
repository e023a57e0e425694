SPECIFICATION Spec
CONSTANTS
  Refreshes = {r1, r2}
  Keys = {k1}
  Texts = {t1, t2}
  None = None
  Versions = {1, 2, 3, 4}
  Counted = TRUE
  MaxItems = 1
  MaxEditions = 2
  MaxTroubles = 1
INVARIANT
  OneAtOnceOnAnyStore
CHECK_DEADLOCK FALSE
