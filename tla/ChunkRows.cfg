SPECIFICATION Spec
CONSTANTS
  Threads = {t1, t2}
  Processes = {p1, p2}
  Ids = {i1, i2}
  Keys = {k1, k2}
  None = None
  Tries = 2
  MaxCalls = 4
  MaxFaults = 1
INVARIANTS
  TypeOK
  MergesSurvive
  DeletedAreGone
  PagesFollow
PROPERTY
  KeepsFirstWritten
SYMMETRY Alike
CHECK_DEADLOCK FALSE
