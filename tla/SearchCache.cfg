SPECIFICATION FairSpec
CONSTANTS
  Threads = {t1, t2}
  Queries = {q1, q2}
  None = None
  MaxSize = 1
  MaxWrites = 2
  MaxFaults = 1
INVARIANTS
  TypeOK
  NoStaleAnswer
PROPERTY
  StaleAnswersEnd
