\* A pull from inside the callback of another.
SPECIFICATION FairSpec
CONSTANTS
  t1 = t1
  t2 = t2
  t3 = t3
  Null = Null
  Transfers <- TwoTransfers
  Nested = {t2}
  Room = 2
  MaxBlocks = 1
  AllocMayFail = FALSE
PROPERTIES
  EveryPullCompletes
CHECK_DEADLOCK FALSE
