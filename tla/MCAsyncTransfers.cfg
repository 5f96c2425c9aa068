\* Three transfers, one of them begun in a callback, two descriptors in the
\* poll array, every failure.
SPECIFICATION FairSpec
CONSTANTS
  t1 = t1
  t2 = t2
  t3 = t3
  Null = Null
  Transfers <- ThreeTransfers
  Nested = {t3}
  Room = 2
  MaxBlocks = 2
  AllocMayFail = TRUE
INVARIANTS
  ListIsSound
  ReportedOnce
PROPERTIES
  PullCompletes
CHECK_DEADLOCK FALSE
