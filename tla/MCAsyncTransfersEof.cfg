\* Sources that write and close, an allocator that never fails.
SPECIFICATION Spec
CONSTANTS
  t1 = t1
  t2 = t2
  t3 = t3
  Null = Null
  Transfers <- TwoTransfers
  Nested = {}
  Room = 2
  MaxBlocks = 1
  AllocMayFail = FALSE
INVARIANTS
  PullSucceeds
CHECK_DEADLOCK FALSE
