\* A window destroyed in its own callback.
SPECIFICATION Spec
CONSTANTS
  w1 = w1
  w2 = w2
  arrow = arrow
  hand = hand
  Nobody = Nobody
  Window <- BothWindows
  Cursor <- OneCursor
  Num = 5
  Den = 4
  Creations <- FewCreations
  Sizes = {3, 4}
  Widths = {3, 5}
  OthersGrab = TRUE
  MaxCalls = 3
  MaxChanges = 2
  MaxDepth = 2
SYMMETRY Either
INVARIANT NothingFreedIsReached
CHECK_DEADLOCK FALSE
