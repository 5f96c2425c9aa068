\* A cursor set during a lock.
SPECIFICATION Spec
CONSTANTS
  w1 = w1
  w2 = w2
  arrow = arrow
  hand = hand
  Nobody = Nobody
  Window <- BothWindows
  Cursor <- BothCursors
  Num = 5
  Den = 4
  Creations <- FewCreations
  Sizes = {3, 4}
  Widths = {3, 5}
  OthersGrab = TRUE
  MaxCalls = 3
  MaxChanges = 2
  MaxDepth = 2
SYMMETRY Either
INVARIANT CursorIsShown
CHECK_DEADLOCK FALSE
