\* Does a lock stay when another window hides its cursor?
SPECIFICATION Spec
CONSTANTS
  w1 = w1
  w2 = w2
  arrow = arrow
  hand = hand
  Nobody = Nobody
  Window <- BothWindows
  Cursor <- OneCursor
  Num = 5
  Den = 4
  Creations <- FewCreations
  Sizes = {3, 4}
  Widths = {3, 5}
  OthersGrab = FALSE
  MaxCalls = 3
  MaxChanges = 2
  MaxDepth = 2
SYMMETRY Either
PROPERTY LockIsKept
CHECK_DEADLOCK FALSE
