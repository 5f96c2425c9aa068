\* Two windows, a scale of 5/4, widths of 3 and 4 units or 3 and 5 pixels.
SPECIFICATION Spec
CONSTANTS
  w1 = w1
  w2 = w2
  arrow = arrow
  hand = hand
  Nobody = Nobody
  Window <- BothWindows
  Cursor <- OneCursor
  Num = 5
  Den = 4
  Creations <- FewCreations
  Sizes = {3, 4}
  Widths = {3, 5}
  OthersGrab = TRUE
  MaxCalls = 3
  MaxChanges = 2
  MaxDepth = 2
SYMMETRY Either
INVARIANTS
  TypeOK
  WindowsSettle
  GrabIsOwned
CHECK_DEADLOCK FALSE
