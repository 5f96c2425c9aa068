\* A new drag while a drop waits for its list.
SPECIFICATION Spec
CONSTANTS
  o1 = o1
  o2 = o2
  w1 = w1
  w2 = w2
  None = None
  Offers <- TwoOffers
  Windows <- OneWindow
  FrameCap = 4
  Reactions = {"keep"}
  Updates = {}
  Destroys = FALSE
  LeaveAfterDrop = FALSE
  Timed = TRUE
  MaxMotions = 1
INVARIANTS
  SessionsEnd
CHECK_DEADLOCK FALSE
