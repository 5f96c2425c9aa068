\* A callback of a frame that is full when the drop is pushed ends the drag.
SPECIFICATION Spec
CONSTANTS
  o1 = o1
  o2 = o2
  w1 = w1
  w2 = w2
  None = None
  Offers <- TwoOffers
  Windows <- OneWindow
  FrameCap = 2
  Reactions = {"keep", "refuse", "destroy"}
  Updates = {TRUE, FALSE}
  Destroys = TRUE
  LeaveAfterDrop = TRUE
  Timed = TRUE
  MaxMotions = 1
INVARIANTS
  FinishHasOffer
CHECK_DEADLOCK FALSE
