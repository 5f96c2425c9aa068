\* Two drags over one window; the application and its callbacks refuse drags and
\* destroy the window.
SPECIFICATION FairSpec
CONSTANTS
  o1 = o1
  o2 = o2
  w1 = w1
  w2 = w2
  None = None
  Offers <- TwoOffers
  Windows <- OneWindow
  FrameCap = 2
  Reactions = {"keep", "refuse", "destroy"}
  Updates = {TRUE, FALSE}
  Destroys = TRUE
  LeaveAfterDrop = TRUE
  Timed = TRUE
  MaxMotions = 1
INVARIANTS
  OffersAreOwned
  NoOrphanEvents
  FinishIsLegal
PROPERTIES
  DropGivesUp
CHECK_DEADLOCK FALSE
