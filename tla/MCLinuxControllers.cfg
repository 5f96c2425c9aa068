\* Two pads, two names one of which may be reused, a kernel buffer of one event.
SPECIFICATION ControllersFairSpec
CONSTANTS
  p1 = p1
  p2 = p2
  p3 = p3
  e0 = e0
  e1 = e1
  a = a
  b = b
  None = None
  Pads <- TwoPads
  Names <- TwoNames
  Buttons <- TwoButtons
  BufferCap = 1
  MaxPresses = 2
  AllocMayFail = TRUE
INVARIANTS
  ReportsMatchList
  ButtonsFollow
PROPERTIES
  PadsAreFollowed
