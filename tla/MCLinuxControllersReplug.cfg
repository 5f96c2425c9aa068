\* Two pads that get the same name, one after the other.
SPECIFICATION ControllersFairSpec
CONSTANTS
  p1 = p1
  p2 = p2
  p3 = p3
  e0 = e0
  e1 = e1
  a = a
  b = b
  None = None
  Pads <- TwoPads
  Names <- OneName
  Buttons <- OneButton
  BufferCap = 1
  MaxPresses = 0
  AllocMayFail = FALSE
PROPERTIES
  EveryPadIsFound
