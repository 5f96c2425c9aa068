\* A callback that pumps, as the clipboard of X11 does.
SPECIFICATION Spec
CONSTANTS
  main = main
  w1 = w1
  Primary = main
  Producers <- MCProducers
  Types = {"user"}
  Capacity = 2
  Modulus = 8
  MaxDrains = 2
  MaxPosts = 2
PROPERTIES
  HandedOutOnce
CHECK_DEADLOCK FALSE
