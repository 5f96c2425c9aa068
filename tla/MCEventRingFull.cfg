\* A ring that never holds four messages: four posts race, four slots.
SPECIFICATION Spec
CONSTANTS
  main = main
  w1 = w1
  Primary = main
  Producers <- MCProducers
  Types = {"user"}
  Capacity = 4
  Modulus = 16
  MaxDrains = 2
  MaxPosts = 2
PROPERTIES
  RefusedOnlyIfFilled
CHECK_DEADLOCK FALSE
