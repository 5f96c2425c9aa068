\* Two threads, a ring of two slots, counters of two bits: four posts fill the
\* ring and wrap the counters, and drains nest twice.
SPECIFICATION FairSpec
CONSTANTS
  main = main
  w1 = w1
  Primary = main
  Producers <- MCProducers
  Types = {"user"}
  Capacity = 2
  Modulus = 4
  MaxDrains = 2
  MaxPosts = 2
INVARIANTS
  TypeOK
  NoOverrun
  SlotExclusive
  CommittedIsWritten
PROPERTIES
  RingIsQueue
  PostsGetThrough
CHECK_DEADLOCK FALSE
