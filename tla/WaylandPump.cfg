\* Every kind of timeout, three messages, a pending frame of two events.
SPECIFICATION FairSpec
CONSTANTS
  Timeouts = {"zero", "finite", "huge", "never"}
  FrameCap = 2
  MaxInput = 3
  MaxPosts = 1
INVARIANTS
  TypeOK
  ReadIsPaired
  NoSleepOnQueue
PROPERTIES
  CallsEnd
  WorkIsDispatched
