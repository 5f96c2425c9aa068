\* A call that waits for ever and a post.
SPECIFICATION FairSpec
CONSTANTS
  Timeouts = {"never"}
  FrameCap = 2
  MaxInput = 1
  MaxPosts = 1
PROPERTIES
  PostWakesPump
