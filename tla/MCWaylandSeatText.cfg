\* One window, one committed text, an application that only listens.
SPECIFICATION Spec
CONSTANTS
  w1 = w1
  w2 = w2
  None = None
  Windows = {w1}
  Reactions <- NoReactions
  MaxPointers = 0
  MaxCommits = 1
INVARIANTS
  TextIsValid
