\* One window, an input method that commits nothing, an application that only
\* listens.
SPECIFICATION Spec
CONSTANTS
  w1 = w1
  w2 = w2
  None = None
  Windows = {w1}
  Reactions <- NoReactions
  MaxPointers = 0
  MaxCommits = 0
INVARIANTS
  CompositionIsTold
