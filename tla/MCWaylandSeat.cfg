\* Two windows, a pointer that comes twice, two committed texts; callbacks and the
\* application do everything to a window that the seat depends on.
SPECIFICATION Spec
CONSTANTS
  w1 = w1
  w2 = w2
  None = None
  Windows <- WindowPair
  Reactions <- AllReactions
  MaxPointers = 2
  MaxCommits = 2
SYMMETRY Either
INVARIANTS
  TypeOK
  FocusFollows
  TextInputMatches
  LocksFollow
  TextReachesWindow
