\* Two outputs, two modes, 5 changes, updates up to three deep.  The server may
\* stop changing.
SPECIFICATION Spec
CONSTANTS
  o1 = o1
  o2 = o2
  small = small
  large = large
  Off = Off
  Outputs <- BothOutputs
  Mode <- BothModes
  MaxDepth = 3
  MaxChanges = 5
SYMMETRY Either
INVARIANTS
  TypeOK
  ListFollows
  LossesAndModesAreTold
CHECK_DEADLOCK FALSE
