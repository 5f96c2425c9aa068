\* Two outputs, two modes, 3 changes, one update at a time.  The server may stop
\* changing.
SPECIFICATION Spec
CONSTANTS
  o1 = o1
  o2 = o2
  small = small
  large = large
  Off = Off
  Outputs <- BothOutputs
  Mode <- BothModes
  MaxDepth = 1
  MaxChanges = 3
SYMMETRY Either
INVARIANT
  ConnectionIsTold
CHECK_DEADLOCK FALSE
