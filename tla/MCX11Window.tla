---------------------------- MODULE MCX11Window ----------------------------
(* Two windows on a screen of 120 dpi.                                     *)
EXTENDS X11Window, TLC

CONSTANTS w1, w2, arrow, hand

Created(size, mode, full, max) ==
  [size |-> size, mode |-> mode, fullscreen |-> full, maximized |-> max]
FewCreations == {Created(4, "hidden", TRUE, TRUE), Created(3, "locked", FALSE, FALSE)}
BothWindows == {w1, w2}
BothCursors == {arrow, hand}
OneCursor == {arrow}
Either == Permutations(BothWindows) \cup Permutations(BothCursors)
=============================================================================
