--------------------------- MODULE MCWaylandWindow ---------------------------
(* A window of two sizes; a limit and a ratio that the larger one breaks.  *)
EXTENDS WaylandWindow

Zero == [x |-> 0, y |-> 0]
Small == [x |-> 2, y |-> 2]
Wide == [x |-> 4, y |-> 2]

BothSizes == {Small, Wide}
Free == [min |-> Zero, max |-> Zero, num |-> 0, den |-> 0]
Tight == [min |-> Zero, max |-> [x |-> 3, y |-> 3], num |-> 1, den |-> 1]
BothLimits == {Free, Tight}
Configure(max, full, active, s) ==
  [max |-> max, full |-> full, active |-> active, size |-> s]

\* A floating window may choose its size, keep the small one or get the wide one;
\* the other states come with the wide one, or leave it.
SomeProposals ==
  {Configure(FALSE, FALSE, TRUE, Zero), Configure(FALSE, FALSE, FALSE, Small),
   Configure(FALSE, FALSE, TRUE, Wide), Configure(TRUE, FALSE, TRUE, Wide),
   Configure(FALSE, TRUE, TRUE, Wide), Configure(TRUE, FALSE, FALSE, Zero)}

BothScales == {1, 2}
BothDecorations == {"xdg", "libdecor"}
AllReactions ==
  {"size", "limits", "maximize", "fullscreen", "monitor", "resizable"}
=============================================================================
