---------------------------- MODULE MCWaylandDnd ----------------------------
(* Instances of WaylandDnd for TLC. *)
EXTENDS WaylandDnd

CONSTANTS o1, o2, w1, w2
TwoOffers == {o1, o2}
OneWindow == {w1}
TwoWindows == {w1, w2}
=============================================================================
