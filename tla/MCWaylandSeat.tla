---------------------------- MODULE MCWaylandSeat ----------------------------
(* Two windows, a pointer that comes twice, two committed texts.           *)
EXTENDS WaylandSeat, TLC

CONSTANTS w1, w2

WindowPair == {w1, w2}
Either == Permutations(WindowPair)
NoReactions == {"keep"}
AllReactions == {"keep", "destroy", "text", "notext", "lock", "unlock"}
=============================================================================
