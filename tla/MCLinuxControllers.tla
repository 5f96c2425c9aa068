------------------------- MODULE MCLinuxControllers -------------------------
(* Instances of LinuxControllers for TLC. *)
EXTENDS LinuxControllers

CONSTANTS p1, p2, p3, e0, e1, a, b
TwoPads == {p1, p2}
ThreePads == {p1, p2, p3}
OneName == {e0}
TwoNames == {e0, e1}
OneButton == {a}
TwoButtons == {a, b}
=============================================================================
