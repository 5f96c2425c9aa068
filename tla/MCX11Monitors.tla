---------------------------- MODULE MCX11Monitors ----------------------------
(* Two outputs with two modes.                                             *)
EXTENDS X11Monitors, TLC

CONSTANTS o1, o2, small, large

BothOutputs == <<o1, o2>>
BothModes == {small, large}
Either == Permutations(BothModes)
=============================================================================
