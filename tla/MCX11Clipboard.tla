--------------------------- MODULE MCX11Clipboard ---------------------------
(* Two windows, calls nested once, and conversions for one call of every     *)
(* kind, or for -Text with another in its callback.                          *)
EXTENDS X11Clipboard, TLC

CONSTANTS w1, w2

WindowPair == {w1, w2}
TextOnly == {{"text"}}
Either == Permutations(WindowPair)
=============================================================================
