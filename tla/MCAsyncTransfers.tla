-------------------------- MODULE MCAsyncTransfers --------------------------
(* Instances of AsyncTransfers for TLC. *)
EXTENDS AsyncTransfers

CONSTANTS t1, t2, t3
TwoTransfers == {t1, t2}
ThreeTransfers == {t1, t2, t3}
=============================================================================
