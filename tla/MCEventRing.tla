---------------------------- MODULE MCEventRing ----------------------------
(* Instances of EventRing for TLC. *)
EXTENDS EventRing

CONSTANTS main, w1
MCProducers == {main, w1}
Workers == {main, w1}
============================================================================
