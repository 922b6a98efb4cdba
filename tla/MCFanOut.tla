----------------------------- MODULE MCFanOut ------------------------------
(* Small instances of FanOut for TLC. *)
EXTENDS FanOut, TLC

CONSTANTS v1, a1, s1, s2
=============================================================================
