---------------------------- MODULE MCWatchdog -----------------------------
(* A small instance of Watchdog for TLC. *)
EXTENDS Watchdog

Bound(off, stall, audio, snapshot) ==
  [kind \in {"off", "stall", "audio", "snapshot"} |->
     CASE kind = "off" -> off [] kind = "stall" -> stall
       [] kind = "audio" -> audio [] OTHER -> snapshot]

MCBounds == {Bound(1, 0, 0, 0), Bound(0, 2, 0, 0), Bound(0, 0, 1, 0), Bound(0, 1, 0, 1)}
=============================================================================
