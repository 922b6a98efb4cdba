-------------------------- MODULE MCCameraRuntime --------------------------
(* Small instances of CameraRuntime for TLC. *)
EXTENDS CameraRuntime

CONSTANTS s1, s2, c1, on, off
=============================================================================
