------------------------ MODULE MCCameraConfigStore ------------------------
(* Small instances of CameraConfigStore for TLC. *)
EXTENDS CameraConfigStore, TLC

CONSTANTS a, b, vga, qvga, setup, lan, h1, h2

Symmetry == Permutations(Handlers) \cup Permutations(Ids) \cup Permutations(Sizes)
=============================================================================
