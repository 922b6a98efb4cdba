-------------------------- MODULE MCCommandWaiters --------------------------
(* Small instances of CommandWaiters for TLC. *)
EXTENDS CommandWaiters, TLC

CONSTANTS h1, h2, l1, l2, get, set, x, y

Symmetry == Permutations(Handlers) \cup Permutations(Loops) \cup Permutations(Answers)
=============================================================================
