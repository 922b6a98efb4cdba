-------------------------- MODULE MCVideoAssembly --------------------------
(* Streams for TLC: a camera that repeats one of a few patterns of frames. *)
EXTENDS VideoAssembly

Start(n)  == [start |-> TRUE, expected |-> n, eoi |-> FALSE]
Single(n) == [start |-> TRUE, expected |-> n, eoi |-> TRUE]
Middle    == [start |-> FALSE, expected |-> 0, eoi |-> FALSE]
Final     == [start |-> FALSE, expected |-> 0, eoi |-> TRUE]

Patterns == {
  <<Start(3), Middle, Final>>,                    \* as announced
  <<Start(4), Middle, Final, Single(1)>>,         \* announced too long; one chunk
  <<Start(2), Middle, Final, Start(0), Final>>,   \* too short; bad header
  <<Start(Window + 2)>> \o [i \in 1..Window |-> Middle] \o <<Final, Start(2), Final>> }
                                                  \* too long for the window

MCStreams == {[k \in 0..LastChunk |-> p[(k % Len(p)) + 1]] : p \in Patterns}
=============================================================================
