-------------------------- MODULE MCAudioChannel ---------------------------
(* Streams for TLC: one or two frames a packet, packets without index, and loud *)
(* sound without headers, which takes the decoder to its limits.                *)
EXTENDS AudioChannel

Steps == <<
  7, 8, 9, 10, 11, 12, 13, 14, 16, 17, 19, 21, 23, 25, 28, 31, 34, 37, 41, 45,
  50, 55, 60, 66, 73, 80, 88, 97, 107, 118, 130, 143, 157, 173, 190, 209, 230,
  253, 279, 307, 337, 371, 408, 449, 494, 544, 598, 658, 724, 796, 876, 963,
  1060, 1166, 1282, 1411, 1552, 1707, 1878, 2066, 2272, 2499, 2749, 3024, 3327,
  3660, 4026, 4428, 4871, 5358, 5894, 6484, 7132, 7845, 8630, 9493, 10442,
  11487, 12635, 13899, 15289, 16818, 18500, 20350, 22385, 24623, 27086, 29794,
  32767>>

MCStepTable == [i \in 0 .. 88 |-> Steps[i + 1]]

Speech == <<3, 12>>
Loud(k) == IF k % 8 < 4 THEN <<7, 7, 7, 7>> ELSE <<15, 15, 15, 15>>

Media(n, count) == [kind |-> "media", first |-> n, count |-> count, data |-> Speech]
Raw(data) == [kind |-> "raw", data |-> data]

MCStreams == {
  [k \in Packets |-> Media(k, 1)],
  [k \in Packets |-> Media(2 * k, 2)],
  [k \in Packets |-> IF k % 3 = 2 THEN Raw(Speech) ELSE Media(k, 1 + (k % 2))],
  [k \in Packets |-> IF k % 4 = 1 THEN [kind |-> "header", data |-> Speech]
                     ELSE Media(2 * k, 2)],
  [k \in Packets |-> Raw(Loud(k))] }
=============================================================================
