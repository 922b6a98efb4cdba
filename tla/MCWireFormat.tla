---------------------------- MODULE MCWireFormat ---------------------------
(* WireFormat with bytes of three bits, for TLC. *)
EXTENDS WireFormat

Bit(a, weight) == (a \div weight) % 2

MCXor(a, b) ==
  LET differ(weight) == IF Bit(a, weight) = Bit(b, weight) THEN 0 ELSE weight IN
  differ(1) + differ(2) + differ(4)

MCKeyTable == [b \in 0 .. 7 |-> (5 * b + 3) % 7]

MCPsks == {<<1, 6>>, <<7, 3, 5>>}

MCPayloads == {<<>>, <<0>>, <<7>>, <<2, 7>>, <<7, 0, 5>>}
=============================================================================
