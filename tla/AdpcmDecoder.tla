---------------------------- MODULE AdpcmDecoder ----------------------------
(***************************************************************************)
(* ADPCMDecoder of bkcam-go/main.go: what a nibble makes of its state.     *)
(***************************************************************************)
EXTENDS Integers, Sequences

CONSTANT StepTable  \* the steps of IMA ADPCM

Indices == 0 .. 88
MinSample == -32768
MaxSample == 32767
Samples == MinSample .. MaxSample
StepSizes == 7 .. 32767
Nibbles == 0 .. 15

ASSUME TableAssumption == StepTable \in [Indices -> StepSizes]

\* Every sample fits the 16 bits it is written in, and every index the table.
Decoders == [index : Indices, valPred : Samples]

Reset == [index |-> 0, valPred |-> 0]

IndexTable == <<-1, -1, -1, -1, 2, 4, 6, 8, -1, -1, -1, -1, 2, 4, 6, 8>>

Clamp(x, low, high) == IF x < low THEN low ELSE IF x > high THEN high ELSE x

NextIndex(i, nibble) == Clamp(i + IndexTable[nibble + 1], 0, 88)

\* The change of the sample, with the roundings of the shifts.
Difference(step, nibble) ==
  LET bit(weight) == (nibble \div weight) % 2 IN
  step \div 8 + bit(4) * step + bit(2) * (step \div 2) + bit(1) * (step \div 4)

NextSample(v, step, nibble) ==
  Clamp(IF nibble >= 8 THEN v - Difference(step, nibble) ELSE v + Difference(step, nibble),
        MinSample, MaxSample)

\* The index moves first, and the step is the one it then points at.
DecodeNibble(d, nibble) ==
  LET next == NextIndex(d.index, nibble) IN
  [index |-> next, valPred |-> NextSample(d.valPred, StepTable[next], nibble)]

\* The state after all of a frame, nibble after nibble.
DecodeData(d, nibbles) ==
  LET after[n \in 0 .. Len(nibbles)] ==
        IF n = 0 THEN d ELSE DecodeNibble(after[n - 1], nibbles[n])
  IN after[Len(nibbles)]
=============================================================================
