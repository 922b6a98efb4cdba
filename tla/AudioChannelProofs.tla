------------------------- MODULE AudioChannelProofs -------------------------
(***************************************************************************)
(* Proofs about AudioChannel and its AdpcmDecoder, for cameras that send   *)
(* any sounds in any of the forms, over a network that loses, repeats and  *)
(* reorders, for as long as it likes.                                      *)
(***************************************************************************)
EXTENDS AudioChannel, FiniteSetTheorems, TLAPS

(* Loops over data.                                                        *)

\* A set that has 0, and with each number the next one, has them all: the least
\* number it does not have would follow one that it has.
LEMMA SetInduction ==
  ASSUME NEW S, 0 \in S, \A n \in Nat : n \in S => n + 1 \in S
  PROVE  Nat \subseteq S
<1> SUFFICES ASSUME NEW b \in Nat, b \notin S PROVE FALSE
  OBVIOUS
<1> DEFINE Missing == Nat \ S
           F == {0 .. k : k \in Missing}
<1>1. F \subseteq FiniteSubsetsOf(Nat)
  <2> SUFFICES ASSUME NEW k \in Missing PROVE 0 .. k \in FiniteSubsetsOf(Nat)
    OBVIOUS
  <2>1. IsFiniteSet(0 .. k)
    BY FS_Interval
  <2>2. 0 .. k \in SUBSET Nat
    OBVIOUS
  <2> QED BY <2>1, <2>2 DEF FiniteSubsetsOf
<1>2. F # {}
  OBVIOUS
<1>3. PICK T \in F : \A U \in F : ~(<<U, T>> \in StrictSubsetOrdering(Nat))
  <2> HIDE DEF F
  <2> QED BY <1>1, <1>2, FS_StrictSubsetOrderingWellFounded, WFMin
<1>4. PICK m \in Missing : T = 0 .. m
  OBVIOUS
<1>5. m - 1 \in Missing
  OBVIOUS
<1>6. <<0 .. m - 1, T>> \in StrictSubsetOrdering(Nat)
  <2>1. m \in T /\ m \notin 0 .. m - 1
    BY <1>4
  <2>2. 0 .. m - 1 \subseteq T /\ T \subseteq Nat
    BY <1>4
  <2> QED BY <2>1, <2>2 DEF StrictSubsetOrdering
<1> QED BY <1>3, <1>5, <1>6

\* The states of a loop, which its i-th step takes from s to step[<<s, i>>].
Steps(f, n, start, step) ==
  f[0] = start /\ \A i \in 1 .. n : f[i] = step[<<f[i - 1], i>>]

LEMMA StepsAt ==
  ASSUME NEW f, NEW n \in Nat, NEW start, NEW step, Steps(f, n, start, step), NEW i \in 1 .. n
  PROVE  f[i] = step[<<f[i - 1], i>>]
BY Zenon DEF Steps

LEMMA StepsFrom ==
  ASSUME NEW f, NEW n, NEW start, NEW step, Steps(f, n, start, step)
  PROVE  f[0] = start
BY Zenon DEF Steps

\* There are such states, whatever the steps do.
LEMMA LoopRuns ==
  ASSUME NEW S, NEW n \in Nat, NEW start \in S, NEW step,
         \A s \in S, i \in 1 .. n : step[<<s, i>>] \in S
  PROVE  \E f \in [0 .. n -> S] : Steps(f, n, start, step)
<1> DEFINE P == {m \in Nat : m <= n => \E f \in [0 .. m -> S] : Steps(f, m, start, step)}
<1>1. 0 \in P
  <2>1. Steps([i \in 0 .. 0 |-> start], 0, start, step)
    <3>1. [i \in 0 .. 0 |-> start][0] = start /\ 1 .. 0 = {}
      OBVIOUS
    <3> QED BY <3>1 DEF Steps
  <2>2. [i \in 0 .. 0 |-> start] \in [0 .. 0 -> S]
    OBVIOUS
  <2> QED BY <2>1, <2>2
<1>2. ASSUME NEW m \in Nat, m \in P PROVE m + 1 \in P
  <2> SUFFICES ASSUME m + 1 <= n PROVE \E f \in [0 .. m + 1 -> S] : Steps(f, m + 1, start, step)
    OBVIOUS
  <2>1. PICK f \in [0 .. m -> S] : Steps(f, m, start, step)
    BY <1>2
  <2> DEFINE g == [i \in 0 .. m + 1 |-> IF i = m + 1 THEN step[<<f[m], m + 1>>] ELSE f[i]]
  <2>2. f[m] \in S /\ m + 1 \in 1 .. n
    OBVIOUS
  <2>3. step[<<f[m], m + 1>>] \in S
    BY <2>2
  <2>4. \A i \in 0 .. m : g[i] = f[i]
    OBVIOUS
  <2>5. g[m + 1] = step[<<f[m], m + 1>>]
    OBVIOUS
  <2>6. g \in [0 .. m + 1 -> S]
    <3>1. \A i \in 0 .. m + 1 : i # m + 1 => i \in 0 .. m
      OBVIOUS
    <3> QED BY <2>3, <3>1
  <2> HIDE DEF g
  <2>7. g[0] = start
    BY <2>1, <2>4, StepsFrom
  <2>8. ASSUME NEW i \in 1 .. m + 1 PROVE g[i] = step[<<g[i - 1], i>>]
    <3>1. CASE i = m + 1
      <4>1. i - 1 = m /\ m \in 0 .. m
        BY <3>1
      <4> QED BY <2>4, <2>5, <3>1, <4>1
    <3>2. CASE i # m + 1
      <4>1. i \in 1 .. m /\ i \in 0 .. m /\ i - 1 \in 0 .. m
        BY <3>2
      <4>2. f[i] = step[<<f[i - 1], i>>]
        BY <2>1, <4>1, StepsAt
      <4> QED BY <2>4, <4>1, <4>2
    <3> QED BY <3>1, <3>2
  <2>9. Steps(g, m + 1, start, step)
    BY <2>7, <2>8 DEF Steps
  <2> QED BY <2>6, <2>9
<1>3. n \in P
  <2> HIDE DEF P
  <2> QED BY <1>1, <1>2, SetInduction
<1> QED BY <1>3

\* What every step of a loop keeps, all of its states have.
LEMMA LoopKeeps ==
  ASSUME NEW S, NEW n \in Nat, NEW f, f[0] \in S,
         \A i \in 1 .. n : f[i - 1] \in S => f[i] \in S
  PROVE  \A i \in 0 .. n : f[i] \in S
<1> DEFINE P == {m \in Nat : m <= n => f[m] \in S}
<1>1. 0 \in P
  OBVIOUS
<1>2. ASSUME NEW m \in Nat, m \in P PROVE m + 1 \in P
  <2> SUFFICES ASSUME m + 1 <= n PROVE f[m + 1] \in S
    OBVIOUS
  <2>1. m + 1 \in 1 .. n /\ (m + 1) - 1 = m /\ f[m] \in S
    BY <1>2
  <2> QED BY <2>1
<1>3. Nat \subseteq P
  <2> HIDE DEF P
  <2> QED BY <1>1, <1>2, SetInduction
<1> QED BY <1>3

-----------------------------------------------------------------------------
(* The decoder.                                                            *)

\* The lookup finds a number.
LEMMA IndexChange == \A nibble \in 0 .. 15 : IndexTable[nibble + 1] \in Int
BY DEF IndexTable

LEMMA SampleRange == MinSample \in Int /\ MaxSample \in Int /\ MinSample <= 0 /\ 0 <= MaxSample
BY DEF MinSample, MaxSample

\* Clamp keeps a number within its limits.
LEMMA ClampType ==
  \A x \in Int : Clamp(x, 0, 88) \in Indices /\ Clamp(x, MinSample, MaxSample) \in Samples
BY SampleRange DEF Clamp, Indices, Samples

LEMMA NextIndexType ==
  ASSUME NEW i \in Indices, NEW nibble \in 0 .. 15 PROVE NextIndex(i, nibble) \in Indices
<1>1. i \in Int /\ i + IndexTable[nibble + 1] \in Int BY IndexChange DEF Indices
<1> QED BY <1>1, ClampType DEF NextIndex

LEMMA DifferenceType ==
  ASSUME NEW step \in Nat, NEW nibble \in 0 .. 15 PROVE Difference(step, nibble) \in Int
<1>1. (nibble \div 4) % 2 \in Int /\ (nibble \div 2) % 2 \in Int /\ (nibble \div 1) % 2 \in Int
  OBVIOUS
<1>2. step \div 8 \in Int /\ step \div 2 \in Int /\ step \div 4 \in Int OBVIOUS
<1> QED BY <1>1, <1>2 DEF Difference

LEMMA NextSampleType ==
  ASSUME NEW v \in Samples, NEW step \in StepSizes, NEW nibble \in 0 .. 15
  PROVE  NextSample(v, step, nibble) \in Samples
<1> DEFINE d == Difference(step, nibble)
           x == IF nibble >= 8 THEN v - d ELSE v + d
<1>0. step \in Nat BY DEF StepSizes
<1>1. d \in Int BY <1>0, DifferenceType
<1> HIDE DEF d
<1>2. x \in Int BY <1>1, SampleRange DEF Samples
<1>3. NextSample(v, step, nibble) = Clamp(x, MinSample, MaxSample) BY DEF NextSample, d
<1> QED BY <1>2, <1>3, ClampType

\* Samples fit their 16 bits and indices the table, from the reset on and whatever
\* nibble comes next.
THEOREM DecoderInRange ==
  Reset \in Decoders /\ \A d \in Decoders, nibble \in Nibbles : DecodeNibble(d, nibble) \in Decoders
<1>1. Reset \in Decoders BY SampleRange DEF Reset, Decoders, Indices, Samples
<1>2. ASSUME NEW d \in Decoders, NEW nibble \in Nibbles PROVE DecodeNibble(d, nibble) \in Decoders
  <2>1. d.index \in Indices /\ d.valPred \in Samples /\ nibble \in 0 .. 15
    BY DEF Decoders, Nibbles
  <2>2. NextIndex(d.index, nibble) \in Indices BY <2>1, NextIndexType
  <2>3. StepTable[NextIndex(d.index, nibble)] \in StepSizes BY <2>2, TableAssumption
  <2>4. NextSample(d.valPred, StepTable[NextIndex(d.index, nibble)], nibble) \in Samples
    BY <2>1, <2>3, NextSampleType
  <2> QED BY <2>2, <2>4 DEF DecodeNibble, Decoders
<1> QED BY <1>1, <1>2
\* And so do they over the data of a whole frame.
LEMMA DecodeDataType ==
  ASSUME NEW d \in Decoders, NEW nibbles \in Seq(Nibbles)
  PROVE  DecodeData(d, nibbles) \in Decoders
<1> DEFINE n == Len(nibbles)
           step == [x \in Decoders \X (1 .. n) |-> DecodeNibble(x[1], nibbles[x[2]])]
           Eq(g) == g = [i \in 0 .. n |-> IF i = 0 THEN d ELSE DecodeNibble(g[i - 1], nibbles[i])]
           after == CHOOSE g : Eq(g)
<1>1. n \in Nat /\ \A i \in 1 .. n : nibbles[i] \in Nibbles
  OBVIOUS
<1>2. \A s \in Decoders, i \in 1 .. n :
        step[<<s, i>>] = DecodeNibble(s, nibbles[i]) /\ DecodeNibble(s, nibbles[i]) \in Decoders
  BY <1>1, DecoderInRange
<1>3. PICK f \in [0 .. n -> Decoders] : Steps(f, n, d, step)
  <2>1. \A s \in Decoders, i \in 1 .. n : step[<<s, i>>] \in Decoders
    BY <1>2
  <2> HIDE DEF n, step
  <2> QED BY <1>1, <2>1, LoopRuns
<1>4. Eq(f)
  <2>1. \A i \in 0 .. n : f[i] = IF i = 0 THEN d ELSE DecodeNibble(f[i - 1], nibbles[i])
    <3> SUFFICES ASSUME NEW i \in 0 .. n, i # 0 PROVE f[i] = DecodeNibble(f[i - 1], nibbles[i])
      BY <1>3, StepsFrom
    <3>1. i \in 1 .. n /\ f[i - 1] \in Decoders
      OBVIOUS
    <3> HIDE DEF n, step
    <3>2. f[i] = step[<<f[i - 1], i>>]
      BY <1>1, <1>3, <3>1, StepsAt
    <3> QED BY <1>2, <3>1, <3>2
  <2> HIDE DEF n
  <2> QED BY <2>1
<1> HIDE DEF Eq
<1>5. Eq(after)
  BY <1>4
<1>6. DecodeData(d, nibbles) = after[n]
  BY DEF DecodeData, Eq
<1> HIDE DEF after, n
<1>7. after[0] = d /\ \A i \in 1 .. n : after[i] = DecodeNibble(after[i - 1], nibbles[i])
  BY <1>1, <1>5 DEF Eq
<1>8. \A i \in 1 .. n : after[i - 1] \in Decoders => after[i] \in Decoders
  BY <1>1, <1>2, <1>7
<1>9. \A i \in 0 .. n : after[i] \in Decoders
  BY <1>1, <1>7, <1>8, LoopKeeps
<1> QED BY <1>1, <1>6, <1>9
-----------------------------------------------------------------------------
(* Indices.                                                                *)

\* Numbers and what is left of them modulo s.
LEMMA DivMod ==
  ASSUME NEW s \in Nat \ {0}, NEW a \in Int
  PROVE  /\ a \div s \in Int /\ a % s \in 0 .. s - 1
         /\ a = s * (a \div s) + (a % s)
OBVIOUS

LEMMA Multiples ==
  \A s \in Nat \ {0}, q \in Int :
    (q >= 1 => s * q >= s) /\ (q >= 2 => s * q >= 2 * s) /\ (q <= -1 => s * q <= -s)
    /\ (q <= -2 => s * q <= -(2 * s))
OBVIOUS

LEMMA ModSmall ==
  ASSUME NEW s \in Nat \ {0}, NEW x \in Int
  PROVE  /\ x \in 0 .. s - 1 => x % s = x
         /\ x \in -s .. -1 => x % s = x + s
OBVIOUS

\* Of two frames less than half the indices apart, the index tells which is newer.
LEMMA IndexTells ==
  ASSUME NEW a \in Nat, NEW b \in Nat, a - b \in -(3 * Reach) .. 3 * Reach
  PROVE  MediaIndexAfter(a % IndexSpace, b % IndexSpace) <=> a > b
<1> DEFINE s == IndexSpace
           q == (a \div s) - (b \div s)
           d == (a % s) - (b % s)
<1>1. s \in Nat \ {0} /\ Reach \in Nat \ {0} /\ 8 * Reach < s
  BY SpaceAssumption
<1>2. a % s \in 0 .. s - 1 /\ b % s \in 0 .. s - 1 /\ a \div s \in Int /\ b \div s \in Int
  <2>1. a % s \in 0 .. s - 1 /\ a \div s \in Int
    BY <1>1, DivMod
  <2>2. b % s \in 0 .. s - 1 /\ b \div s \in Int
    BY <1>1, DivMod
  <2> QED BY <2>1, <2>2
<1>3. a - b = s * q + d /\ q \in Int /\ d \in -s + 1 .. s - 1
  <2>1. a = s * (a \div s) + (a % s) /\ b = s * (b \div s) + (b % s)
    BY <1>1, DivMod
  <2>2. s * (a \div s) - s * (b \div s) = s * q
    BY <1>1, <1>2
  <2>3. s * (a \div s) \in Int /\ s * (b \div s) \in Int
    BY <1>1, <1>2
  <2> QED BY <1>1, <1>2, <2>1, <2>2, <2>3
<1>4. MediaIndexAfter(a % s, b % s) <=> d # 0 /\ d % s < s \div 2
  BY <1>1, <1>2 DEF MediaIndexAfter
<1>5. s \div 2 \in Nat /\ 4 * Reach <= s \div 2 /\ 2 * (s \div 2) <= s
  BY <1>1
<1> HIDE DEF s, q, d
<1>6. s * q \in Int
  BY <1>1, <1>3
<1>7. q \in {-1, 0, 1}
  BY <1>1, <1>3, <1>6, Multiples
<1>8. (d \in 0 .. s - 1 => d % s = d) /\ (d \in -s .. -1 => d % s = d + s)
  BY <1>1, <1>3, ModSmall
<1>9. CASE q = 0
  <2>1. a - b = d
    BY <1>1, <1>3, <1>9
  <2> QED BY <1>1, <1>3, <1>4, <1>5, <1>8, <2>1 DEF s
<1>10. CASE q = 1
  <2>1. a - b = s + d
    BY <1>1, <1>3, <1>10
  <2>2. a > b /\ d \in -s .. -1
    BY <1>1, <1>3, <2>1
  <2>3. d % s = a - b /\ a - b < s \div 2 /\ d # 0
    BY <1>1, <1>3, <1>5, <1>8, <2>1, <2>2
  <2> QED BY <1>4, <2>2, <2>3 DEF s
<1>11. CASE q = -1
  <2>1. a - b = d - s
    BY <1>1, <1>3, <1>11
  <2>2. ~(a > b) /\ d \in 0 .. s - 1
    BY <1>1, <1>3, <2>1
  <2>3. d % s = d /\ ~(d < s \div 2)
    BY <1>1, <1>3, <1>5, <1>8, <2>1, <2>2
  <2> QED BY <1>4, <2>2, <2>3 DEF s
<1> QED BY <1>7, <1>9, <1>10, <1>11
-----------------------------------------------------------------------------
(* The inductive invariant.                                                *)

\* What the filter compares with is the index of the newest frame decoded, which
\* came in a packet received before.
Heard ==
  played # -1 =>
    /\ last = played % IndexSpace
    /\ \E j \in 0 .. seen - 1 :
         IsMedia(stream, j) /\ stream[j].first <= played /\ played <= Newest(stream, j)

IInv == TypeOK /\ DecodedFromReset /\ Heard /\ NothingLeftOut

\* A state of handleDRW between two frames, and a frame of a packet.
States == [last : (0 .. IndexSpace - 1) \cup {None}, decoder : Decoders, out : Seq(Frame)]
RawFrame == [number : Nat \cup {None}, reset : BOOLEAN, data : Seq(Nibbles)]

Start == [last |-> last, decoder |-> decoder, out |-> <<>>]

LEMMA ResetType == Reset \in Decoders
BY DecoderInRange

LEMMA IndexType == \A n \in Nat : n % IndexSpace \in 0 .. IndexSpace - 1
BY SpaceAssumption

LEMMA StreamType ==
  ASSUME TypeOK, NEW k \in Packets
  PROVE  /\ stream[k] \in Packet /\ Numbered(stream)
         /\ IsMedia(stream, k) =>
              /\ stream[k].first \in Nat /\ stream[k].count \in 1 .. 2
              /\ stream[k].data \in Seq(Nibbles)
              /\ Newest(stream, k) = stream[k].first + stream[k].count - 1
<1>1. stream[k] \in Packet /\ Numbered(stream)
  BY StreamsAssumption DEF TypeOK
<1> QED BY <1>1 DEF Packet, IsMedia, Newest

\* One or two frames with numbers, or one without.
LEMMA Parsed ==
  ASSUME TypeOK, NEW k \in Packets, NEW frames, frames = ParseAudioFrames(stream[k])
  PROVE  /\ Len(frames) \in Nat /\ \A n \in 1 .. Len(frames) : frames[n] \in RawFrame
         /\ IsMedia(stream, k) =>
              /\ Len(frames) = stream[k].count
              /\ \A n \in 1 .. Len(frames) :
                   frames[n].number = stream[k].first + n - 1 /\ frames[n].reset
         /\ ~IsMedia(stream, k) => Len(frames) = 1 /\ frames[1].number = None
<1>1. CASE IsMedia(stream, k)
  <2> DEFINE c == stream[k].count
  <2>1. stream[k].first \in Nat /\ c \in 1 .. 2 /\ stream[k].data \in Seq(Nibbles)
    BY <1>1, StreamType
  <2>2. frames = [n \in 1 .. c |-> [number |-> stream[k].first + n - 1, reset |-> TRUE,
                                     data |-> stream[k].data]]
    BY <1>1 DEF ParseAudioFrames, IsMedia
  <2> HIDE DEF c
  <2>3. \A n \in 1 .. c : /\ frames[n] \in RawFrame
                          /\ frames[n].number = stream[k].first + n - 1 /\ frames[n].reset
    BY <2>1, <2>2 DEF RawFrame
  <2>4. Len(frames) = c
    BY <2>1, <2>2
  <2> QED BY <1>1, <2>1, <2>3, <2>4 DEF c
<1>2. CASE ~IsMedia(stream, k)
  <2>1. stream[k].data \in Seq(Nibbles)
    BY <1>2, StreamType DEF Packet, IsMedia
  <2>2. frames = <<[number |-> None, reset |-> stream[k].kind = "header",
                    data |-> stream[k].data]>>
    BY <1>2 DEF ParseAudioFrames, IsMedia
  <2>3. Len(frames) = 1 /\ frames[1] \in RawFrame /\ frames[1].number = None
    BY <2>1, <2>2 DEF RawFrame
  <2> QED BY <1>2, <2>3
<1> QED BY <1>1, <1>2

\* What the decoder makes of a frame.
LEMMA Decoded ==
  ASSUME NEW st \in States, NEW f \in RawFrame
  PROVE  /\ Decode(st, f) \in States
         /\ Decode(st, f).last = IF f.number = None THEN st.last ELSE f.number % IndexSpace
         /\ \E from \in Decoders :
              /\ f.reset => from = Reset
              /\ Decode(st, f).out = Append(st.out, [number |-> f.number, from |-> from])
<1> DEFINE from == IF f.reset THEN Reset ELSE st.decoder
           new == IF f.number = None THEN st.last ELSE f.number % IndexSpace
           o == Append(st.out, [number |-> f.number, from |-> from])
<1>1. from \in Decoders
  BY ResetType DEF States
<1>2. DecodeData(from, f.data) \in Decoders
  BY <1>1, DecodeDataType DEF RawFrame
<1>3. new \in (0 .. IndexSpace - 1) \cup {None}
  BY IndexType DEF States, RawFrame
<1>4. o \in Seq(Frame)
  BY <1>1 DEF States, RawFrame, Frame
<1>5. Decode(st, f) = [decoder |-> DecodeData(from, f.data), last |-> new, out |-> o]
  BY DEF Decode
<1> HIDE DEF from, new, o
<1>6. Decode(st, f) \in States /\ Decode(st, f).last = new /\ Decode(st, f).out = o
  BY <1>2, <1>3, <1>4, <1>5 DEF States
<1> QED BY <1>1, <1>6 DEF from, new, o

LEMMA HandleFrameType ==
  ASSUME NEW st \in States, NEW f \in RawFrame
  PROVE  HandleFrame(st, f) \in States
BY Decoded DEF HandleFrame

\* handleDRW takes the frames of a packet one after the other.
LEMMA HandlesInTurn ==
  ASSUME TypeOK, NEW k \in Packets, NEW frames, frames = ParseAudioFrames(stream[k])
  PROVE  \E after : /\ after[0] = Start
                    /\ \A n \in 1 .. Len(frames) :
                         after[n] = HandleFrame(after[n - 1], frames[n])
                    /\ HandleDRW(stream[k]) = after[Len(frames)]
<1> DEFINE m == Len(frames)
           step == [x \in States \X (1 .. m) |-> HandleFrame(x[1], frames[x[2]])]
           Eq(g) == g = [n \in 0 .. m |-> IF n = 0 THEN Start ELSE HandleFrame(g[n - 1], frames[n])]
           after == CHOOSE g : Eq(g)
<1>1. m \in Nat /\ \A n \in 1 .. m : frames[n] \in RawFrame
  BY Parsed
<1>2. Start \in States
  <2>1. <<>> \in Seq(Frame)
    OBVIOUS
  <2> QED BY <2>1 DEF Start, States, TypeOK
<1>3. \A st \in States, n \in 1 .. m :
        step[<<st, n>>] = HandleFrame(st, frames[n]) /\ HandleFrame(st, frames[n]) \in States
  <2> HIDE DEF m
  <2> QED BY <1>1, HandleFrameType
<1>4. PICK f \in [0 .. m -> States] : Steps(f, m, Start, step)
  <2>1. \A st \in States, n \in 1 .. m : step[<<st, n>>] \in States
    BY <1>3
  <2> HIDE DEF m, step
  <2> QED BY <1>1, <1>2, <2>1, LoopRuns
<1>5. Eq(f)
  <2>1. \A n \in 0 .. m : f[n] = IF n = 0 THEN Start ELSE HandleFrame(f[n - 1], frames[n])
    <3> SUFFICES ASSUME NEW n \in 0 .. m, n # 0 PROVE f[n] = HandleFrame(f[n - 1], frames[n])
      BY <1>4, StepsFrom
    <3> HIDE DEF m, step
    <3>1. n \in 1 .. m /\ f[n - 1] \in States
      BY <1>1
    <3>2. f[n] = step[<<f[n - 1], n>>]
      BY <1>1, <1>4, <3>1, StepsAt
    <3> QED BY <1>3, <3>1, <3>2
  <2> HIDE DEF m
  <2> QED BY <2>1
<1> HIDE DEF Eq
<1>6. Eq(after)
  BY <1>5
<1>7. HandleDRW(stream[k]) = after[m]
  BY DEF HandleDRW, Eq, Start
<1> HIDE DEF after, m
<1>8. after[0] = Start /\ \A n \in 1 .. m : after[n] = HandleFrame(after[n - 1], frames[n])
  BY <1>1, <1>6 DEF Eq
<1> QED BY <1>7, <1>8 DEF m
-----------------------------------------------------------------------------
(* The filter.                                                             *)

\* The newest media frame decoded once handleDRW is in state st.
Now(st) == IF st.out = <<>> THEN played ELSE st.out[Len(st.out)].number

\* After n frames of media packet k: the frames decoded are in order, newer than
\* any before, and decoded from a reset; the filter has the index of the newest;
\* and of a packet in its turn nothing newer has been left out.
Handled(st, k, n) ==
  /\ st \in States /\ Len(st.out) <= n
  /\ \A i \in 1 .. Len(st.out) :
       /\ st.out[i].number \in stream[k].first .. stream[k].first + n - 1
       /\ played < st.out[i].number /\ st.out[i].from = Reset
  /\ \A i, j \in 1 .. Len(st.out) : i < j => st.out[i].number < st.out[j].number
  /\ IF Now(st) = -1 THEN st.last = None ELSE st.last = Now(st) % IndexSpace
  /\ fifo /\ k = seen /\ n # 0 => stream[k].first + n - 1 <= Now(st)

Takes(k) == k > seen - Reach - 1 /\ k < seen + Reach

\* An old frame is not so old that its index looks new, and in its turn a frame is
\* not so far ahead that its index looks old.
LEMMA Near ==
  ASSUME IInv, NEW k \in Packets, Takes(k), IsMedia(stream, k),
         NEW number \in stream[k].first .. Newest(stream, k), played # -1
  PROVE  /\ played - number <= 3 * Reach
         /\ fifo /\ k = seen => number - played <= 3 * Reach
<1>1. /\ Reach \in Nat \ {0} /\ LastPacket \in Nat /\ seen \in 0 .. LastPacket + 1
      /\ played \in Nat /\ k \in 0 .. LastPacket
  BY SpaceAssumption DEF IInv, TypeOK, Packets
<1>2. /\ stream[k].first \in Nat /\ stream[k].count \in 1 .. 2
      /\ Newest(stream, k) = stream[k].first + stream[k].count - 1 /\ Numbered(stream)
  BY StreamType DEF IInv
<1>3. PICK j \in 0 .. seen - 1 :
        IsMedia(stream, j) /\ stream[j].first <= played /\ played <= Newest(stream, j)
  BY DEF IInv, Heard
<1>4. j \in Packets
  BY <1>1 DEF Packets
<1>5. /\ stream[j].first \in Nat /\ stream[j].count \in 1 .. 2
      /\ Newest(stream, j) = stream[j].first + stream[j].count - 1
  BY <1>3, <1>4, StreamType DEF IInv
<1>6. played - number <= 3 * Reach
  <2>1. CASE j = k
    BY <1>1, <1>2, <1>3, <2>1
  <2>2. CASE j < k
    <3>1. Newest(stream, j) <= Newest(stream, k)
      BY <1>2, <1>3, <1>4, <2>2 DEF Numbered
    <3> QED BY <1>1, <1>2, <1>3, <1>5, <3>1
  <2>3. CASE k < j
    <3>1. Newest(stream, j) - stream[k].first <= 2 * (j - k) + 1
      BY <1>2, <1>3, <1>4, <2>3 DEF Numbered
    <3>2. j - k <= Reach - 1
      BY <1>1, <1>3 DEF Takes
    <3> QED BY <1>1, <1>2, <1>3, <1>5, <3>1, <3>2
  <2> QED BY <1>1, <1>3, <2>1, <2>2, <2>3
<1>7. ASSUME fifo, k = seen PROVE number - played <= 3 * Reach
  <2>1. j < k
    BY <1>1, <1>3, <1>7
  <2>2. PICK i \in 0 .. k - 1 :
          IsMedia(stream, i) /\ stream[k].first - Newest(stream, i) <= 2 * Reach
    BY <1>2, <1>3, <1>4, <2>1 DEF Numbered
  <2>3. Newest(stream, i) <= played
    BY <1>7, <2>2 DEF IInv, NothingLeftOut
  <2>4. Newest(stream, i) \in Int
    <3>1. i \in Packets
      BY <1>1 DEF Packets
    <3> QED BY <2>2, <3>1, StreamType DEF IInv
  <2> QED BY <1>1, <1>2, <2>2, <2>3, <2>4
<1> QED BY <1>6, <1>7

\* One more frame.
LEMMA MediaFrame ==
  ASSUME IInv, NEW k \in Packets, Takes(k), IsMedia(stream, k),
         NEW n \in 0 .. stream[k].count - 1, NEW st, Handled(st, k, n),
         NEW f \in RawFrame, f.number = stream[k].first + n, f.reset
  PROVE  Handled(HandleFrame(st, f), k, n + 1)
<1> DEFINE first == stream[k].first
           new == HandleFrame(st, f)
           now == Now(st)
<1>1. /\ first \in Nat /\ stream[k].count \in 1 .. 2 /\ n \in Nat /\ played \in Nat \cup {-1}
      /\ Newest(stream, k) = first + stream[k].count - 1
      /\ Reach \in Nat \ {0}
  BY StreamType, SpaceAssumption DEF IInv, TypeOK
<1>2. st \in States /\ st.out \in Seq(Frame) /\ Len(st.out) \in Nat /\ Len(st.out) <= n
  BY DEF Handled, States
<1>3. f.number \in first .. Newest(stream, k) /\ f.number \in Nat /\ f.number # None
  BY <1>1, NoneAssumption
<1>4. /\ now \in Nat \cup {-1}
      /\ st.out = <<>> => now = played
      /\ st.out # <<>> => now \in first .. first + n - 1 /\ played < now
  <2>1. CASE st.out = <<>>
    BY <1>1, <2>1 DEF Now
  <2>2. CASE st.out # <<>>
    <3>1. Len(st.out) \in 1 .. Len(st.out)
      BY <1>2, <2>2
    <3>2. now = st.out[Len(st.out)].number
      BY <2>2 DEF Now
    <3> QED BY <1>1, <2>2, <3>1, <3>2 DEF Handled
  <2> QED BY <2>1, <2>2
<1> HIDE DEF first, now
<1>5. now # -1 => now - f.number <= 3 * Reach
  <2>1. CASE st.out = <<>>
    BY <1>3, <1>4, <2>1, Near DEF first
  <2>2. CASE st.out # <<>>
    BY <1>1, <1>3, <1>4, <2>2 DEF first
  <2> QED BY <2>1, <2>2
<1>6. fifo /\ k = seen /\ now # -1 => f.number - now <= 3 * Reach
  <2>1. CASE st.out = <<>>
    BY <1>3, <1>4, <2>1, Near DEF first
  <2>2. CASE st.out # <<>>
    BY <1>1, <1>3, <1>4, <2>2 DEF first
  <2> QED BY <2>1, <2>2
<1>7. st.last = IF now = -1 THEN None ELSE now % IndexSpace
  BY DEF Handled, now
<1>8. now # -1 => now % IndexSpace # None
  BY <1>4, IndexType, NoneAssumption
<1>9. CASE Skipped(st, f)
  <2>1. new = st
    BY <1>9 DEF HandleFrame
  <2>2. now # -1 /\ ~MediaIndexAfter(f.number % IndexSpace, now % IndexSpace)
    BY <1>7, <1>9 DEF Skipped
  <2>3. fifo /\ k = seen => f.number <= now
    <3> SUFFICES ASSUME fifo, k = seen, ~(f.number <= now) PROVE FALSE
      OBVIOUS
    <3>1. f.number - now \in -(3 * Reach) .. 3 * Reach /\ f.number > now
      BY <1>1, <1>3, <1>4, <1>6, <2>2
    <3> QED BY <1>3, <1>4, <2>2, <3>1, IndexTells
  <2>4. f.number = first + n
    BY DEF first
  <2> QED BY <1>1, <1>2, <2>1, <2>3, <2>4 DEF Handled, first, now
<1>10. CASE ~Skipped(st, f)
  <2>1. new = Decode(st, f)
    BY <1>10 DEF HandleFrame
  <2>2. PICK from : /\ from = Reset
                    /\ new.out = Append(st.out, [number |-> f.number, from |-> from])
    BY <1>2, <2>1, Decoded
  <2>3. new \in States /\ new.last = f.number % IndexSpace
    BY <1>2, <1>3, <2>1, Decoded
  <2>4. now < f.number
    <3>1. CASE now = -1
      BY <1>3, <3>1
    <3>2. CASE now # -1
      <4>1. MediaIndexAfter(f.number % IndexSpace, now % IndexSpace)
        BY <1>3, <1>7, <1>8, <1>10, <3>2 DEF Skipped
      <4> SUFFICES ASSUME ~(now < f.number) PROVE FALSE
        OBVIOUS
      <4>2. f.number - now \in -(3 * Reach) .. 3 * Reach /\ ~(f.number > now)
        BY <1>1, <1>3, <1>4, <1>5, <3>2
      <4> QED BY <1>3, <1>4, <3>2, <4>1, <4>2, IndexTells
    <3> QED BY <3>1, <3>2
  <2>5. /\ Len(new.out) = Len(st.out) + 1
        /\ \A i \in 1 .. Len(st.out) : new.out[i] = st.out[i]
        /\ new.out[Len(st.out) + 1] = [number |-> f.number, from |-> Reset]
    BY <1>2, <2>2
  <2>6. new.out # <<>> /\ Now(new) = f.number
    BY <1>2, <2>5 DEF Now
  <2> HIDE DEF new
  <2>7. \A i \in 1 .. Len(st.out) :
          st.out[i].number \in first .. first + n - 1 /\ played < st.out[i].number
          /\ st.out[i].from = Reset
    BY DEF Handled, first
  <2>8. played < f.number
    BY <1>1, <1>3, <1>4, <2>4
  <2>9. \A i \in 1 .. Len(st.out) + 1 :
          /\ new.out[i].number \in first .. first + n
          /\ played < new.out[i].number /\ new.out[i].from = Reset
    <3> SUFFICES ASSUME NEW i \in 1 .. Len(st.out) + 1
                 PROVE  /\ new.out[i].number \in first .. first + n
                        /\ played < new.out[i].number /\ new.out[i].from = Reset
      OBVIOUS
    <3>1. CASE i = Len(st.out) + 1
      BY <1>1, <1>3, <2>5, <2>8, <3>1 DEF first
    <3>2. CASE i # Len(st.out) + 1
      <4>1. i \in 1 .. Len(st.out)
        BY <1>2, <3>2
      <4>2. new.out[i] = st.out[i]
        BY <2>5, <4>1
      <4>3. /\ st.out[i].number \in first .. first + n - 1 /\ played < st.out[i].number
            /\ st.out[i].from = Reset
        BY <2>7, <4>1
      <4>4. first .. first + n - 1 \subseteq first .. first + n
        BY <1>1 DEF first
      <4> QED BY <4>2, <4>3, <4>4
    <3> QED BY <3>1, <3>2
  <2>10. \A i, j \in 1 .. Len(st.out) + 1 : i < j => new.out[i].number < new.out[j].number
    <3> SUFFICES ASSUME NEW i \in 1 .. Len(st.out) + 1, NEW j \in 1 .. Len(st.out) + 1, i < j
                 PROVE  new.out[i].number < new.out[j].number
      OBVIOUS
    <3>1. i \in 1 .. Len(st.out) /\ new.out[i] = st.out[i]
      BY <1>2, <2>5
    <3>2. CASE j = Len(st.out) + 1
      <4>1. st.out[i].number \in first .. first + n - 1 /\ new.out[j].number = f.number
        BY <2>5, <2>7, <3>1, <3>2
      <4> QED BY <1>1, <1>3, <3>1, <4>1 DEF first
    <3>3. CASE j # Len(st.out) + 1
      <4>1. j \in 1 .. Len(st.out) /\ new.out[j] = st.out[j]
        BY <1>2, <2>5, <3>3
      <4> QED BY <3>1, <4>1 DEF Handled
    <3> QED BY <3>2, <3>3
  <2>11. first + (n + 1) - 1 = f.number /\ first + n = first + (n + 1) - 1 /\ f.number # -1
    BY <1>1, <1>3 DEF first
  <2>12. Len(new.out) <= n + 1
    BY <1>2, <2>5
  <2>13. Handled(new, k, n + 1)
    BY <1>3, <2>3, <2>5, <2>6, <2>9, <2>10, <2>11, <2>12 DEF Handled, first
  <2> QED BY <2>13 DEF new
<1> QED BY <1>9, <1>10
\* The whole of a media packet.
LEMMA MediaPacket ==
  ASSUME IInv, NEW k \in Packets, Takes(k), IsMedia(stream, k)
  PROVE  Handled(HandleDRW(stream[k]), k, stream[k].count)
<1> DEFINE frames == ParseAudioFrames(stream[k])
           c == stream[k].count
<1>1. /\ stream[k].first \in Nat /\ c \in 1 .. 2 /\ Len(frames) = c
      /\ \A n \in 1 .. c : /\ frames[n] \in RawFrame /\ frames[n].reset
                           /\ frames[n].number = stream[k].first + n - 1
  BY StreamType, Parsed DEF IInv
<1>2. PICK after : /\ after[0] = Start
                   /\ \A n \in 1 .. Len(frames) :
                        after[n] = HandleFrame(after[n - 1], frames[n])
                   /\ HandleDRW(stream[k]) = after[Len(frames)]
  BY HandlesInTurn DEF IInv
<1> HIDE DEF frames
<1>3. Handled(after[0], k, 0)
  <2>1. Start \in States /\ Start.out = <<>> /\ Start.last = last /\ Len(Start.out) = 0
    <3>1. <<>> \in Seq(Frame)
      OBVIOUS
    <3> QED BY <3>1 DEF Start, States, IInv, TypeOK
  <2>2. Now(Start) = played /\ played \in Nat \cup {-1} /\ (played # -1 <=> last # None)
    BY <2>1 DEF Now, IInv, TypeOK
  <2>3. played # -1 => last = played % IndexSpace
    BY DEF IInv, Heard
  <2> QED BY <1>2, <2>1, <2>2, <2>3 DEF Handled
<1>4. ASSUME NEW n \in 0 .. c - 1, Handled(after[n], k, n)
      PROVE  Handled(after[n + 1], k, n + 1)
  <2>1. n + 1 \in 1 .. c /\ (n + 1) - 1 = n
    BY <1>1
  <2>2. after[n + 1] = HandleFrame(after[n], frames[n + 1])
    BY <1>1, <1>2, <2>1
  <2>3. /\ frames[n + 1] \in RawFrame /\ frames[n + 1].reset
        /\ frames[n + 1].number = stream[k].first + n
    BY <1>1, <2>1
  <2> QED BY <1>4, <2>2, <2>3, MediaFrame
<1>5. CASE c = 1
  <2>1. Handled(after[0 + 1], k, 0 + 1)
    BY <1>3, <1>4, <1>5
  <2> QED BY <1>1, <1>2, <1>5, <2>1
<1>6. CASE c = 2
  <2>1. Handled(after[0 + 1], k, 0 + 1)
    BY <1>3, <1>4, <1>6
  <2>2. Handled(after[1 + 1], k, 1 + 1)
    BY <1>4, <1>6, <2>1
  <2> QED BY <1>1, <1>2, <1>6, <2>2
<1> QED BY <1>1, <1>5, <1>6

\* A packet without numbers leaves the filter alone.
LEMMA OtherPacket ==
  ASSUME IInv, NEW k \in Packets, ~IsMedia(stream, k), NEW st, st = HandleDRW(stream[k])
  PROVE  /\ st \in States /\ st.last = last
         /\ Len(st.out) = 1 /\ st.out[1].number = None
<1> DEFINE frames == ParseAudioFrames(stream[k])
<1>1. Len(frames) = 1 /\ frames[1] \in RawFrame /\ frames[1].number = None
  BY Parsed DEF IInv
<1>2. PICK after : /\ after[0] = Start
                   /\ \A n \in 1 .. Len(frames) :
                        after[n] = HandleFrame(after[n - 1], frames[n])
                   /\ HandleDRW(stream[k]) = after[Len(frames)]
  BY HandlesInTurn DEF IInv
<1> HIDE DEF frames
<1>3. st = HandleFrame(Start, frames[1])
  BY <1>1, <1>2
<1>4. st = Decode(Start, frames[1])
  BY <1>1, <1>3 DEF HandleFrame, Skipped
<1>5. Start \in States /\ Start.out = <<>> /\ Start.last = last
  <2>1. <<>> \in Seq(Frame)
    OBVIOUS
  <2> QED BY <2>1 DEF Start, States, IInv, TypeOK
<1>6. st \in States /\ st.last = last
  BY <1>1, <1>4, <1>5, Decoded
<1>7. PICK from \in Decoders :
        Decode(Start, frames[1]).out =
          Append(Start.out, [number |-> frames[1].number, from |-> from])
  <2> PICK f \in RawFrame : f = frames[1]
    BY <1>1
  <2>1. \E from \in Decoders :
          Decode(Start, f).out = Append(Start.out, [number |-> f.number, from |-> from])
    BY <1>5, Decoded
  <2> QED BY <2>1
<1>8. st.out = <<[number |-> None, from |-> from]>>
  BY <1>1, <1>4, <1>5, <1>7
<1> QED BY <1>6, <1>8

-----------------------------------------------------------------------------
(* The steps.                                                              *)

LEMMA InitInv == Init => IInv
<1> SUFFICES ASSUME Init PROVE IInv
  OBVIOUS
<1>1. TypeOK
  <2>1. <<>> \in Seq(Frame) /\ Len(<<>>) = 0 /\ 0 \in 0 .. LastPacket + 1
    BY SpaceAssumption
  <2> QED BY <2>1, ResetType DEF Init, TypeOK
<1>2. DecodedFromReset /\ Heard
  BY DEF Init, DecodedFromReset, Heard
<1>3. NothingLeftOut
  BY DEF Init, NothingLeftOut
<1> QED BY <1>1, <1>2, <1>3 DEF IInv

\* The frames handed to OnAudio by a step, if it hands over any.
InOrderStep ==
  \A i, j \in DOMAIN out' :
    /\ out'[i].number # None => played < out'[i].number
    /\ i < j => out'[i].number < out'[j].number

LEMMA Before ==
  \A a, b \in Nat : a <= b =>
    /\ \A j \in 0 .. a - 1 : j \in 0 .. b - 1
    /\ \A k \in Nat : k < b => k \in 0 .. b - 1
OBVIOUS

\* What every packet leaves.
LEMMA PacketStep ==
  ASSUME IInv, NEW k \in Packets, Receive(k)
  PROVE  /\ seen' \in 0 .. LastPacket + 1 /\ fifo' \in BOOLEAN /\ stream' = stream
         /\ seen <= seen' /\ k < seen' /\ Takes(k)
         /\ fifo' => fifo /\ k = seen /\ seen' = k + 1
<1>1. seen \in 0 .. LastPacket + 1 /\ LastPacket \in Nat /\ k \in 0 .. LastPacket
  BY SpaceAssumption DEF IInv, TypeOK, Packets
<1>2. seen' = (IF k < seen THEN seen ELSE k + 1) /\ fifo' = (fifo /\ k = seen)
  BY DEF Receive
<1>3. stream' = stream /\ Takes(k)
  BY DEF Receive, Takes
<1>4. fifo' \in BOOLEAN /\ (fifo' => fifo /\ k = seen)
  BY <1>2, Zenon
<1>5. seen' \in 0 .. LastPacket + 1 /\ seen <= seen' /\ k < seen' /\ (k = seen => seen' = k + 1)
  BY <1>1, <1>2
<1> QED BY <1>3, <1>4, <1>5

LEMMA MediaStep ==
  ASSUME IInv, NEW k \in Packets, Receive(k), IsMedia(stream, k)
  PROVE  IInv' /\ InOrderStep
<1> DEFINE c == stream[k].count
           first == stream[k].first
<1>1. PICK st : st = HandleDRW(stream[k])
  OBVIOUS
<1>2. /\ last' = st.last /\ decoder' = st.decoder /\ out' = st.out
      /\ played' = Now(st)
  BY <1>1 DEF Receive, Now
<1>3. Takes(k) /\ stream' = stream /\ seen' \in 0 .. LastPacket + 1 /\ fifo' \in BOOLEAN
  BY PacketStep
<1>4. Handled(st, k, c)
  BY <1>1, <1>3, MediaPacket
<1>5. /\ c \in 1 .. 2 /\ first \in Nat /\ Newest(stream, k) = first + c - 1
      /\ played \in Nat \cup {-1}
  BY StreamType DEF IInv, TypeOK
<1>6. st \in States /\ Len(st.out) <= c
  BY <1>4 DEF Handled
<1>7. /\ last' \in (0 .. IndexSpace - 1) \cup {None} /\ decoder' \in Decoders
      /\ out' \in Seq(Frame) /\ Len(out') \in Nat /\ Len(out') <= 2
      /\ DOMAIN out' = 1 .. Len(out')
  BY <1>2, <1>5, <1>6 DEF States
<1>8. \A i \in DOMAIN out' : /\ out'[i].number \in first .. first + c - 1
                             /\ played < out'[i].number /\ out'[i].from = Reset
  BY <1>2, <1>4, <1>7 DEF Handled
<1>9. \A i, j \in DOMAIN out' : i < j => out'[i].number < out'[j].number
  BY <1>2, <1>4, <1>7 DEF Handled
<1>10. /\ out' = <<>> => played' = played
       /\ out' # <<>> => played' \in first .. first + c - 1 /\ played < played'
  <2>1. CASE out' = <<>>
    BY <1>2, <2>1 DEF Now
  <2>2. CASE out' # <<>>
    <3>1. Len(out') \in DOMAIN out' /\ played' = out'[Len(out')].number
      BY <1>2, <1>7, <2>2 DEF Now
    <3> QED BY <1>8, <2>2, <3>1
  <2> QED BY <2>1, <2>2
<1> HIDE DEF c, first
<1>11. played' \in Nat \cup {-1} /\ played <= played'
  BY <1>5, <1>10
<1>12. IF played' = -1 THEN last' = None ELSE last' = played' % IndexSpace
  BY <1>2, <1>4 DEF Handled
<1>13. last' # None <=> played' # -1
  BY <1>11, <1>12, IndexType, NoneAssumption
<1>14. TypeOK'
  BY <1>3, <1>7, <1>11, <1>13 DEF TypeOK, IInv
<1>15. DecodedFromReset'
  BY <1>8 DEF DecodedFromReset
<1>16. seen \in Nat /\ seen' \in Nat /\ k \in Nat /\ seen <= seen' /\ k < seen'
  BY <1>3, PacketStep, SpaceAssumption DEF IInv, TypeOK, Packets
<1>20. k \in 0 .. seen' - 1 /\ \A j \in 0 .. seen - 1 : j \in 0 .. seen' - 1
  BY <1>16, Before
<1>17. Heard'
  <2> SUFFICES ASSUME played' # -1
               PROVE  \E j \in 0 .. seen' - 1 : IsMedia(stream', j) /\ stream'[j].first <= played'
                                                /\ played' <= Newest(stream', j)
    BY <1>12 DEF Heard
  <2>1. CASE out' = <<>>
    <3>1. PICK j \in 0 .. seen - 1 :
            IsMedia(stream, j) /\ stream[j].first <= played /\ played <= Newest(stream, j)
      BY <1>10, <2>1 DEF IInv, Heard
    <3>2. j \in 0 .. seen' - 1
      BY <1>20
    <3> QED BY <1>3, <1>10, <2>1, <3>1, <3>2
  <2>2. CASE out' # <<>>
    <3>1. k \in 0 .. seen' - 1
      BY <1>20
    <3>2. first <= played' /\ played' <= Newest(stream, k)
      BY <1>5, <1>10, <2>2
    <3> QED BY <1>3, <3>1, <3>2 DEF first
  <2> QED BY <2>1, <2>2
<1>18. NothingLeftOut'
  <2> SUFFICES ASSUME fifo', NEW i \in 0 .. seen' - 1, IsMedia(stream', i)
               PROVE  Newest(stream', i) <= played'
    BY DEF NothingLeftOut
  <2>1. fifo /\ k = seen /\ seen' = k + 1
    BY PacketStep
  <2>2. CASE i = k
    <3>1. first + c - 1 <= played'
      BY <1>2, <1>4, <1>5, <2>1 DEF Handled, first
    <3> QED BY <1>3, <1>5, <2>2, <3>1
  <2>3. CASE i # k
    <3>1. i \in 0 .. seen - 1
      BY <1>16, <2>1, <2>3
    <3>2. Newest(stream, i) <= played
      BY <1>3, <2>1, <3>1 DEF IInv, NothingLeftOut
    <3>3. Newest(stream, i) \in Int
      <4>1. i \in Packets
        BY <1>3, <3>1, <1>16, SpaceAssumption DEF Packets, IInv, TypeOK
      <4> QED BY <1>3, <4>1, StreamType DEF IInv
    <3> QED BY <1>3, <1>5, <1>11, <3>2, <3>3
  <2> QED BY <2>2, <2>3
<1>19. InOrderStep
  BY <1>8, <1>9 DEF InOrderStep
<1> QED BY <1>14, <1>15, <1>17, <1>18, <1>19 DEF IInv

LEMMA OtherStep ==
  ASSUME IInv, NEW k \in Packets, Receive(k), ~IsMedia(stream, k)
  PROVE  IInv' /\ InOrderStep
<1>1. PICK st : st = HandleDRW(stream[k])
  OBVIOUS
<1>2. st \in States /\ st.last = last /\ Len(st.out) = 1 /\ st.out[1].number = None
  BY <1>1, OtherPacket
<1>3. last' = last /\ decoder' = st.decoder /\ out' = st.out /\ played' = played
  BY <1>1, <1>2 DEF Receive
<1>4. stream' = stream /\ seen' \in 0 .. LastPacket + 1 /\ fifo' \in BOOLEAN
  BY PacketStep
<1>5. out' \in Seq(Frame) /\ Len(out') = 1 /\ DOMAIN out' = {1} /\ out'[1].number = None
  BY <1>2, <1>3 DEF States
<1>6. TypeOK'
  <2>1. decoder' \in Decoders
    BY <1>2, <1>3 DEF States
  <2>2. /\ stream \in Streams /\ last \in (0 .. IndexSpace - 1) \cup {None}
        /\ played \in Nat \cup {-1} /\ (last # None <=> played # -1)
    BY DEF IInv, TypeOK
  <2> QED BY <1>3, <1>4, <1>5, <2>1, <2>2 DEF TypeOK
<1>7. DecodedFromReset' /\ InOrderStep
  BY <1>5 DEF DecodedFromReset, InOrderStep
<1>8. seen \in Nat /\ seen' \in Nat /\ k \in Nat /\ seen <= seen'
  BY <1>4, PacketStep, SpaceAssumption DEF IInv, TypeOK, Packets
<1>11. \A j \in 0 .. seen - 1 : j \in 0 .. seen' - 1
  BY <1>8, Before
<1>9. Heard'
  <2> SUFFICES ASSUME played' # -1 PROVE Heard'
    BY DEF Heard
  <2>1. PICK j \in 0 .. seen - 1 :
          IsMedia(stream, j) /\ stream[j].first <= played /\ played <= Newest(stream, j)
    BY <1>3 DEF IInv, Heard
  <2>2. j \in 0 .. seen' - 1
    BY <1>11
  <2>3. last = played % IndexSpace
    BY <1>3 DEF IInv, Heard
  <2> QED BY <1>3, <1>4, <2>1, <2>2, <2>3 DEF Heard
<1>10. NothingLeftOut'
  <2> SUFFICES ASSUME fifo', NEW i \in 0 .. seen' - 1, IsMedia(stream', i)
               PROVE  Newest(stream', i) <= played'
    BY DEF NothingLeftOut
  <2>1. fifo /\ k = seen /\ seen' = k + 1
    BY PacketStep
  <2>2. i # k
    BY <1>4
  <2>3. i \in 0 .. seen - 1
    BY <1>8, <2>1, <2>2
  <2> QED BY <1>3, <1>4, <2>1, <2>3 DEF IInv, NothingLeftOut
<1> QED BY <1>6, <1>7, <1>9, <1>10 DEF IInv

LEMMA StepInv ==
  ASSUME IInv, [Next]_vars
  PROVE  IInv' /\ (out' # out => InOrderStep)
<1>1. ASSUME NEW k \in Packets, Receive(k) PROVE IInv' /\ InOrderStep
  BY <1>1, MediaStep, OtherStep
<1>2. CASE UNCHANGED vars
  BY <1>2 DEF vars, IInv, TypeOK, DecodedFromReset, Heard, NothingLeftOut
<1> QED BY <1>1, <1>2 DEF Next, vars

THEOREM Invariant == Spec => []IInv
<1>1. IInv /\ [Next]_vars => IInv'
  BY StepInv
<1> QED BY <1>1, InitInv, PTL DEF Spec

\* The decoder's index stays in its table and its samples within 16 bits after any
\* sound, and a media frame is decoded from a reset, whatever went before it.
THEOREM TypesAndReset == Spec => []Inv
<1>1. IInv => Inv
  BY DEF IInv, Inv
<1> QED BY <1>1, Invariant, PTL

\* While the network keeps order, every media frame received has been decoded,
\* however long the stream and however often its indices wrap.
THEOREM Complete == Spec => []NothingLeftOut
<1>1. IInv => NothingLeftOut
  BY DEF IInv
<1> QED BY <1>1, Invariant, PTL

\* Sound is played in the order of its recording, and no frame twice.
THEOREM OrderedSound == Spec => InOrderOnce
<1>1. IInv /\ [Next]_vars =>
        [out' # out =>
           \A i, j \in DOMAIN out' :
             /\ out'[i].number # None => played < out'[i].number
             /\ i < j => out'[i].number < out'[j].number]_vars
  BY StepInv DEF InOrderStep
<1> QED BY <1>1, Invariant, PTL DEF Spec, InOrderOnce
=============================================================================
