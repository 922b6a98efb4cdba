------------------------ MODULE VideoAssemblyProofs ------------------------
(***************************************************************************)
(* Proofs that handleVideo never mixes frames, that what it hands on is as *)
(* long as announced or ends an image, that its state is well typed, and   *)
(* that on a network which keeps order it shows all frames, in order, once *)
(* each: for every index space, window, stream and reach with              *)
(* 2 * Reach + Window < IndexSpace.                                        *)
(***************************************************************************)
EXTENDS VideoAssembly, SequenceTheorems, FiniteSetTheorems, TLAPS

LEMMA Division ==
  ASSUME NEW k \in Nat
  PROVE  /\ k % IndexSpace \in 0..(IndexSpace - 1) /\ k \div IndexSpace \in Int
         /\ k = IndexSpace * (k \div IndexSpace) + (k % IndexSpace)
BY SpaceAssumption

\* indexDistance of two wire indices is the true distance, or that distance
\* counted round the index space, as long as it is shorter than the space.
LEMMA TrueDistance ==
  ASSUME NEW s \in Nat, NEW k \in Nat, k - s < IndexSpace, s - k < IndexSpace
  PROVE  Distance(s % IndexSpace, k % IndexSpace) =
           IF s <= k THEN k - s ELSE IndexSpace + k - s
<1> DEFINE M  == IndexSpace
           rk == k % M
           rs == s % M
           qk == k \div M
           qs == s \div M
           d  == IF s <= k THEN k - s ELSE M + k - s
           q  == IF s <= k THEN qs - qk + 1 ELSE qs - qk
<1>1. rk \in 0..(M - 1) /\ rs \in 0..(M - 1) /\ qk \in Int /\ qs \in Int
  BY Division
<1>2. k = M * qk + rk /\ s = M * qs + rs
  BY Division
<1>3. M \in Nat \ {0}
  BY SpaceAssumption
<1> HIDE DEF M, rk, rs, qk, qs
<1>4. d \in 0..(M - 1) /\ q \in Int
  BY <1>1, <1>3 DEF M
<1>5. rk - rs + M = M * q + d
  BY <1>1, <1>2, <1>3
<1> HIDE DEF d, q
<1>6. (M * q + d) % M = d
  BY <1>3, <1>4
<1>7. (rk - rs + M) % M = d
  BY <1>5, <1>6
<1> QED BY <1>7 DEF d, rk, rs, M, Distance

-----------------------------------------------------------------------------
\* The chunks a holds are chunks of the frame that starts at s.
Holds(a, s) ==
  /\ s \in Chunks /\ IsStart(s)
  /\ a \in Frame
  /\ a.startIndex = s % IndexSpace
  /\ a.expected \in Nat \ {0} /\ a.expected = stream[s].expected
  /\ 0 \in DOMAIN a.chunks
  /\ \A i \in DOMAIN a.chunks : /\ i \in 0..Window
                                /\ s + i \in Chunks
                                /\ a.chunks[i] = s + i
                                /\ IsStart(s + i) <=> i = 0

\* The newest packet is not far from a start that is still being assembled,
\* since one further than Window would have ended the assembly.
Near(s) == s < seen /\ (seen - s <= Reach \/ seen - s <= Window + 1)

AsmInv == asm # NoFrame => \E s \in Chunks : Holds(asm, s) /\ Near(s)

Unmixed(f) == \A i \in DOMAIN f : /\ f[i] = f[1] + i - 1
                                  /\ IsStart(f[i]) <=> i = 1

\* As long as announced, or up to an end of image.
Whole(f) ==
  /\ f \in Seq(Chunks) /\ Len(f) > 0
  /\ Len(f) = stream[f[1]].expected \/ stream[f[Len(f)]].eoi

OutInv == out = <<>> \/ (Unmixed(out) /\ Whole(out))

Inv ==
  /\ stream \in Streams /\ seen \in Nat /\ fifo \in BOOLEAN /\ shown \in Int
  /\ AsmInv /\ OutInv

\* buildVideoFrame takes the first chunks of an assembly, as many as announced
\* or up to an end of image.
Cut(a, f, n) ==
  /\ f = Prefix(a, n)
  /\ \A i \in 0..(n - 1) : i \in DOMAIN a.chunks
  /\ n = a.expected \/ stream[a.chunks[n - 1]].eoi

LEMMA BuildPrefix ==
  ASSUME NEW a, NEW s \in Chunks, Holds(a, s), NEW b \in BOOLEAN, NEW f \in Build(a, b)
  PROVE  \E n \in Nat \ {0} : Cut(a, f, n)
<1>1. CASE Complete(a)
  <2>1. f = Prefix(a, a.expected)
    BY <1>1 DEF Build
  <2>2. a.expected \in Nat \ {0}
    BY DEF Holds
  <2> QED BY <1>1, <2>1, <2>2 DEF Complete, Cut
<1>2. CASE ~Complete(a)
  <2>1. NoGap(a)
    BY <1>2 DEF Build
  <2>2. PICK i \in LastEoi(a) : f = Prefix(a, i + 1)
    BY <1>2 DEF Build
  <2>3. i \in DOMAIN a.chunks /\ i \in 0..Window /\ stream[a.chunks[i]].eoi
    BY DEF LastEoi, Holds
  <2>4. \A j \in 0..i : j \in DOMAIN a.chunks
    BY <2>1, <2>3, SpaceAssumption DEF NoGap
  <2>5. i + 1 \in Nat \ {0} /\ (i + 1) - 1 = i
    BY <2>3, SpaceAssumption
  <2>6. Cut(a, f, i + 1)
    BY <2>2, <2>3, <2>4, <2>5 DEF Cut
  <2> QED BY <2>5, <2>6
<1> QED BY <1>1, <1>2

\* It makes an unmixed frame of an assembly that holds one.
LEMMA BuildUnmixed ==
  ASSUME NEW a, NEW s \in Chunks, Holds(a, s), NEW b \in BOOLEAN, NEW f \in Build(a, b)
  PROVE  Unmixed(f)
<1>1. PICK n \in Nat \ {0} : Cut(a, f, n)
  BY BuildPrefix, Zenon
<1>2. f = Prefix(a, n) /\ \A i \in 0..(n - 1) : i \in DOMAIN a.chunks
  BY <1>1 DEF Cut
<1>3. DOMAIN f = 1..n
  BY <1>2 DEF Prefix
<1>4. \A i \in 1..n : f[i] = s + (i - 1) /\ (IsStart(f[i]) <=> i = 1)
  <2> SUFFICES ASSUME NEW i \in 1..n
               PROVE  f[i] = s + (i - 1) /\ (IsStart(f[i]) <=> i = 1)
    OBVIOUS
  <2>1. i - 1 \in DOMAIN a.chunks
    BY <1>2
  <2>2. f[i] = a.chunks[i - 1]
    BY <1>2 DEF Prefix
  <2>3. /\ a.chunks[i - 1] = s + (i - 1)
        /\ IsStart(s + (i - 1)) <=> i - 1 = 0
    BY <2>1 DEF Holds
  <2>4. i - 1 = 0 <=> i = 1
    OBVIOUS
  <2> QED BY <2>2, <2>3, <2>4
<1>5. f[1] = s
  BY <1>4 DEF Chunks
<1>6. \A i \in 1..n : s + (i - 1) = s + i - 1
  BY DEF Chunks
<1> QED BY <1>3, <1>4, <1>5, <1>6 DEF Unmixed

\* And a whole one.
LEMMA BuildWhole ==
  ASSUME NEW a, NEW s \in Chunks, Holds(a, s), NEW b \in BOOLEAN, NEW f \in Build(a, b)
  PROVE  Whole(f)
<1>1. PICK n \in Nat \ {0} : Cut(a, f, n)
  BY BuildPrefix, Zenon
<1>2. \A i \in 1..n : f[i] = a.chunks[i - 1] /\ f[i] \in Chunks
  <2> SUFFICES ASSUME NEW i \in 1..n PROVE f[i] = a.chunks[i - 1] /\ f[i] \in Chunks
    OBVIOUS
  <2>1. i - 1 \in DOMAIN a.chunks /\ f = Prefix(a, n)
    BY <1>1 DEF Cut
  <2> QED BY <2>1 DEF Prefix, Holds
<1>3. f = [i \in 1..n |-> f[i]]
  BY <1>1 DEF Cut, Prefix
<1>4. f \in Seq(Chunks) /\ Len(f) = n
  BY <1>2, <1>3
<1>5. f[1] = s /\ f[n] = a.chunks[n - 1]
  <2>1. s + 0 = s
    BY DEF Chunks
  <2> QED BY <1>2, <2>1 DEF Holds
<1> QED BY <1>1, <1>4, <1>5 DEF Cut, Whole, Holds

-----------------------------------------------------------------------------
\* A fresh assembly holds the frame of its start.
LEMMA FreshHolds ==
  ASSUME NEW k \in Chunks, IsStart(k), stream \in Streams, stream[k].expected > 0
  PROVE  Holds(Assembly(k, [i \in {0} |-> k]), k)
<1>1. stream[k].expected \in Nat \ {0}
  BY StreamsAssumption DEF Chunk
<1>2. k + 0 = k /\ 0 \in 0..Window
  BY SpaceAssumption DEF Chunks
<1>3. Assembly(k, [i \in {0} |-> k]) \in Frame
  <2>1. [i \in {0} |-> k] \in UNION {[slots -> Chunks] : slots \in SUBSET (0..Window)}
    <3>1. [i \in {0} |-> k] \in [{0} -> Chunks] /\ {0} \in SUBSET (0..Window)
      BY <1>2
    <3> QED BY <3>1
  <2>2. k % IndexSpace \in 0..(IndexSpace - 1)
    BY Division DEF Chunks
  <2> QED BY <1>1, <2>1, <2>2 DEF Frame, Assembly
<1> QED BY <1>1, <1>2, <1>3 DEF Holds, Assembly

\* A packet that falls in the window of a start it is near to has the number
\* that its slot says.
LEMMA SlotIsTrue ==
  ASSUME NEW s \in Chunks, NEW k \in Chunks, NEW a, Near(s), seen \in Nat,
         a.startIndex = s % IndexSpace,
         k > seen - Reach - 1, k < seen + Reach, Slot(a, k) <= Window
  PROVE  s <= k /\ Slot(a, k) = k - s
<1>1. s \in Nat /\ k \in Nat
  BY DEF Chunks
<1>2. /\ IndexSpace \in Nat /\ Window \in Nat /\ Reach \in Nat \ {0}
      /\ 2 * Reach + Window < IndexSpace
  BY SpaceAssumption
<1>3. k - s < IndexSpace /\ s - k < IndexSpace /\ (s - k <= Reach)
  BY <1>1, <1>2 DEF Near
<1>4. Slot(a, k) = IF s <= k THEN k - s ELSE IndexSpace + k - s
  BY <1>1, <1>3, TrueDistance DEF Slot
<1>5. CASE s <= k
  BY <1>4, <1>5
<1>6. CASE ~(s <= k)
  <2>1. Slot(a, k) = IndexSpace + k - s
    BY <1>4, <1>6
  <2> QED BY <1>1, <1>2, <1>3, <2>1
<1> QED BY <1>5, <1>6

\* A chunk put in its slot keeps an assembly to one frame.
LEMMA GrownHolds ==
  ASSUME NEW a, NEW s \in Chunks, NEW k \in Chunks, NEW i \in 0..Window,
         Holds(a, s), ~IsStart(k), s <= k, i = k - s
  PROVE  Holds([a EXCEPT !.chunks =
                 [j \in DOMAIN a.chunks \cup {i} |->
                    IF j \in DOMAIN a.chunks THEN a.chunks[j] ELSE k]], s)
<1> DEFINE c == [j \in DOMAIN a.chunks \cup {i} |->
                   IF j \in DOMAIN a.chunks THEN a.chunks[j] ELSE k]
           b == [a EXCEPT !.chunks = c]
<1>1. /\ b.startIndex = s % IndexSpace /\ b.chunks = c
      /\ b.expected \in Nat \ {0} /\ b.expected = stream[s].expected
  BY DEF Holds, Frame
<1>2. s + i = k /\ s \in Int /\ i \in Int
  BY DEF Chunks
<1>3. i # 0
  BY <1>2 DEF Holds
<1>4. \A j \in DOMAIN c : /\ j \in 0..Window
                          /\ s + j \in Chunks
                          /\ c[j] = s + j
                          /\ IsStart(s + j) <=> j = 0
  <2> SUFFICES ASSUME NEW j \in DOMAIN c
               PROVE  /\ j \in 0..Window
                      /\ s + j \in Chunks
                      /\ c[j] = s + j
                      /\ IsStart(s + j) <=> j = 0
    OBVIOUS
  <2>1. CASE j \in DOMAIN a.chunks
    BY <2>1 DEF Holds
  <2>2. CASE j \notin DOMAIN a.chunks
    BY <2>2, <1>2, <1>3
  <2> QED BY <2>1, <2>2
<1>5. 0 \in DOMAIN c
  BY DEF Holds
<1>6. IsStart(s)
  BY DEF Holds
<1>7. b \in Frame
  <2>1. c \in [DOMAIN a.chunks \cup {i} -> Chunks]
    BY <1>4
  <2>2. DOMAIN a.chunks \cup {i} \in SUBSET (0..Window)
    BY DEF Holds
  <2>3. c \in UNION {[slots -> Chunks] : slots \in SUBSET (0..Window)}
    <3> HIDE DEF c
    <3> QED BY <2>1, <2>2
  <2> HIDE DEF c
  <2> QED BY <2>3 DEF Frame, Holds
<1> HIDE DEF b, c
<1>8. Holds(b, s)
  BY <1>1, <1>4, <1>5, <1>6, <1>7 DEF Holds
<1> QED BY <1>8 DEF b, c

-----------------------------------------------------------------------------
LEMMA InitInv == Init => Inv
BY DEF Init, Inv, AsmInv, OutInv

Good(f) == Unmixed(f) /\ Whole(f)

LEMMA BuildGood ==
  ASSUME NEW a, NEW s \in Chunks, Holds(a, s), NEW b \in BOOLEAN
  PROVE  \A f \in Build(a, b) : Good(f)
BY BuildUnmixed, BuildWhole, Zenon DEF Good

LEMMA PreviousGood ==
  ASSUME AsmInv
  PROVE  \A f \in Previous : Good(f)
<1>1. CASE asm = NoFrame
  BY <1>1 DEF Previous
<1>2. CASE asm # NoFrame
  <2>1. PICK s \in Chunks : Holds(asm, s)
    BY <1>2 DEF AsmInv
  <2>2. \A f \in Build(asm, TRUE) : Good(f)
    BY <2>1, BuildGood, Zenon
  <2> QED BY <1>2, <2>2 DEF Previous
<1> QED BY <1>1, <1>2

\* What handleVideo returns of good frames is nothing or a good frame.
LEMMA EmitGood ==
  ASSUME NEW frames, \A f \in frames : Good(f), Emit(frames), shown \in Int
  PROVE  (out' = <<>> \/ Good(out')) /\ shown' \in Int
<1>1. CASE frames = {} /\ out' = <<>> /\ UNCHANGED shown
  BY <1>1
<1>2. CASE \E f \in frames : out' = f /\ shown' = f[1]
  <2>1. PICK f \in frames : out' = f /\ shown' = f[1]
    BY <1>2
  <2>2. f \in Seq(Chunks) /\ Len(f) > 0 /\ Good(f)
    BY DEF Good, Whole
  <2>3. f[1] \in Chunks
    BY <2>2
  <2>4. f[1] \in Int
    BY <2>3 DEF Chunks
  <2> QED BY <2>1, <2>2, <2>4
<1> QED BY <1>1, <1>2 DEF Emit

\* Every way through handleVideo leaves an assembly of one frame, or none, and
\* hands on a good frame, or none.
LEMMA ReceiveInv ==
  ASSUME Inv, NEW k \in Chunks, Receive(k)
  PROVE  Inv'
<1> USE DEF Inv
<1>1. /\ stream' = stream /\ seen' = IF k < seen THEN seen ELSE k + 1
      /\ k > seen - Reach - 1 /\ k < seen + Reach
  BY DEF Receive
<1>2. stream' \in Streams /\ seen' \in Nat /\ k < seen'
  BY <1>1 DEF Chunks
<1>3. fifo' \in BOOLEAN
  BY DEF Receive
<1>4. \A f \in Previous : Good(f)
  BY PreviousGood
<1>5. ASSUME NEW s \in Chunks, Near(s), k - s <= Window \/ k < s \/ k < seen PROVE Near(s)'
  BY <1>1, <1>5, SpaceAssumption DEF Near, Chunks
<1>6. ASSUME NEW a, NEW s \in Chunks, Holds(a, s) PROVE Holds(a, s)'
  BY <1>1, <1>6 DEF Holds, IsStart
<1>7. SUFFICES AsmInv' /\ (out' = <<>> \/ Good(out')) /\ shown' \in Int
  <2>1. ASSUME Good(out') PROVE Unmixed(out)' /\ Whole(out)'
    BY <1>1, <2>1 DEF Good, Unmixed, Whole, IsStart
  <2> QED BY <1>2, <1>3, <2>1 DEF OutInv
<1>8. CASE BadStart(k)
  <2>1. Emit(Previous) /\ asm' = NoFrame
    BY <1>8 DEF BadStart
  <2> QED BY <1>4, <2>1, EmitGood DEF AsmInv
<1>9. CASE GoodStart(k)
  <2> DEFINE new == Assembly(k, [i \in {0} |-> k])
  <2>1. IsStart(k) /\ stream[k].expected > 0
    BY <1>9 DEF GoodStart
  <2>2. Holds(new, k)
    BY <2>1, FreshHolds
  <2> HIDE DEF new
  <2>3. \A f \in Build(new, FALSE) : Good(f)
    BY <2>2, BuildGood, Zenon
  <2>4. /\ asm' = new \/ asm' = NoFrame
        /\ Emit(Previous) \/ Emit(Build(new, FALSE)) \/ Emit({})
    BY <1>9 DEF GoodStart, new
  <2>5. (out' = <<>> \/ Good(out')) /\ shown' \in Int
    BY <1>4, <2>3, <2>4, EmitGood
  <2>6. Near(k)'
    BY <1>1, <1>2, SpaceAssumption DEF Near, Chunks
  <2>7. AsmInv'
    BY <1>6, <2>2, <2>4, <2>6 DEF AsmInv, Chunks
  <2> QED BY <2>5, <2>7
<1>10. CASE Stray(k)
  <2>1. Emit({}) /\ asm' = NoFrame
    BY <1>10 DEF Stray
  <2> QED BY <2>1, EmitGood DEF AsmInv
<1>11. CASE OutOfWindow(k)
  <2>1. asm # NoFrame /\ Emit(Build(asm, TRUE)) /\ asm' = NoFrame
    BY <1>11 DEF OutOfWindow
  <2>2. PICK s \in Chunks : Holds(asm, s)
    BY <2>1 DEF AsmInv
  <2>3. \A f \in Build(asm, TRUE) : Good(f)
    BY <2>2, BuildGood, Zenon
  <2> QED BY <2>1, <2>3, EmitGood DEF AsmInv
<1>12. CASE InWindow(k)
  <2> DEFINE i   == Slot(asm, k)
             new == [asm EXCEPT !.chunks =
                      [j \in DOMAIN asm.chunks \cup {i} |->
                         IF j \in DOMAIN asm.chunks THEN asm.chunks[j] ELSE k]]
  <2>1. /\ ~IsStart(k) /\ asm # NoFrame /\ i <= Window
        /\ Emit(Build(new, FALSE))
        /\ asm' = new \/ asm' = NoFrame
    BY <1>12 DEF InWindow
  <2>2. PICK s \in Chunks : Holds(asm, s) /\ Near(s)
    BY <2>1 DEF AsmInv
  <2>3. asm.startIndex = s % IndexSpace
    BY <2>2 DEF Holds
  <2>4. s <= k /\ i = k - s
    BY <1>1, <2>1, <2>2, <2>3, SlotIsTrue
  <2>5. i \in 0..Window
    BY <2>1, <2>4, SpaceAssumption DEF Chunks
  <2>6. Holds(new, s)
    BY <2>1, <2>2, <2>4, <2>5, GrownHolds
  <2>7. Near(s)'
    BY <1>5, <2>1, <2>2, <2>4
  <2> HIDE DEF new
  <2>8. \A f \in Build(new, FALSE) : Good(f)
    BY <2>6, BuildGood, Zenon
  <2>9. AsmInv'
    BY <1>6, <2>1, <2>6, <2>7 DEF AsmInv, Chunks
  <2> QED BY <2>1, <2>8, <2>9, EmitGood
<1> QED BY <1>8, <1>9, <1>10, <1>11, <1>12 DEF Receive, HandleVideo

LEMMA StepInv == Inv /\ [Next]_vars => Inv'
<1>1. ASSUME Inv, NEW k \in Chunks, Receive(k) PROVE Inv'
  BY <1>1, ReceiveInv
<1>2. ASSUME Inv, UNCHANGED vars PROVE Inv'
  BY <1>2 DEF vars, Inv, AsmInv, OutInv, Unmixed, Whole, Holds, Near, IsStart
<1> QED BY <1>1, <1>2 DEF Next

LEMMA InvMeans == Inv => NoMixing /\ FrameWhole /\ TypeOK
<1> SUFFICES ASSUME Inv PROVE NoMixing /\ FrameWhole /\ TypeOK
  OBVIOUS
<1>1. NoMixing
  BY DEF Inv, OutInv, NoMixing, Unmixed
<1>2. FrameWhole
  BY DEF Inv, OutInv, FrameWhole, Whole
<1>3. TypeOK
  <2>1. out = <<>> \/ out \in Seq(Chunks)
    BY DEF Inv, OutInv, Whole
  <2>2. asm \in Frame \cup {NoFrame}
    BY DEF Inv, AsmInv, Holds
  <2>3. out \in Seq(Chunks)
    BY <2>1, EmptySeq
  <2> QED BY <2>2, <2>3 DEF Inv, TypeOK
<1> QED BY <1>1, <1>2, <1>3

-----------------------------------------------------------------------------
(* A network that keeps order.                                             *)

\* A set of numbers has a least one.
LEMMA FirstOf ==
  ASSUME NEW S \in SUBSET Nat, S # {}
  PROVE  \E m \in S : \A j \in S : m <= j
<1> DEFINE F == {0 .. k : k \in S}
<1>1. F \subseteq FiniteSubsetsOf(Nat)
  <2> SUFFICES ASSUME NEW k \in S PROVE 0 .. k \in FiniteSubsetsOf(Nat)
    OBVIOUS
  <2>1. IsFiniteSet(0 .. k)
    BY FS_Interval
  <2>2. 0 .. k \in SUBSET Nat
    OBVIOUS
  <2> QED BY <2>1, <2>2 DEF FiniteSubsetsOf
<1>2. F # {}
  OBVIOUS
<1>3. PICK T \in F : \A U \in F : ~(<<U, T>> \in StrictSubsetOrdering(Nat))
  <2> HIDE DEF F
  <2> QED BY <1>1, <1>2, FS_StrictSubsetOrderingWellFounded, WFMin
<1>4. PICK m \in S : T = 0 .. m
  OBVIOUS
<1>5. ASSUME NEW j \in S, ~(m <= j) PROVE FALSE
  <2>1. m \in T /\ m \notin 0 .. j /\ 0 .. j \subseteq T /\ T \subseteq Nat
    BY <1>4, <1>5
  <2>2. <<0 .. j, T>> \in StrictSubsetOrdering(Nat)
    BY <2>1 DEF StrictSubsetOrdering
  <2> QED BY <1>3, <2>2
<1> QED BY <1>5

\* The frame that starts at s ends at e.
Ends(s, e) ==
  /\ e \in s .. LastChunk
  /\ \A j \in (s + 1) .. e : ~IsStart(j)
  /\ e = LastChunk \/ IsStart(e + 1)

LEMMA FrameEnds ==
  ASSUME NEW s \in Chunks
  PROVE  Ends(s, FrameEnd(s))
<1> DEFINE S == {e \in s .. LastChunk : e = LastChunk \/ IsStart(e + 1)}
<1>1. S \in SUBSET Nat /\ LastChunk \in S
  BY ChunksAssumption DEF Chunks
<1>2. PICK e \in S : \A j \in S : e <= j
  <2> HIDE DEF S
  <2> QED BY <1>1, FirstOf
<1>3. ASSUME NEW j \in (s + 1) .. e, IsStart(j) PROVE FALSE
  <2>1. j - 1 \in s .. LastChunk /\ (j - 1) + 1 = j /\ j - 1 < e
    BY <1>3, ChunksAssumption DEF Chunks
  <2> QED BY <1>2, <1>3, <2>1
<1>4. Ends(s, e)
  BY <1>2, <1>3 DEF Ends
<1>5. FrameEnd(s) = CHOOSE x \in s .. LastChunk :
                      /\ \A j \in (s + 1) .. x : ~IsStart(j)
                      /\ x = LastChunk \/ IsStart(x + 1)
  BY DEF FrameEnd
<1> QED BY <1>4, <1>5 DEF Ends

\* Of a frame with no other start before k the end is known when k comes.
LEMMA EndIsNear ==
  ASSUME NEW s \in Chunks, NEW k \in Chunks, s < k,
         \A j \in Chunks : s < j /\ j < k => ~IsStart(j)
  PROVE  IF IsStart(k) THEN FrameEnd(s) = k - 1 ELSE k <= FrameEnd(s)
<1> DEFINE e == FrameEnd(s)
<1>1. Ends(s, e)
  BY FrameEnds
<1> HIDE DEF e
<1>2. e \in Int /\ s <= e /\ e <= LastChunk /\ e + 1 \in Int /\ s \in Int /\ k \in Int
  BY <1>1, ChunksAssumption DEF Ends, Chunks
<1>3. ASSUME e < k - 1 PROVE FALSE
  <2>1. e + 1 \in Chunks /\ s < e + 1 /\ e + 1 < k /\ e # LastChunk
    BY <1>2, <1>3, ChunksAssumption DEF Chunks
  <2> QED BY <1>1, <2>1 DEF Ends
<1>4. ASSUME IsStart(k), k <= e PROVE FALSE
  <2>1. k \in (s + 1) .. e
    BY <1>2, <1>4
  <2> QED BY <1>1, <1>4, <2>1 DEF Ends
<1>5. ASSUME ~IsStart(k), e = k - 1 PROVE FALSE
  <2>1. e # LastChunk /\ e + 1 = k
    BY <1>2, <1>5, ChunksAssumption DEF Chunks
  <2> QED BY <1>1, <1>5, <2>1 DEF Ends
<1>6. ~(e < k - 1) /\ (IsStart(k) => ~(k <= e)) /\ (~IsStart(k) => e # k - 1)
  BY <1>3, <1>4, <1>5
<1> QED BY <1>2, <1>6 DEF e

-----------------------------------------------------------------------------
\* Nothing before n is still to be shown, and nothing from n on has been.
AllShown(n) ==
  /\ shown < n
  /\ \A t \in Chunks : t < n /\ Showable(t) => t <= shown

\* The assembly has all chunks from s to the newest one.
Open(s) ==
  /\ Holds(asm, s) /\ Near(s)
  /\ DOMAIN asm.chunks = 0 .. seen - 1 - s

\* On a network that keeps order, all up to the open frame, if there is one, has
\* been shown.
InOrder ==
  fifo => IF asm = NoFrame THEN AllShown(seen)
          ELSE \E s \in Chunks : Open(s) /\ AllShown(s)

\* What is shown next is new, and nothing showable before it is passed over.
Advance ==
  /\ out' # <<>> => shown < shown'
  /\ \/ shown' = shown
     \/ \A s \in Chunks : Showable(s) /\ shown < s => shown' <= s

LEMMA BuildFirst ==
  ASSUME NEW a, NEW s \in Chunks, Holds(a, s), NEW b \in BOOLEAN
  PROVE  \A f \in Build(a, b) : f[1] = s
<1> SUFFICES ASSUME NEW f \in Build(a, b) PROVE f[1] = s
  OBVIOUS
<1>1. PICK n \in Nat \ {0} : Cut(a, f, n)
  BY BuildPrefix, Zenon
<1>2. f[1] = a.chunks[0]
  BY <1>1 DEF Cut, Prefix
<1> QED BY <1>2 DEF Holds, Chunks

\* Between the start of the open frame and the next packet no frame starts.
LEMMA NoStartInside ==
  ASSUME NEW s \in Chunks, Open(s), seen \in Nat
  PROVE  \A j \in Chunks : s < j /\ j < seen => ~IsStart(j)
<1> SUFFICES ASSUME NEW j \in Chunks, s < j, j < seen PROVE ~IsStart(j)
  OBVIOUS
<1>1. j - s \in 0 .. seen - 1 - s /\ s + (j - s) = j /\ j - s # 0
  BY DEF Chunks
<1> QED BY <1>1 DEF Open, Holds

\* Of the frame before it a start makes itself, or it is one that cannot be shown.
LEMMA PreviousShown ==
  ASSUME NEW s \in Chunks, Open(s), seen \in Chunks, IsStart(seen), asm # NoFrame
  PROVE  /\ \A f \in Previous : f[1] = s
         /\ Previous = {} => ~Showable(s)
<1>1. Previous = Build(asm, TRUE)
  BY DEF Previous
<1>2. \A f \in Previous : f[1] = s
  BY <1>1, BuildFirst DEF Open
<1>3. ASSUME Previous = {}, Showable(s) PROVE FALSE
  <2> DEFINE i == seen - 1 - s
  <2>1. s < seen /\ s \in Nat /\ seen \in Nat
    BY DEF Open, Near, Chunks
  <2>2. FrameEnd(s) = seen - 1
    BY <2>1, EndIsNear, NoStartInside
  <2>3. NoGap(asm)
    BY <2>1 DEF Open, NoGap
  <2>4. ~Complete(asm) /\ LastEoi(asm) = {}
    BY <1>1, <1>3, <2>3 DEF Build
  <2>5. i \in DOMAIN asm.chunks /\ asm.chunks[i] = seen - 1
    <3>1. i \in DOMAIN asm.chunks
      BY <2>1 DEF Open
    <3> QED BY <2>1, <3>1 DEF Open, Holds
  <2>6. \A j \in DOMAIN asm.chunks : ~(j > i)
    BY <2>1 DEF Open
  <2>7. ~stream[seen - 1].eoi
    <3> SUFFICES ASSUME stream[seen - 1].eoi PROVE FALSE
      OBVIOUS
    <3>1. i \in LastEoi(asm)
      BY <2>5, <2>6 DEF LastEoi
    <3> QED BY <2>4, <3>1
  <2>8. stream[s].expected <= seen - s
    BY <1>3, <2>1, <2>2, <2>7 DEF Showable
  <2>9. asm.expected \in Nat /\ asm.expected <= seen - s
    BY <2>8 DEF Open, Holds
  <2>10. Complete(asm)
    BY <2>1, <2>9 DEF Complete, Open
  <2> QED BY <2>4, <2>10
<1> QED BY <1>2, <1>3

\* handleVideo hands on nothing, or a frame that starts where all of its choices do.
LEMMA EmitFirst ==
  ASSUME NEW frames, NEW s, Emit(frames), \A f \in frames : f[1] = s
  PROVE  \/ frames = {} /\ out' = <<>> /\ shown' = shown
         \/ frames # {} /\ shown' = s
BY DEF Emit

-----------------------------------------------------------------------------
LEMMA ShowableStays ==
  ASSUME stream' = stream, NEW s \in Chunks
  PROVE  Showable(s)' <=> Showable(s)
<1>1. FrameEnd(s)' = FrameEnd(s)
  BY DEF FrameEnd, IsStart
<1> QED BY <1>1 DEF Showable, IsStart

\* AllShown of the state after a step.
NextShown(n) ==
  /\ shown' < n
  /\ \A t \in Chunks : t < n /\ Showable(t) => t <= shown'

LEMMA ClosedLater ==
  ASSUME stream' = stream, asm' = NoFrame, NextShown(seen')
  PROVE  InOrder'
<1>1. \A t \in Chunks : Showable(t)' <=> Showable(t)
  BY ShowableStays
<1> QED BY <1>1 DEF InOrder, AllShown, NextShown

LEMMA OpenLater ==
  ASSUME stream' = stream, NEW s \in Chunks, NextShown(s), NEW new, asm' = new,
         Holds(new, s), DOMAIN new.chunks = 0 .. seen' - 1 - s, Near(s)'
  PROVE  InOrder'
<1>1. \A t \in Chunks : Showable(t)' <=> Showable(t)
  BY ShowableStays
<1>2. AllShown(s)'
  BY <1>1 DEF AllShown, NextShown
<1>3. new # NoFrame
  BY NoFrameAssumption DEF Holds
<1>4. Holds(new, s)'
  BY DEF Holds, IsStart
<1>5. Open(s)'
  BY <1>4 DEF Open
<1> QED BY <1>2, <1>3, <1>5 DEF InOrder

\* While the network keeps order a start leaves nothing behind that could be
\* shown, and what it makes of the frame before it is new.
LEMMA StartShows ==
  ASSUME Inv, InOrder, fifo, seen \in Chunks, IsStart(seen), Emit(Previous)
  PROVE  NextShown(seen) /\ Advance /\ (Previous = {} => shown' = shown)
<1>1. seen \in Nat /\ shown \in Int
  BY DEF Inv
<1>2. CASE asm = NoFrame
  <2>1. out' = <<>> /\ shown' = shown
    BY <1>2 DEF Emit, Previous
  <2> QED BY <1>2, <2>1 DEF InOrder, AllShown, NextShown, Advance
<1>3. CASE asm # NoFrame
  <2>1. PICK s \in Chunks : Open(s) /\ AllShown(s)
    BY <1>3 DEF InOrder
  <2>2. /\ \A f \in Previous : f[1] = s
        /\ Previous = {} => ~Showable(s)
    BY <1>3, <2>1, PreviousShown
  <2>3. \A t \in Chunks : t < seen /\ Showable(t) /\ ~(t <= shown) => t = s
    <3> SUFFICES ASSUME NEW t \in Chunks, t < seen, Showable(t), ~(t <= shown), t # s
                 PROVE FALSE
      OBVIOUS
    <3>1. ~(t < s)
      BY <2>1 DEF AllShown
    <3>2. s < t
      BY <3>1 DEF Chunks
    <3> QED BY <1>1, <2>1, <3>2, NoStartInside DEF Showable
  <2>4. s < seen /\ shown < s /\ s \in Int
    BY <2>1 DEF Open, Near, AllShown, Chunks
  <2>5. CASE Previous = {} /\ out' = <<>> /\ shown' = shown
    <3>1. NextShown(seen)
      BY <1>1, <2>2, <2>3, <2>4, <2>5 DEF NextShown, Chunks
    <3> QED BY <2>5, <3>1 DEF Advance
  <2>6. CASE Previous # {} /\ shown' = s
    <3>1. NextShown(seen)
      <4> SUFFICES ASSUME NEW t \in Chunks, t < seen, Showable(t) PROVE t <= s
        BY <2>4, <2>6 DEF NextShown
      <4>1. t <= shown \/ t = s
        BY <2>3
      <4> QED BY <1>1, <2>4, <4>1 DEF Chunks
    <3>2. \A t \in Chunks : Showable(t) /\ shown < t => s <= t
      <4> SUFFICES ASSUME NEW t \in Chunks, Showable(t), shown < t, ~(s <= t) PROVE FALSE
        OBVIOUS
      <4>1. t < s
        BY <2>4 DEF Chunks
      <4>2. t <= shown
        BY <2>1, <4>1 DEF AllShown
      <4> QED BY <1>1, <4>2 DEF Chunks
    <3> QED BY <2>4, <2>6, <3>1, <3>2 DEF Advance
  <2> QED BY <2>2, <2>5, <2>6, EmitFirst, Zenon
<1> QED BY <1>2, <1>3

\* So a frame that is complete at once comes next.
LEMMA WholeShows ==
  ASSUME Inv, InOrder, fifo, seen \in Chunks, IsStart(seen), Previous = {},
         shown' = seen
  PROVE  NextShown(seen + 1) /\ Advance
<1>1. seen \in Nat /\ shown \in Int
  BY DEF Inv
<1>2. shown < seen /\ \A t \in Chunks : t < seen /\ Showable(t) => t <= shown
  <2>1. CASE asm = NoFrame
    BY <2>1 DEF InOrder, AllShown
  <2>2. CASE asm # NoFrame
    <3>1. PICK s \in Chunks : Open(s) /\ AllShown(s)
      BY <2>2 DEF InOrder
    <3>2. ~Showable(s)
      BY <2>2, <3>1, PreviousShown
    <3>3. s < seen /\ shown < s /\ s \in Int
      BY <3>1 DEF Open, Near, AllShown, Chunks
    <3>4. ASSUME NEW t \in Chunks, t < seen, Showable(t) PROVE t <= shown
      <4>1. ~(s < t)
        BY <1>1, <3>1, <3>4, NoStartInside DEF Showable
      <4>2. t < s
        BY <3>2, <3>3, <3>4, <4>1 DEF Chunks
      <4> QED BY <3>1, <3>4, <4>2 DEF AllShown
    <3> QED BY <1>1, <3>3, <3>4
  <2> QED BY <2>1, <2>2
<1>3. NextShown(seen + 1)
  BY <1>1 DEF NextShown, Chunks
<1>4. \A t \in Chunks : Showable(t) /\ shown < t => seen <= t
  BY <1>1, <1>2 DEF Chunks
<1> QED BY <1>2, <1>3, <1>4 DEF Advance

\* Nor does showing the open frame leave anything behind.
LEMMA OpenShows ==
  ASSUME Inv, seen \in Chunks, ~IsStart(seen), NEW s \in Chunks, Open(s), AllShown(s),
         shown' = s
  PROVE  NextShown(seen + 1) /\ Advance
<1>1. seen \in Nat /\ shown \in Int /\ s \in Int /\ s < seen /\ shown < s
  BY DEF Inv, Open, Near, AllShown, Chunks
<1>2. ASSUME NEW t \in Chunks, t < seen + 1, Showable(t) PROVE t <= s
  <2>1. t # seen
    BY <1>2 DEF Showable
  <2>2. ~(s < t)
    BY <1>1, <1>2, <2>1, NoStartInside DEF Showable, Chunks
  <2> QED BY <1>1, <2>2 DEF Chunks
<1>3. ASSUME NEW t \in Chunks, Showable(t), shown < t PROVE s <= t
  <2>1. ~(t < s)
    BY <1>1, <1>3 DEF AllShown, Chunks
  <2> QED BY <1>1, <2>1 DEF Chunks
<1>4. NextShown(seen + 1)
  BY <1>1, <1>2 DEF NextShown
<1> QED BY <1>1, <1>3, <1>4 DEF Advance

\* An open frame that outgrows the window could not be shown.
LEMMA TooLong ==
  ASSUME Inv, seen \in Chunks, ~IsStart(seen), NEW s \in Chunks, Open(s),
         seen - s > Window
  PROVE  ~Showable(s)
<1>1. s < seen /\ s \in Int /\ seen \in Int /\ Window \in Int
  BY SpaceAssumption DEF Open, Near, Chunks
<1>2. seen <= FrameEnd(s)
  BY <1>1, EndIsNear, NoStartInside DEF Inv
<1>3. FrameEnd(s) \in Int
  BY FrameEnds, ChunksAssumption DEF Ends, Chunks
<1> QED BY <1>1, <1>2, <1>3 DEF Showable

\* Every way through handleVideo keeps the order, and shows the next frame if any.
LEMMA ReceiveOrder ==
  ASSUME Inv, InOrder, NEW k \in Chunks, Receive(k), fifo'
  PROVE  InOrder' /\ Advance
<1>1. /\ stream' = stream /\ fifo /\ k = seen /\ seen' = k + 1
      /\ seen \in Chunks /\ seen \in Nat /\ shown \in Int
  <2>1. fifo /\ k = seen
    BY Zenon DEF Receive
  <2> QED BY <2>1 DEF Receive, Inv
<1>2. CASE BadStart(k)
  <2>1. IsStart(k) /\ stream[k].expected = 0 /\ Emit(Previous) /\ asm' = NoFrame
    BY <1>2 DEF BadStart
  <2>2. NextShown(seen) /\ Advance
    BY <1>1, <2>1, StartShows
  <2>3. ~Showable(k)
    BY <2>1 DEF Showable
  <2>4. shown' < seen
    BY <2>2 DEF NextShown
  <2>5. NextShown(seen')
    <3>1. shown' \in Int
      BY ReceiveInv DEF Inv
    <3>2. \A t \in Chunks : t < seen' /\ Showable(t) => t < seen
      BY <1>1, <2>3 DEF Chunks
    <3> QED BY <1>1, <2>2, <2>4, <3>1, <3>2 DEF NextShown
  <2> QED BY <1>1, <2>1, <2>2, <2>5, ClosedLater
<1>3. CASE GoodStart(k)
  <2> DEFINE new == Assembly(k, [i \in {0} |-> k])
  <2>1. /\ IsStart(k) /\ stream[k].expected > 0 /\ stream \in Streams
        /\ \/ Previous # {} /\ Emit(Previous) /\ asm' = new
           \/ Previous = {} /\ Complete(new) /\ Emit(Build(new, FALSE)) /\ asm' = NoFrame
           \/ Previous = {} /\ ~Complete(new) /\ Emit({}) /\ asm' = new
    BY <1>3 DEF GoodStart, Inv
  <2>2. Holds(new, k)
    BY <2>1, FreshHolds
  <2>3. DOMAIN new.chunks = 0 .. seen' - 1 - k
    BY <1>1 DEF Assembly
  <2>4. Near(k)'
    BY <1>1, SpaceAssumption DEF Near, Chunks
  <2> HIDE DEF new
  <2>5. CASE asm' = new /\ Emit(Previous)
    <3>1. NextShown(k) /\ Advance
      BY <1>1, <2>1, <2>5, StartShows
    <3> QED BY <1>1, <2>2, <2>3, <2>4, <2>5, <3>1, OpenLater
  <2>6. CASE Previous = {} /\ Complete(new) /\ Emit(Build(new, FALSE)) /\ asm' = NoFrame
    <3>1. shown' = k
      <4>1. Build(new, FALSE) # {}
        BY <2>6 DEF Build
      <4>2. \A f \in Build(new, FALSE) : f[1] = k
        BY <2>2, BuildFirst
      <4> QED BY <2>6, <4>1, <4>2, EmitFirst, Zenon
    <3>2. NextShown(k + 1) /\ Advance
      BY <1>1, <2>1, <2>6, <3>1, WholeShows
    <3> QED BY <1>1, <2>6, <3>2, ClosedLater
  <2> QED BY <2>1, <2>5, <2>6, Zenon
<1>4. CASE Stray(k)
  <2>1. asm = NoFrame /\ asm' = NoFrame /\ ~IsStart(k) /\ out' = <<>> /\ shown' = shown
    BY <1>4 DEF Stray, Emit
  <2>2. AllShown(seen) /\ ~Showable(k)
    BY <1>1, <2>1 DEF InOrder, Showable
  <2>3. \A t \in Chunks : t < seen' /\ Showable(t) => t < seen
    BY <1>1, <2>2 DEF Chunks
  <2>4. NextShown(seen')
    BY <1>1, <2>1, <2>2, <2>3 DEF NextShown, AllShown
  <2> QED BY <1>1, <2>1, <2>4, ClosedLater DEF Advance
<1>5. CASE OutOfWindow(k)
  <2>1. /\ ~IsStart(k) /\ asm # NoFrame /\ Slot(asm, k) > Window
        /\ Emit(Build(asm, TRUE)) /\ asm' = NoFrame
    BY <1>5 DEF OutOfWindow
  <2>2. PICK s \in Chunks : Open(s) /\ AllShown(s)
    BY <1>1, <2>1 DEF InOrder
  <2>3. s < k /\ s \in Nat /\ shown < s
    BY <1>1, <2>2 DEF Open, Near, AllShown, Chunks
  <2>4. CASE shown' = s
    <3>1. NextShown(seen') /\ Advance
      BY <1>1, <2>1, <2>2, <2>4, OpenShows
    <3> QED BY <1>1, <2>1, <3>1, ClosedLater
  <2>5. CASE out' = <<>> /\ shown' = shown
    <3>1. k - s < IndexSpace /\ s - k < IndexSpace
      BY <1>1, <2>2, <2>3, SpaceAssumption DEF Open, Near
    <3>2. Slot(asm, k) = k - s
      BY <1>1, <2>2, <2>3, <3>1, TrueDistance DEF Slot, Open, Holds
    <3>3. ~Showable(s)
      BY <1>1, <2>1, <2>2, <3>2, TooLong
    <3>4. ASSUME NEW t \in Chunks, t < seen', Showable(t) PROVE t <= shown
      <4>1. t # k /\ t # s
        BY <2>1, <3>3, <3>4 DEF Showable
      <4>2. ~(s < t)
        BY <1>1, <2>2, <3>4, <4>1, NoStartInside DEF Showable, Chunks
      <4>3. t < s
        BY <2>3, <4>1, <4>2 DEF Chunks
      <4> QED BY <2>2, <3>4, <4>3 DEF AllShown
    <3>5. NextShown(seen')
      BY <1>1, <2>3, <2>5, <3>4 DEF NextShown
    <3> QED BY <1>1, <2>1, <2>5, <3>5, ClosedLater DEF Advance
  <2>6. \A f \in Build(asm, TRUE) : f[1] = s
    BY <2>2, BuildFirst DEF Open
  <2> QED BY <2>1, <2>4, <2>5, <2>6, EmitFirst, Zenon
<1>6. CASE InWindow(k)
  <2> DEFINE i   == Slot(asm, k)
             new == [asm EXCEPT !.chunks =
                      [j \in DOMAIN asm.chunks \cup {i} |->
                         IF j \in DOMAIN asm.chunks THEN asm.chunks[j] ELSE k]]
  <2>1. /\ ~IsStart(k) /\ asm # NoFrame /\ i <= Window
        /\ Emit(Build(new, FALSE))
        /\ asm' = IF Complete(new) THEN NoFrame ELSE new
    BY <1>6 DEF InWindow
  <2>2. PICK s \in Chunks : Open(s) /\ AllShown(s)
    BY <1>1, <2>1 DEF InOrder
  <2>3. s < k /\ s \in Nat /\ shown < s
    BY <1>1, <2>2 DEF Open, Near, AllShown, Chunks
  <2>4. i = k - s
    BY <1>1, <2>1, <2>2, SlotIsTrue DEF Receive, Open, Holds
  <2>5. i \in 0..Window
    BY <1>1, <2>1, <2>3, <2>4, SpaceAssumption
  <2>6. Holds(new, s)
    <3>1. Holds(asm, s) /\ s <= k
      BY <1>1, <2>2, <2>3 DEF Open
    <3> HIDE DEF i
    <3> QED BY <2>1, <2>4, <2>5, <3>1, GrownHolds
  <2>7. DOMAIN new.chunks = 0 .. seen' - 1 - s
    <3>1. DOMAIN new.chunks = DOMAIN asm.chunks \cup {i}
      BY <2>2 DEF Open, Holds, Frame
    <3>2. DOMAIN asm.chunks = 0 .. k - 1 - s
      BY <1>1, <2>2 DEF Open
    <3> HIDE DEF new, i
    <3> QED BY <1>1, <2>3, <2>4, <3>1, <3>2
  <2>8. Near(s)'
    BY <1>1, <2>1, <2>3, <2>4, SpaceAssumption DEF Near
  <2> HIDE DEF new
  <2>9. CASE Complete(new)
    <3>1. Build(new, FALSE) # {}
      BY <2>9 DEF Build
    <3>2. \A f \in Build(new, FALSE) : f[1] = s
      BY <2>6, BuildFirst
    <3>3. shown' = s /\ asm' = NoFrame
      BY <2>1, <2>9, <3>1, <3>2, EmitFirst, Zenon
    <3>4. NextShown(seen') /\ Advance
      BY <1>1, <2>1, <2>2, <3>3, OpenShows
    <3> QED BY <1>1, <3>3, <3>4, ClosedLater
  <2>10. CASE ~Complete(new)
    <3>1. out' = <<>> /\ shown' = shown /\ asm' = new
      BY <2>1, <2>10 DEF Build, Emit
    <3>2. NextShown(s)
      BY <2>2, <3>1 DEF NextShown, AllShown
    <3> QED BY <1>1, <2>6, <2>7, <2>8, <3>1, <3>2, OpenLater DEF Advance
  <2> QED BY <2>9, <2>10
<1> QED BY <1>2, <1>3, <1>4, <1>5, <1>6 DEF Receive, HandleVideo

-----------------------------------------------------------------------------
LEMMA InitOrder == Init => InOrder
BY DEF Init, InOrder, AllShown, Chunks

LEMMA StepOrder == Inv /\ InOrder /\ [Next]_vars => InOrder'
<1>1. ASSUME Inv, InOrder, NEW k \in Chunks, Receive(k) PROVE InOrder'
  BY <1>1, ReceiveOrder DEF InOrder
<1>2. ASSUME InOrder, UNCHANGED vars PROVE InOrder'
  <2>1. \A t \in Chunks : Showable(t)' <=> Showable(t)
    BY <1>2, ShowableStays DEF vars
  <2>2. \A n : AllShown(n)' <=> AllShown(n)
    BY <1>2, <2>1 DEF vars, AllShown
  <2>3. \A s \in Chunks : Open(s)' <=> Open(s)
    BY <1>2 DEF vars, Open, Holds, Near, IsStart
  <2> QED BY <1>2, <2>2, <2>3 DEF vars, InOrder
<1> QED BY <1>1, <1>2 DEF Next

LEMMA StepOnce ==
  Inv /\ InOrder /\ [Next]_vars =>
    [fifo' /\ out' # <<>> => shown < shown']_<<seen, out, shown>>
<1>1. ASSUME Inv, InOrder, NEW k \in Chunks, Receive(k), fifo', out' # <<>> PROVE shown < shown'
  BY <1>1, ReceiveOrder DEF Advance
<1>2. UNCHANGED vars => UNCHANGED <<seen, out, shown>>
  BY DEF vars
<1> QED BY <1>1, <1>2 DEF Next

LEMMA StepNothingLeftOut ==
  Inv /\ InOrder /\ [Next]_vars =>
    [fifo' => \A s \in Chunks : Showable(s) /\ shown < s =>
       /\ shown' <= s
       /\ FrameEnd(s) + 1 < seen' => shown' = s]_vars
<1>1. ASSUME Inv, InOrder, NEW k \in Chunks, Receive(k), fifo',
             NEW s \in Chunks, Showable(s), shown < s
      PROVE  shown' <= s /\ (FrameEnd(s) + 1 < seen' => shown' = s)
  <2>1. InOrder' /\ Advance /\ Inv'
    BY <1>1, ReceiveOrder, ReceiveInv
  <2>2. s \in Int /\ shown \in Int /\ shown' \in Int /\ seen' \in Nat /\ stream' = stream
    BY <1>1, <2>1 DEF Inv, Receive, Chunks
  <2>3. shown' <= s
    BY <1>1, <2>1, <2>2 DEF Advance
  <2>4. ASSUME FrameEnd(s) + 1 < seen' PROVE s <= shown'
    <3>1. Showable(s)'
      BY <1>1, <2>2, ShowableStays
    <3>2. PICK e \in Int : FrameEnd(s) = e /\ Ends(s, e)
      BY FrameEnds, ChunksAssumption DEF Ends, Chunks
    <3>3. PICK n \in Nat : seen' = n /\ e + 1 < n
      BY <2>2, <2>4, <3>2
    <3>4. s \in Int /\ s <= e
      BY <2>2, <3>2 DEF Ends
    <3>5. CASE (asm = NoFrame)'
      BY <1>1, <2>1, <2>2, <3>1, <3>5, <3>3, <3>4 DEF InOrder, AllShown
    <3>6. CASE ~(asm = NoFrame)'
      <4>1. PICK t \in Chunks : Open(t)' /\ AllShown(t)'
        BY <1>1, <2>1, <3>6 DEF InOrder
      <4>2. t \in Int
        BY DEF Chunks
      <4>3. CASE s < t
        BY <3>1, <4>1, <4>3 DEF AllShown
      <4>4. CASE t < s
        <5>1. s - t \in 0 .. n - 1 - t /\ t + (s - t) = s /\ s - t # 0
          BY <3>3, <3>4, <4>2, <4>4
        <5>2. ~IsStart(s)'
          BY <3>3, <4>1, <5>1 DEF Open, Holds
        <5> QED BY <3>1, <5>2 DEF Showable
      <4>5. CASE s = t
        <5>1. e # LastChunk
          <6>1. seen \in Chunks /\ seen' = seen + 1
            <7>1. k = seen
              BY <1>1, Zenon DEF Receive
            <7> QED BY <1>1, <7>1 DEF Receive, Chunks
          <6> QED BY <3>3, <6>1, ChunksAssumption DEF Chunks
        <5>2. IsStart(e + 1)
          BY <3>2, <5>1 DEF Ends
        <5>3. (e + 1) - s \in 0 .. n - 1 - s /\ s + ((e + 1) - s) = e + 1
              /\ (e + 1) - s # 0
          BY <3>3, <3>4
        <5>4. ~IsStart(e + 1)'
          BY <3>3, <4>1, <4>5, <5>3 DEF Open, Holds
        <5> QED BY <2>2, <5>2, <5>4 DEF IsStart
      <4> QED BY <3>4, <4>2, <4>3, <4>4, <4>5
    <3> QED BY <3>5, <3>6
  <2> QED BY <2>2, <2>3, <2>4
<1> QED BY <1>1 DEF Next

-----------------------------------------------------------------------------
\* No frame that handleVideo hands on mixes chunks of two frames of the camera,
\* although packet indices wrap: for every index space, window, set of streams
\* and reordering within Reach.
THEOREM FramesUnmixed == Spec => []NoMixing
BY InitInv, StepInv, InvMeans, PTL DEF Spec

\* Every frame that handleVideo hands on is as long as its header announced, or
\* ends where a JPEG ends.
THEOREM FramesWhole == Spec => []FrameWhole
BY InitInv, StepInv, InvMeans, PTL DEF Spec

\* The assembly of handleVideo stays within its window and its indices within
\* the index space.
THEOREM TypeCorrect == Spec => []TypeOK
BY InitInv, StepInv, InvMeans, PTL DEF Spec

\* As long as the network has kept order, a frame that handleVideo hands on is
\* newer than all it has handed on before.
THEOREM ShownOnce == Spec => InOrderOnce
BY InitInv, StepInv, InitOrder, StepOrder, StepOnce, PTL DEF Spec, InOrderOnce

\* And it passes over no frame that could be shown, nor waits longer than for the
\* packet after the next start.
THEOREM AllAreShown == Spec => NothingLeftOut
BY InitInv, StepInv, InitOrder, StepOrder, StepNothingLeftOut, PTL DEF Spec, NothingLeftOut
=============================================================================
