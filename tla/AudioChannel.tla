---------------------------- MODULE AudioChannel ----------------------------
(***************************************************************************)
(* Channel 2 of a PPPP session in bkcam-go/main.go: handleDRW,             *)
(* parseAudioFrames and mediaIndexAfter.  A packet holds media frames with *)
(* an index each, or, from older cameras, one frame with a header but no   *)
(* index, or no header at all.  Packets are lost, repeated and reordered.  *)
(*                                                                         *)
(* Media frames are known here by their true number; the code sees it      *)
(* modulo IndexSpace.  What a frame does to the decoder is AdpcmDecoder.   *)
(***************************************************************************)
EXTENDS AdpcmDecoder

CONSTANTS
  IndexSpace,  \* media indices are taken modulo this, 2^32 in the code
  Reach,       \* how far from the newest packet another one may arrive
  LastPacket,  \* bound: the packets of a stream are numbered 0..LastPacket
  Streams,     \* what cameras may send
  None

Packets == 0 .. LastPacket

\* A stream gives the number of the first media frame of each packet, and how many
\* there are, at most two; or says that the packet has none; and what is in a frame.
Packet == [kind : {"media"}, first : Nat, count : 1 .. 2, data : Seq(Nibbles)]
          \cup [kind : {"header", "raw"}, data : Seq(Nibbles)]

ASSUME NoneAssumption == None \notin Nat

IsMedia(s, k) == s[k].kind = "media"
Newest(s, k) == s[k].first + s[k].count - 1

\* The camera numbers its frames one after the other.  A packet may also repeat the
\* last frame of the one before it, or frames may have gone in packets without index.
Numbered(s) ==
  \A k, l \in Packets : k < l /\ IsMedia(s, k) /\ IsMedia(s, l) =>
    /\ s[k].first <= s[l].first /\ Newest(s, k) <= Newest(s, l)
    /\ Newest(s, l) - s[k].first <= 2 * (l - k) + 1
    /\ \E j \in 0 .. l - 1 : IsMedia(s, j) /\ s[l].first - Newest(s, j) <= 2 * Reach

ASSUME StreamsAssumption ==
  Streams \subseteq [Packets -> Packet] /\ \A s \in Streams : Numbered(s)

\* Two indices are never confused with one another within reach.
ASSUME SpaceAssumption ==
  Reach \in Nat \ {0} /\ LastPacket \in Nat /\ IndexSpace \in Nat /\ 8 * Reach < IndexSpace

VARIABLES
  stream,  \* what the camera sends
  seen,    \* one more than the number of the newest packet received
  fifo,    \* so far the network has delivered every packet once and in order
  last,    \* p.lastAudioMediaIndex, None while p.hasAudioMediaIndex is false
  decoder, \* p.audio
  out,     \* the frames that the last packet handed to OnAudio
  played   \* history: the newest media frame that has been decoded, -1 before

vars == <<stream, seen, fifo, last, decoder, out, played>>

\* With the state from which the decoder has decoded it.
Frame == [number : Nat \cup {None}, from : Decoders]

\* The filter has an index exactly when a media frame has been decoded, a packet gives
\* two frames at most, and the decoder stays in the table and within 16 bits.
TypeOK ==
  /\ stream \in Streams
  /\ seen \in 0 .. LastPacket + 1 /\ fifo \in BOOLEAN
  /\ last \in (0 .. IndexSpace - 1) \cup {None}
  /\ decoder \in Decoders
  /\ out \in Seq(Frame) /\ Len(out) <= 2
  /\ played \in Nat \cup {-1}
  /\ last # None <=> played # -1

Init ==
  /\ stream \in Streams
  /\ seen = 0 /\ fifo = TRUE
  /\ last = None /\ decoder = Reset /\ out = <<>> /\ played = -1

-----------------------------------------------------------------------------
BugMediaIndexAfter(index, previous) == index > previous

BugIndexDiffers(index, previous) == index # previous

MediaIndexAfter(index, previous) ==
  index # previous /\ (index - previous) % IndexSpace < IndexSpace \div 2

\* parseAudioFrames: the frames of a packet, and whether each has a header, so
\* that the decoder is reset for it.
ParseAudioFrames(p) ==
  IF p.kind = "media"
  THEN [i \in 1 .. p.count |-> [number |-> p.first + i - 1, reset |-> TRUE, data |-> p.data]]
  ELSE <<[number |-> None, reset |-> p.kind = "header", data |-> p.data]>>

BugDecode(st, f) ==
  LET from == IF f.reset /\ st.last = None THEN Reset ELSE st.decoder IN
  [decoder |-> DecodeData(from, f.data),
   last |-> IF f.number = None THEN st.last ELSE f.number % IndexSpace,
   out |-> Append(st.out, [number |-> f.number, from |-> from])]

\* A frame goes to the decoder, whose state stays for the next one.
Decode(st, f) ==
  LET from == IF f.reset THEN Reset ELSE st.decoder IN
  [decoder |-> DecodeData(from, f.data),
   last |-> IF f.number = None THEN st.last ELSE f.number % IndexSpace,
   out |-> Append(st.out, [number |-> f.number, from |-> from])]

\* Frames that are not newer than the last one are skipped.
Skipped(st, f) ==
  /\ f.number # None /\ st.last # None
  /\ ~MediaIndexAfter(f.number % IndexSpace, st.last)

HandleFrame(st, f) == IF Skipped(st, f) THEN st ELSE Decode(st, f)

\* The frames of a packet, one after the other.
HandleDRW(p) ==
  LET frames == ParseAudioFrames(p)
      after[n \in 0 .. Len(frames)] ==
        IF n = 0 THEN [last |-> last, decoder |-> decoder, out |-> <<>>]
        ELSE HandleFrame(after[n - 1], frames[n])
  IN after[Len(frames)]

\* As in VideoAssembly: no packet is later, and no gap longer, than Reach.
Receive(k) ==
  LET st == HandleDRW(stream[k]) IN
  /\ k > seen - Reach - 1 /\ k < seen + Reach
  /\ seen' = IF k < seen THEN seen ELSE k + 1
  /\ fifo' = (fifo /\ k = seen)
  /\ last' = st.last /\ decoder' = st.decoder /\ out' = st.out
  /\ played' = IF ~IsMedia(stream, k) \/ st.out = <<>> THEN played
               ELSE st.out[Len(st.out)].number
  /\ UNCHANGED stream

Next == \E k \in Packets : Receive(k)

Spec == Init /\ [][Next]_vars

-----------------------------------------------------------------------------
(* Properties.                                                               *)

\* Sound is played in the order in which it was recorded and no frame twice,
\* whatever is repeated or late, and although indices wrap.
InOrderOnce ==
  [][out' # out =>
       \A i, j \in DOMAIN out' :
         /\ out'[i].number # None => played < out'[i].number
         /\ i < j => out'[i].number < out'[j].number]_vars

\* A media frame is decoded from the state the camera encoded it from, whatever
\* came before it, or got lost.
DecodedFromReset == \A i \in DOMAIN out : out[i].number # None => out[i].from = Reset

\* Types, with the ranges of the decoder, and the states that frames start from.
Inv == TypeOK /\ DecodedFromReset

\* As long as the network keeps order, no sound is left out.
NothingLeftOut ==
  fifo => \A k \in 0 .. seen - 1 :
    IsMedia(stream, k) => Newest(stream, k) <= played
=============================================================================
