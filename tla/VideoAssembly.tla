--------------------------- MODULE VideoAssembly ---------------------------
(***************************************************************************)
(* handleVideo of bkcam-go/main.go: how one PPPP session puts the JPEG     *)
(* frames of channel 1 together from UDP packets that may be lost,         *)
(* repeated and reordered.  The camera cuts a frame into chunks and        *)
(* numbers all chunks of the stream; a packet carries its number modulo    *)
(* 2^16 only.  The first chunk of a frame has a header with the length of  *)
(* the frame.                                                              *)
(*                                                                         *)
(* Chunks are known here by their true number, which the code never sees,  *)
(* and lengths are counted in chunks.                                      *)
(***************************************************************************)
EXTENDS Integers, Sequences

CONSTANTS
  IndexSpace,  \* packet indices are taken modulo this, 2^16 in the code
  Window,      \* a packet further than this from the start drops the frame, 128
  Reach,       \* how far from the newest packet another one may arrive
  LastChunk,   \* bound: the chunks of a stream are numbered 0..LastChunk
  Streams,     \* what cameras may send
  NoFrame      \* the nil *videoFrame

ASSUME SpaceAssumption ==
  /\ IndexSpace \in Nat /\ Window \in Nat /\ Reach \in Nat \ {0}
  /\ 2 * Reach + Window < IndexSpace
ASSUME ChunksAssumption == LastChunk \in Nat

Chunks == 0..LastChunk

\* A chunk either starts a frame or continues one.  A start announces a length,
\* 0 standing for a header that is cut short or a length out of range; a chunk
\* may hold the end-of-image marker of its JPEG.
Chunk == [start : BOOLEAN, expected : Nat, eoi : BOOLEAN]

ASSUME StreamsAssumption == Streams \subseteq [Chunks -> Chunk]

\* videoFrame.  Index and length come from its start, chunks are kept by their
\* distance to it; maxSlot and receivedLength are what their domain says.
Frame ==
  [startIndex : 0..(IndexSpace - 1), expected : Nat \ {0},
   chunks : UNION {[slots -> Chunks] : slots \in SUBSET (0..Window)}]

ASSUME NoFrameAssumption == NoFrame \notin Frame

VARIABLES
  stream,   \* what the camera sends
  seen,     \* one more than the number of the newest packet received
  fifo,     \* so far the network has delivered every packet once and in order
  asm,      \* p.videoFrame
  out,      \* the frame the last packet handed to OnVideo, as the chunks it is
            \* made of, or <<>>
  shown     \* the first chunk of the newest call of OnVideo, -1 before

vars == <<stream, seen, fifo, asm, out, shown>>

IsStart(k) == stream[k].start

Assembly(k, chunks) ==
  [startIndex |-> k % IndexSpace, expected |-> stream[k].expected, chunks |-> chunks]

\* The assembly stays within the window, and its indices within 16 bits.
TypeOK ==
  /\ stream \in Streams
  /\ seen \in Nat /\ fifo \in BOOLEAN
  /\ asm \in Frame \cup {NoFrame}
  /\ out \in Seq(Chunks)
  /\ shown \in Int

Init ==
  /\ stream \in Streams
  /\ seen = 0 /\ fifo = TRUE
  /\ asm = NoFrame
  /\ out = <<>>
  /\ shown = -1

-----------------------------------------------------------------------------
\* The first n chunks of an assembly, in order.
Prefix(a, n) == [i \in 1..n |-> a.chunks[i - 1]]

\* The announced length is reached before a gap.
Complete(a) == \A i \in 0..(a.expected - 1) : i \in DOMAIN a.chunks

NoGap(a) == \A i \in DOMAIN a.chunks, j \in 0..Window : j < i => j \in DOMAIN a.chunks

\* trimCompleteJPEG keeps everything up to the last end-of-image marker.
LastEoi(a) ==
  {i \in DOMAIN a.chunks :
     stream[a.chunks[i]].eoi /\ \A j \in DOMAIN a.chunks : j > i => ~stream[a.chunks[j]].eoi}

BugBuild(a, boundary) ==
  IF Complete(a) THEN {Prefix(a, a.expected)}
  ELSE IF boundary /\ NoGap(a) THEN {Prefix(a, i + 1) : i \in DOMAIN a.chunks}
  ELSE {}

\* buildVideoFrame: at most one frame.  At a frame boundary one that is shorter
\* than announced is good enough if it has no gap and holds the end of a JPEG.
Build(a, boundary) ==
  IF Complete(a) THEN {Prefix(a, a.expected)}
  ELSE IF boundary /\ NoGap(a) THEN {Prefix(a, i + 1) : i \in LastEoi(a)}
  ELSE {}

\* indexDistance, on packet indices.
Distance(start, current) == (current - start + IndexSpace) % IndexSpace

Slot(a, k) == Distance(a.startIndex, k % IndexSpace)

\* What handleVideo returns goes to OnVideo unless it is empty.
Emit(frames) ==
  \/ frames = {} /\ out' = <<>> /\ UNCHANGED shown
  \/ \E f \in frames : out' = f /\ shown' = f[1]

BugPrevious == {}

\* What a start packet makes of the frame before it.
Previous == IF asm = NoFrame THEN {} ELSE Build(asm, TRUE)

-----------------------------------------------------------------------------
(* handleVideo, one action per way through it.                             *)

\* A start whose header is unusable ends the current frame.
BadStart(k) ==
  /\ IsStart(k) /\ stream[k].expected = 0
  /\ asm' = NoFrame
  /\ Emit(Previous)

BugGoodStart(k) ==
  LET new == Assembly(k, IF asm = NoFrame THEN [i \in {0} |-> k]
                         ELSE [i \in DOMAIN asm.chunks |-> IF i = 0 THEN k ELSE asm.chunks[i]]) IN
  /\ IsStart(k) /\ stream[k].expected > 0
  /\ Emit(Build(new, FALSE))
  /\ asm' = IF Complete(new) THEN NoFrame ELSE new

\* A start opens a new frame.  If the one before it was handed on, the new one
\* waits for its next packet even when it is complete.
GoodStart(k) ==
  LET new == Assembly(k, [i \in {0} |-> k]) IN
  /\ IsStart(k) /\ stream[k].expected > 0
  /\ \/ /\ Previous # {}
        /\ Emit(Previous) /\ asm' = new
     \/ /\ Previous = {} /\ Complete(new)
        /\ Emit(Build(new, FALSE)) /\ asm' = NoFrame
     \/ /\ Previous = {} /\ ~Complete(new)
        /\ Emit({}) /\ asm' = new

\* A chunk without a frame to go to is dropped.
Stray(k) ==
  /\ ~IsStart(k) /\ asm = NoFrame
  /\ Emit({})
  /\ UNCHANGED asm

\* A chunk out of the window, behind the start or far ahead, ends the frame.
OutOfWindow(k) ==
  /\ ~IsStart(k) /\ asm # NoFrame
  /\ Slot(asm, k) > Window
  /\ Emit(Build(asm, TRUE))
  /\ asm' = NoFrame

BugInWindow(k) ==
  LET i == Slot(asm, k)
      c == asm.chunks
      new == [asm EXCEPT !.chunks =
                [j \in DOMAIN c \cup {i} |-> IF j \in DOMAIN c THEN c[j] ELSE k]]
  IN
  /\ ~IsStart(k) /\ asm # NoFrame
  /\ i <= Window
  /\ Emit(Build(new, FALSE))
  /\ asm' = new

\* The first chunk that claims a slot of the window has it.
InWindow(k) ==
  LET i == Slot(asm, k)
      c == asm.chunks
      new == [asm EXCEPT !.chunks =
                [j \in DOMAIN c \cup {i} |-> IF j \in DOMAIN c THEN c[j] ELSE k]]
  IN
  /\ ~IsStart(k) /\ asm # NoFrame
  /\ i <= Window
  /\ Emit(Build(new, FALSE))
  /\ asm' = IF Complete(new) THEN NoFrame ELSE new

HandleVideo(k) ==
  BadStart(k) \/ GoodStart(k) \/ Stray(k) \/ OutOfWindow(k) \/ InWindow(k)

\* The network delivers a packet, or one more copy of it.  A packet is lost if
\* this never happens.  No packet is later, and no gap longer, than Reach.
Receive(k) ==
  /\ k > seen - Reach - 1 /\ k < seen + Reach
  /\ seen' = IF k < seen THEN seen ELSE k + 1
  /\ fifo' = (fifo /\ k = seen)
  /\ HandleVideo(k)
  /\ UNCHANGED stream

Next == \E k \in Chunks : Receive(k)

Spec == Init /\ [][Next]_vars

-----------------------------------------------------------------------------
(* Safety, whatever is lost, repeated or late within Reach.                *)

\* A frame that reaches OnVideo is a run of consecutive chunks of one frame of
\* the camera, from its start on: no chunk of another frame is ever mixed in,
\* although indices wrap and an assembly outlives the packets it waits for.
NoMixing ==
  \A i \in DOMAIN out :
    /\ out[i] = out[1] + i - 1
    /\ IsStart(out[i]) <=> i = 1

\* It is as long as the camera announced, unless it ends with an end of image.
FrameWhole ==
  out # <<>> => \/ Len(out) = stream[out[1]].expected
                \/ stream[out[Len(out)]].eoi

\* As long as the network keeps order, frames are handed on in order and once
\* each.
InOrderOnce == [][fifo' /\ out' # <<>> => shown < shown']_<<seen, out, shown>>

\* A frame that can be shown when all of it arrives: complete as announced, or
\* ended by an end of image at its last chunk.
FrameEnd(s) ==
  CHOOSE e \in s..LastChunk :
    /\ \A j \in (s + 1)..e : ~IsStart(j)
    /\ e = LastChunk \/ IsStart(e + 1)

Showable(s) ==
  LET n == FrameEnd(s) - s + 1 IN
  /\ IsStart(s) /\ stream[s].expected > 0
  /\ n <= Window + 1
  /\ stream[s].expected <= n \/ stream[FrameEnd(s)].eoi

\* And none is left out: the frame shown next is never beyond the first showable
\* one that has not been shown, and is that one once the next frame has started.
NothingLeftOut ==
  [][fifo' => \A s \in Chunks : Showable(s) /\ shown < s =>
       /\ shown' <= s
       /\ FrameEnd(s) + 1 < seen' => shown' = s]_vars
=============================================================================
