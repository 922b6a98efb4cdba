------------------------------- MODULE FanOut -------------------------------
(***************************************************************************)
(* How frames and sound of a camera reach its viewers and listeners in     *)
(* bkcam-go/main.go: OnVideo, enqueueVideoOutput, videoOutputLoop, OnAudio, *)
(* sendDropOld, ServeVideo and ServeAudio.                                 *)
(*                                                                         *)
(* Between them are channels that never block a producer: one place for    *)
(* the frame to be rendered next, a few for each client.  Who finds one    *)
(* full takes the oldest entry out and tries again, in three steps that    *)
(* the reader of the channel races with.                                   *)
(***************************************************************************)
EXTENDS Integers, Sequences, FiniteSets

CONSTANTS
  Viewers,     \* requests for video: each is served once
  Listeners,   \* requests for audio
  Sessions,    \* sessions whose Run calls OnVideo and OnAudio
  Out,         \* the goroutine of videoOutputLoop
  None,
  Capacity,    \* of the channel of a client (8 for video, 64 for audio)
  Broken,      \* frames that renderFrameOverlay fails on
  MaxPieces,   \* bound: frames and audio packets that come in
  MaxServed,   \* bound: clients that are served
  MaxUpdates   \* bound: changes of the camera's configuration

Clients == Viewers \cup Listeners
Senders == Sessions \cup {Out}

ASSUME ClientsAssumption == Viewers \cap Listeners = {}
ASSUME OutAssumption == Out \notin Sessions
ASSUME NoneAssumption == None \notin Clients
ASSUME CapacityAssumption == Capacity \in Nat \ {0}
ASSUME BrokenAssumption == Broken \subseteq Nat
ASSUME BoundsAssumption ==
  MaxPieces \in Nat /\ MaxServed \in Nat /\ MaxUpdates \in Nat

VARIABLES
  newest,      \* frames OnVideo has had so far
  packets,     \* audio packets OnAudio has had so far
  latest,      \* rt.latestFrame, 0 if nil
  latestOut,   \* rt.latestOutputFrame, 0 if nil
  recent,      \* rt.lastVideoAt is less than videoHoldWindow ago
  clients,     \* rt.videoClients and rt.audioClients
  serving,     \* where the handler of a client is
  queue,       \* the channel of a client
  seen,        \* what was last written to it
  preview,     \* history: viewers whose first frame is not the latest output
  ordered,     \* history: no two sessions have delivered at the same time so far
  due,         \* history: the last piece that was to be sent to a client
  enqueue,     \* a session in enqueueVideoOutput: its step and its frame
  outputs,     \* rt.videoOutputCh
  job,         \* the frame that videoOutputLoop renders, 0 if none
  sending,     \* a goroutine in its loop of sendDropOld
  updates      \* changes of the configuration so far

intake == <<newest, packets, ordered>>

vars == <<intake, latest, latestOut, recent, clients, serving, queue, seen, preview, due,
          enqueue, outputs, job, sending, updates>>

Steps == {"try", "drop", "again"}

\* No queue holds more than it has places for, and no frame is newer than the newest.
TypeOK ==
  /\ newest \in Nat /\ packets \in Nat
  /\ latest \in 0 .. newest /\ latestOut \in 0 .. newest
  /\ recent \in BOOLEAN
  /\ clients \subseteq Clients
  /\ serving \in [Clients -> {"no", "yes", "leaving", "done"}]
  /\ queue \in [Clients -> Seq(Nat \ {0})]
  /\ \A c \in Clients : Len(queue[c]) <= Capacity
  /\ seen \in [Clients -> Nat]
  /\ preview \subseteq Viewers /\ ordered \in BOOLEAN
  /\ due \in [Clients -> Nat]
  /\ enqueue \in [Sessions -> [step : Steps \cup {"idle"}, frame : 0 .. newest]]
  /\ outputs \in Seq(1 .. newest) /\ Len(outputs) <= 1
  /\ job \in 0 .. newest
  /\ sending \in [Senders -> [step : Steps, data : Nat, to : SUBSET Clients,
                           at : Clients \cup {None}]]
  /\ updates \in Nat

Init ==
  /\ newest = 0 /\ packets = 0 /\ latest = 0 /\ latestOut = 0 /\ recent = FALSE
  /\ clients = {}
  /\ serving = [c \in Clients |-> "no"]
  /\ queue = [c \in Clients |-> <<>>]
  /\ seen = [c \in Clients |-> 0] /\ preview = {} /\ ordered = TRUE
  /\ due = [c \in Clients |-> 0]
  /\ enqueue = [s \in Sessions |-> [step |-> "idle", frame |-> 0]]
  /\ outputs = <<>> /\ job = 0
  /\ sending = [s \in Senders |-> [step |-> "try", data |-> 0, to |-> {}, at |-> None]]
  /\ updates = 0

-----------------------------------------------------------------------------
(* OnVideo and enqueueVideoOutput.  A frame has the number newest + 1 from     *)
(* the critical section of OnVideo on.                                         *)

Sending(s) == sending[s].to # {}

Busy(s) == enqueue[s].step # "idle" \/ Sending(s)

\* Run of a session calls OnVideo or OnAudio.
Comes(s) ==
  /\ ~Busy(s) /\ newest + packets < MaxPieces
  /\ ordered' = (ordered /\ \A z \in Sessions : ~Busy(z))

\* Is somebody watching, or was there a snapshot in the last 10 s?
Demand == clients \cap Viewers # {}

OnVideo(s) ==
  /\ newest' = newest + 1
  /\ Comes(s)
  /\ latest' = newest + 1
  /\ recent' = TRUE
  /\ \/ /\ enqueue' = [enqueue EXCEPT ![s] = [step |-> "try", frame |-> newest + 1]]
     \/ ~Demand /\ UNCHANGED enqueue
  /\ UNCHANGED <<packets, latestOut, clients, serving, queue, seen, preview, due, outputs,
                 job, sending, updates>>

EnqueueStep(s, step) ==
  IF step = "idle" THEN enqueue' = [enqueue EXCEPT ![s] = [step |-> "idle", frame |-> 0]]
  ELSE enqueue' = [enqueue EXCEPT ![s].step = step]

\* A send that does not wait.
EnqueueSend(s) ==
  /\ enqueue[s].step \in {"try", "again"}
  /\ IF outputs = <<>>
     THEN outputs' = <<enqueue[s].frame>> /\ EnqueueStep(s, "idle")
     ELSE /\ EnqueueStep(s, IF enqueue[s].step = "try" THEN "drop" ELSE "idle")
          /\ UNCHANGED outputs
  /\ UNCHANGED <<intake, latest, latestOut, recent, clients, serving, queue, seen,
                 preview, due, job, sending, updates>>

BugEnqueueDrop(s) ==
  /\ enqueue[s].step = "drop"
  /\ EnqueueStep(s, "again")
  /\ UNCHANGED <<intake, latest, latestOut, recent, clients, serving, queue, seen,
                 preview, due, outputs, job, sending, updates>>

\* A receive that does not wait.
EnqueueDrop(s) ==
  /\ enqueue[s].step = "drop"
  /\ outputs' = <<>>
  /\ EnqueueStep(s, "again")
  /\ UNCHANGED <<intake, latest, latestOut, recent, clients, serving, queue, seen,
                 preview, due, job, sending, updates>>

-----------------------------------------------------------------------------
(* sendDropOld, to all of a set of clients that was copied under rt.mu.        *)

SendTo(s, data, to) ==
  /\ sending' = [sending EXCEPT ![s] = [step |-> "try", data |-> data, to |-> to, at |-> None]]
  /\ due' = [c \in Clients |-> IF c \in to THEN data ELSE due[c]]

Room(c) == Len(queue[c]) < Capacity

SendNext(s, c) ==
  sending' = [sending EXCEPT ![s].step = "try", ![s].to = @ \ {c}, ![s].at = None]

\* The first send, to any client that has not had its turn.
SendTry(s, c) ==
  /\ sending[s].step = "try" /\ c \in sending[s].to
  /\ IF Room(c)
     THEN queue' = [queue EXCEPT ![c] = Append(@, sending[s].data)] /\ SendNext(s, c)
     ELSE /\ sending' = [sending EXCEPT ![s].step = "drop", ![s].at = c]
          /\ UNCHANGED queue
  /\ UNCHANGED <<intake, latest, latestOut, recent, clients, serving, seen, preview,
                 due, enqueue, outputs, job, updates>>

BugSendDrop(s) ==
  LET c == sending[s].at IN
  /\ sending[s].step = "drop"
  /\ sending' = [sending EXCEPT ![s].step = "again"]
  /\ UNCHANGED <<intake, latest, latestOut, recent, clients, serving, queue, seen,
                 preview, due, enqueue, outputs, job, updates>>

\* The oldest entry out, unless the reader has emptied the channel meanwhile.
SendDrop(s) ==
  LET c == sending[s].at IN
  /\ sending[s].step = "drop"
  /\ sending' = [sending EXCEPT ![s].step = "again"]
  /\ queue' = IF queue[c] = <<>> THEN queue ELSE [queue EXCEPT ![c] = Tail(@)]
  /\ UNCHANGED <<intake, latest, latestOut, recent, clients, serving, seen, preview,
                 due, enqueue, outputs, job, updates>>

SendAgain(s) ==
  LET c == sending[s].at IN
  /\ sending[s].step = "again"
  /\ queue' = IF Room(c) THEN [queue EXCEPT ![c] = Append(@, sending[s].data)] ELSE queue
  /\ SendNext(s, c)
  /\ UNCHANGED <<intake, latest, latestOut, recent, clients, serving, seen, preview,
                 due, enqueue, outputs, job, updates>>

-----------------------------------------------------------------------------
(* videoOutputLoop, and OnAudio, which sends by itself.                        *)

TakeJob ==
  /\ job = 0 /\ ~Sending(Out) /\ outputs # <<>>
  /\ job' = Head(outputs) /\ outputs' = <<>>
  /\ UNCHANGED <<intake, latest, latestOut, recent, clients, serving, queue, seen,
                 preview, due, enqueue, sending, updates>>

Rendered ==
  /\ job # 0 /\ job \notin Broken
  /\ latestOut' = job
  /\ SendTo(Out, job, clients \cap Viewers)
  /\ job' = 0
  /\ UNCHANGED <<intake, latest, recent, clients, serving, queue, seen, preview,
                 enqueue, outputs, updates>>

RenderFails ==
  /\ job \in Broken \ {0}
  /\ job' = 0
  /\ UNCHANGED <<intake, latest, latestOut, recent, clients, serving, queue, seen,
                 preview, due, enqueue, outputs, sending, updates>>

OnAudio(s) ==
  /\ packets' = packets + 1
  /\ Comes(s)
  /\ SendTo(s, packets + 1, clients \cap Listeners)
  /\ UNCHANGED <<newest, latest, latestOut, recent, clients, serving, queue, seen, preview,
                 enqueue, outputs, job, updates>>

-----------------------------------------------------------------------------
(* ServeVideo and ServeAudio.                                                  *)

Arrives(c) ==
  /\ serving[c] = "no" /\ Cardinality({d \in Clients : serving[d] # "no"}) < MaxServed
  /\ serving' = [serving EXCEPT ![c] = "yes"]
  /\ clients' = clients \cup {c}

BugFirstFrame == latest

FirstFrame == IF latestOut # 0 THEN latestOut ELSE latest

\* A viewer starts with a frame of the past 75 s, put into its channel before
\* anybody can know of it.
ServeVideo(v) ==
  /\ Arrives(v)
  /\ IF recent /\ FirstFrame # 0
     THEN /\ queue' = [queue EXCEPT ![v] = <<FirstFrame>>]
          /\ due' = [due EXCEPT ![v] = FirstFrame]
          /\ preview' = IF latestOut = 0 THEN preview \cup {v} ELSE preview
     ELSE UNCHANGED <<queue, due, preview>>
  /\ UNCHANGED <<intake, latest, latestOut, recent, seen, enqueue, outputs, job,
                 sending, updates>>

ServeAudio(v) ==
  /\ Arrives(v)
  /\ UNCHANGED <<intake, latest, latestOut, recent, queue, seen, preview, due,
                 enqueue, outputs, job, sending, updates>>

Write(c) ==
  /\ serving[c] = "yes" /\ queue[c] # <<>>
  /\ seen' = [seen EXCEPT ![c] = Head(queue[c])]
  /\ queue' = [queue EXCEPT ![c] = Tail(@)]
  /\ preview' = IF seen[c] = 0 THEN preview ELSE preview \ {c}
  /\ UNCHANGED <<intake, latest, latestOut, recent, clients, serving, due, enqueue,
                 outputs, job, sending, updates>>

Leaves(c) ==
  /\ serving[c] = "yes"
  /\ serving' = [serving EXCEPT ![c] = "leaving"]
  /\ UNCHANGED <<intake, latest, latestOut, recent, clients, queue, seen, preview,
                 due, enqueue, outputs, job, sending, updates>>

\* The request is cancelled or a write fails.
HangsUp(c) == Leaves(c)

BugIdles(c) == queue[c] = <<>> /\ seen[c] = 0 /\ Leaves(c)

\* The idle timer: nothing in the channel for 90 s (30 s for audio) since the
\* last write, which for video may repeat the last frame for 75 s.
Idles(c) == queue[c] = <<>> /\ Leaves(c)

RemoveClient(c) ==
  /\ serving[c] = "leaving"
  /\ serving' = [serving EXCEPT ![c] = "done"]
  /\ clients' = clients \ {c}
  /\ UNCHANGED <<intake, latest, latestOut, recent, queue, seen, preview, due,
                 enqueue, outputs, job, sending, updates>>

\* 75 s without a frame.
FrameAges ==
  /\ recent
  /\ recent' = FALSE
  /\ UNCHANGED <<intake, latest, latestOut, clients, serving, queue, seen, preview,
                 due, enqueue, outputs, job, sending, updates>>

\* New maps of clients; what goroutines have taken before goes on.
UpdateConfig ==
  /\ updates < MaxUpdates
  /\ updates' = updates + 1
  /\ latest' = 0 /\ latestOut' = 0 /\ recent' = FALSE
  /\ clients' = {}
  /\ UNCHANGED <<intake, serving, queue, seen, preview, due, enqueue, outputs, job,
                 sending>>

-----------------------------------------------------------------------------
SessionStep(s) == OnVideo(s) \/ EnqueueSend(s) \/ EnqueueDrop(s) \/ OnAudio(s)

SenderStep(s) == (\E c \in Clients : SendTry(s, c)) \/ SendDrop(s) \/ SendAgain(s)

OutputStep == TakeJob \/ Rendered \/ RenderFails

ClientStep(c) == Write(c) \/ HangsUp(c) \/ Idles(c) \/ RemoveClient(c)

Next ==
  \/ \E s \in Sessions : SessionStep(s)
  \/ \E s \in Senders : SenderStep(s)
  \/ OutputStep
  \/ \E v \in Viewers : ServeVideo(v)
  \/ \E v \in Listeners : ServeAudio(v)
  \/ \E c \in Clients : ClientStep(c)
  \/ FrameAges \/ UpdateConfig

Spec == Init /\ [][Next]_vars

\* Goroutines that can run do.  A write to a client returns or fails, by the
\* timeouts of TCP, and a client whose channel stays empty times out.  Nothing is
\* assumed of the camera.
Fairness ==
  /\ \A s \in Sessions : WF_vars(EnqueueSend(s)) /\ WF_vars(EnqueueDrop(s))
  /\ \A s \in Senders : WF_vars(SenderStep(s))
  /\ WF_vars(OutputStep)
  /\ \A c \in Clients : WF_vars(Write(c)) /\ WF_vars(RemoveClient(c))
  /\ \A c \in Clients : WF_vars(c \notin clients /\ Idles(c))

FairSpec == Spec /\ Fairness

-----------------------------------------------------------------------------
(* Properties.                                                                 *)

LastQueued(c) == IF queue[c] = <<>> THEN seen[c] ELSE queue[c][Len(queue[c])]

\* Dropping never costs a client its newest piece: once a sender is through with
\* it, the last entry of its channel, or what it has read last, is the piece sent
\* last.  For viewers the only sender is videoOutputLoop, whatever the sessions.
NewestKept ==
  \A c \in Viewers : c \notin sending[Out].to => LastQueued(c) = due[c]

\* Types and the newest piece.
Inv == TypeOK /\ NewestKept

\* What viewers and listeners get is in order, until two sessions deliver at once:
\* one that is being replaced and its successor.
Video == INSTANCE MediaFeed WITH
  Clients <- Viewers, seen <- [v \in Viewers |-> seen[v]]

Audio == INSTANCE MediaFeed WITH
  Clients <- Listeners, newest <- packets, seen <- [v \in Listeners |-> seen[v]], preview <- {}

RefinesFeeds == Video!Spec /\ Audio!Spec

\* A frame reaches everyone who watches when it comes, however slow, unless a newer
\* one comes, they leave, UpdateConfig forgets them, or a session that is being
\* replaced puts an older frame in its place.
CaughtUp ==
  \A v \in Viewers, s \in Sessions, n \in (1 .. MaxPieces) \ Broken :
    enqueue[s] = [step |-> "try", frame |-> n] /\ v \in clients ~>
      newest > n \/ ~ordered \/ v \notin clients \/ serving[v] # "yes" \/ seen[v] = n

\* A client that UpdateConfig has forgotten, or that has left, is removed.
ForgottenLeave == \A c \in Clients : serving[c] = "yes" /\ c \notin clients ~> serving[c] = "done"
=============================================================================
