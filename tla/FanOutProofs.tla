---------------------------- MODULE FanOutProofs ----------------------------
(***************************************************************************)
(* Proofs that the channels of FanOut are well typed, that sendDropOld     *)
(* never costs a viewer its newest frame, and that what viewers and        *)
(* listeners get is a feed in order (MediaFeed), for any number of         *)
(* sessions, viewers, listeners, frames and places in a channel.           *)
(***************************************************************************)
EXTENDS FanOut, SequenceTheorems, TLAPS

\* What OnVideo, OnAudio and videoOutputLoop work on.
Intake ==
  /\ newest \in Nat /\ packets \in Nat /\ updates \in Nat
  /\ latest \in 0 .. newest /\ latestOut \in 0 .. newest /\ job \in 0 .. newest
  /\ recent \in BOOLEAN /\ ordered \in BOOLEAN
  /\ enqueue \in [Sessions -> [step : Steps \cup {"idle"}, frame : 0 .. newest]]
  /\ \A s \in Sessions : enqueue[s].step # "idle" => enqueue[s].frame # 0
  /\ outputs \in Seq(1 .. newest) /\ Len(outputs) <= 1

\* What the clients work on.  Only a client that has arrived is registered.
Served ==
  /\ clients \subseteq Clients
  /\ serving \in [Clients -> {"no", "yes", "leaving", "done"}]
  /\ queue \in [Clients -> Seq(Nat \ {0})]
  /\ \A c \in Clients : Len(queue[c]) <= Capacity
  /\ seen \in [Clients -> Nat] /\ due \in [Clients -> Nat]
  /\ preview \subseteq Viewers
  /\ \A c \in clients : serving[c] # "no"

Sender ==
  [step : Steps, data : Nat, to : SUBSET Clients, at : Clients \cup {None}]

\* A sender that has clients left has something for them, is at one of them, and
\* they have arrived; OnAudio has it for listeners and videoOutputLoop for viewers.
Sends ==
  /\ sending \in [Senders -> Sender]
  /\ \A s \in Senders :
       /\ sending[s].to # {} => sending[s].data # 0
       /\ sending[s].step # "try" => sending[s].at \in sending[s].to
       /\ \A c \in sending[s].to : serving[c] # "no"
  /\ \A s \in Sessions : sending[s].to \subseteq Listeners
  /\ sending[Out].to \subseteq Viewers

\* videoOutputLoop sends one frame at a time, and nobody else fills the channel
\* of a viewer: the place it has made is there when it tries again.
Output ==
  /\ job # 0 => sending[Out].to = {}
  /\ \A c \in sending[Out].to : due[c] = sending[Out].data
  /\ sending[Out].step = "again" => Room(sending[Out].at)

IInv == Intake /\ Served /\ Sends /\ Output /\ NewestKept

-----------------------------------------------------------------------------
LEMMA InitIInv == Init => IInv
<1> SUFFICES ASSUME Init PROVE IInv
  OBVIOUS
<1>1. Intake
  <2>1. outputs \in Seq(1 .. newest) /\ Len(outputs) <= 1
    BY EmptySeq DEF Init
  <2>2. enqueue \in [Sessions -> [step : Steps \cup {"idle"}, frame : 0 .. newest]]
    BY DEF Init
  <2>3. \A s \in Sessions : enqueue[s].step # "idle" => enqueue[s].frame # 0
    BY DEF Init
  <2>4. /\ newest \in Nat /\ packets \in Nat /\ updates \in Nat
        /\ latest \in 0 .. newest /\ latestOut \in 0 .. newest /\ job \in 0 .. newest
    BY DEF Init
  <2>5. recent \in BOOLEAN /\ ordered \in BOOLEAN
    BY DEF Init
  <2> QED BY <2>1, <2>2, <2>3, <2>4, <2>5 DEF Intake
<1>2. Served
  <2>1. <<>> \in Seq(Nat \ {0}) /\ Len(<<>>) = 0
    BY EmptySeq
  <2> QED BY <2>1, CapacityAssumption DEF Init, Served
<1>3. Sends /\ Output
  BY DEF Init, Sends, Sender, Output, Senders, Steps
<1>4. NewestKept
  BY DEF Init, NewestKept, LastQueued, Clients
<1> QED BY <1>1, <1>2, <1>3, <1>4 DEF IInv

\* Steps beside the channels: nothing is sent or read, and nobody leaves for good
\* whom a sender still has to serve.
LEMMA Beside ==
  ASSUME IInv, Intake', Served', UNCHANGED <<queue, seen, due, sending>>,
         \A c \in Clients : serving[c] # "no" => serving'[c] # "no",
         job' # 0 => sending[Out].to = {}
  PROVE  IInv'
<1>1. Sends'
  <2>1. \A s \in Senders : sending[s].to \subseteq Clients
    BY DEF IInv, Sends, Sender
  <2> QED BY <2>1 DEF IInv, Sends
<1>2. Output'
  BY DEF IInv, Output, Room
<1>3. NewestKept'
  BY DEF IInv, NewestKept, LastQueued
<1> QED BY <1>1, <1>2, <1>3 DEF IInv

LEMMA GrowSeq ==
  ASSUME NEW n \in Nat, NEW q \in Seq(1 .. n)
  PROVE  q \in Seq(1 .. (n + 1))
OBVIOUS

LEMMA OnVideoStep ==
  ASSUME IInv, NEW s \in Sessions, OnVideo(s)
  PROVE  IInv'
<1>1. newest \in Nat /\ newest' = newest + 1
  BY DEF IInv, Intake, OnVideo
<1>2. \A x \in 0 .. newest : x \in 0 .. newest'
  BY <1>1
<1>3. /\ enqueue' \in [Sessions -> [step : Steps \cup {"idle"}, frame : 0 .. newest']]
      /\ \A z \in Sessions : enqueue'[z].step # "idle" => enqueue'[z].frame # 0
  <2>1. enqueue \in [Sessions -> [step : Steps \cup {"idle"}, frame : 0 .. newest']]
    BY <1>2 DEF IInv, Intake
  <2>2. newest' \in 0 .. newest' /\ newest' # 0 /\ "try" \in Steps
    BY <1>1 DEF Steps
  <2>3. CASE enqueue' = [enqueue EXCEPT ![s] = [step |-> "try", frame |-> newest + 1]]
    BY <1>1, <2>1, <2>2, <2>3 DEF IInv, Intake
  <2>4. CASE UNCHANGED enqueue
    BY <2>1, <2>4 DEF IInv, Intake
  <2> QED BY <2>3, <2>4 DEF OnVideo
<1>4. outputs' \in Seq(1 .. newest') /\ Len(outputs') <= 1
  BY <1>1, GrowSeq DEF IInv, Intake, OnVideo
<1>5. ordered' \in BOOLEAN /\ recent' \in BOOLEAN
  BY DEF OnVideo, Comes
<1>6. /\ packets' \in Nat /\ updates' \in Nat
      /\ latest' \in 0 .. newest' /\ latestOut' \in 0 .. newest' /\ job' \in 0 .. newest'
  BY <1>1, <1>2 DEF IInv, Intake, OnVideo
<1>7. Intake'
  BY <1>1, <1>3, <1>4, <1>5, <1>6 DEF Intake
<1>8. Served'
  BY DEF IInv, Served, OnVideo
<1> QED BY <1>7, <1>8, Beside DEF IInv, Output, OnVideo

LEMMA EnqueueStepType ==
  ASSUME Intake, NEW s \in Sessions, NEW step \in Steps \cup {"idle"}, EnqueueStep(s, step),
         enqueue[s].step # "idle"
  PROVE  /\ enqueue' \in [Sessions -> [step : Steps \cup {"idle"}, frame : 0 .. newest]]
         /\ \A z \in Sessions : enqueue'[z].step # "idle" => enqueue'[z].frame # 0
<1>1. CASE step = "idle"
  <2>1. enqueue' = [enqueue EXCEPT ![s] = [step |-> "idle", frame |-> 0]]
    BY <1>1 DEF EnqueueStep
  <2>2. 0 \in 0 .. newest
    BY DEF Intake
  <2> QED BY <2>1, <2>2 DEF Intake
<1>2. CASE step # "idle"
  <2>1. enqueue' = [enqueue EXCEPT ![s].step = step]
    BY <1>2 DEF EnqueueStep
  <2> QED BY <2>1 DEF Intake
<1> QED BY <1>1, <1>2

LEMMA EnqueueSendStep ==
  ASSUME IInv, NEW s \in Sessions, EnqueueSend(s)
  PROVE  IInv'
<1>1. enqueue[s].step \in {"try", "again"} /\ enqueue[s].step # "idle"
  BY DEF EnqueueSend
<1>2. PICK step \in Steps \cup {"idle"} : EnqueueStep(s, step)
  BY DEF EnqueueSend, Steps
<1>3. /\ enqueue' \in [Sessions -> [step : Steps \cup {"idle"}, frame : 0 .. newest]]
      /\ \A z \in Sessions : enqueue'[z].step # "idle" => enqueue'[z].frame # 0
  BY <1>1, <1>2, EnqueueStepType DEF IInv
<1>4. outputs' \in Seq(1 .. newest) /\ Len(outputs') <= 1
  <2>1. enqueue[s].frame \in 1 .. newest
    BY <1>1 DEF IInv, Intake
  <2>2. <<enqueue[s].frame>> \in Seq(1 .. newest) /\ Len(<<enqueue[s].frame>>) = 1
    BY <2>1
  <2>3. outputs' = <<enqueue[s].frame>> \/ outputs' = outputs
    BY DEF EnqueueSend
  <2>4. outputs \in Seq(1 .. newest) /\ Len(outputs) <= 1
    BY DEF IInv, Intake
  <2>5. CASE outputs' = <<enqueue[s].frame>>
    BY <2>2, <2>5
  <2>6. CASE outputs' = outputs
    BY <2>4, <2>6
  <2> QED BY <2>3, <2>5, <2>6
<1>5. Intake'
  BY <1>3, <1>4 DEF IInv, Intake, EnqueueSend, intake
<1>6. Served'
  BY DEF IInv, Served, EnqueueSend
<1> QED BY <1>5, <1>6, Beside DEF IInv, Output, EnqueueSend

LEMMA EnqueueDropStep ==
  ASSUME IInv, NEW s \in Sessions, EnqueueDrop(s)
  PROVE  IInv'
<1>1. enqueue[s].step # "idle" /\ EnqueueStep(s, "again") /\ "again" \in Steps
  BY DEF EnqueueDrop, Steps
<1>2. /\ enqueue' \in [Sessions -> [step : Steps \cup {"idle"}, frame : 0 .. newest]]
      /\ \A z \in Sessions : enqueue'[z].step # "idle" => enqueue'[z].frame # 0
  BY <1>1, EnqueueStepType DEF IInv
<1>3. outputs' \in Seq(1 .. newest) /\ Len(outputs') <= 1
  BY EmptySeq DEF EnqueueDrop
<1>4. Intake'
  BY <1>2, <1>3 DEF IInv, Intake, EnqueueDrop, intake
<1>5. Served'
  BY DEF IInv, Served, EnqueueDrop
<1> QED BY <1>4, <1>5, Beside DEF IInv, Output, EnqueueDrop

LEMMA TakeJobStep ==
  ASSUME IInv, TakeJob
  PROVE  IInv'
<1>1. job' \in 1 .. newest
  BY DEF IInv, Intake, TakeJob
<1>2. outputs' \in Seq(1 .. newest) /\ Len(outputs') <= 1
  BY EmptySeq DEF TakeJob
<1>3. Intake'
  BY <1>1, <1>2 DEF IInv, Intake, TakeJob, intake
<1>4. Served' /\ sending[Out].to = {}
  BY DEF IInv, Served, TakeJob, Sending
<1> QED BY <1>3, <1>4, Beside DEF TakeJob

LEMMA RenderFailsStep ==
  ASSUME IInv, RenderFails
  PROVE  IInv'
<1>1. Intake'
  BY DEF IInv, Intake, RenderFails, intake
<1>2. Served'
  BY DEF IInv, Served, RenderFails
<1> QED BY <1>1, <1>2, Beside DEF RenderFails

LEMMA LeavesStep ==
  ASSUME IInv, NEW c \in Clients, Leaves(c) \/ RemoveClient(c)
  PROVE  IInv'
<1>1. Intake'
  BY DEF IInv, Intake, Leaves, RemoveClient, intake
<1>2. \A d \in Clients : serving[d] # "no" => serving'[d] # "no"
  BY DEF IInv, Served, Leaves, RemoveClient
<1>3. Served'
  BY <1>2 DEF IInv, Served, Leaves, RemoveClient
<1> QED BY <1>1, <1>2, <1>3, Beside DEF IInv, Output, Leaves, RemoveClient

LEMMA AgesStep ==
  ASSUME IInv, FrameAges \/ UpdateConfig
  PROVE  IInv'
<1>1. Intake'
  <2>1. CASE FrameAges
    BY <2>1 DEF IInv, Intake, FrameAges, intake
  <2>2. CASE UpdateConfig
    <3>1. /\ updates' \in Nat /\ latest' \in 0 .. newest' /\ latestOut' \in 0 .. newest'
          /\ UNCHANGED <<newest, packets, ordered, enqueue, outputs, job>>
      BY <2>2 DEF IInv, Intake, UpdateConfig, intake
    <3>2. recent' \in BOOLEAN
      BY <2>2 DEF UpdateConfig
    <3> QED BY <3>1, <3>2 DEF IInv, Intake
  <2> QED BY <2>1, <2>2
<1>2. Served'
  BY DEF IInv, Served, FrameAges, UpdateConfig
<1> QED BY <1>1, <1>2, Beside DEF IInv, Output, FrameAges, UpdateConfig

-----------------------------------------------------------------------------
(* The channels.                                                             *)

Pieces == Nat \ {0}

LEMMA Appended ==
  ASSUME NEW q \in Seq(Pieces), NEW d \in Pieces
  PROVE  /\ Append(q, d) \in Seq(Pieces) /\ Len(Append(q, d)) = Len(q) + 1
         /\ Append(q, d) # <<>> /\ Append(q, d)[Len(Append(q, d))] = d
BY AppendProperties

LEMMA Taken ==
  ASSUME NEW q \in Seq(Pieces), q # <<>>
  PROVE  /\ Head(q) \in Pieces /\ Tail(q) \in Seq(Pieces) /\ Len(Tail(q)) = Len(q) - 1
         /\ Len(q) \in Nat \ {0}
         /\ IF Tail(q) = <<>> THEN q[Len(q)] = Head(q) ELSE Tail(q)[Len(Tail(q))] = q[Len(q)]
<1>1. Len(q) \in Nat \ {0}
  BY EmptySeq
<1>2. Head(q) = q[1] /\ Head(q) \in Pieces
  BY <1>1
<1>3. /\ Tail(q) \in Seq(Pieces) /\ Len(Tail(q)) = Len(q) - 1
      /\ \A i \in 1 .. (Len(q) - 1) : Tail(q)[i] = q[i + 1]
  BY <1>1
<1>4. CASE Tail(q) = <<>>
  <2>1. Len(q) = 1
    BY <1>1, <1>3, <1>4
  <2> QED BY <1>1, <1>2, <1>3, <1>4, <2>1
<1>5. CASE Tail(q) # <<>>
  <2>1. Len(Tail(q)) \in Nat \ {0}
    BY <1>3, <1>5, EmptySeq
  <2>2. Len(Tail(q)) \in 1 .. (Len(q) - 1) /\ Len(Tail(q)) + 1 = Len(q)
    BY <1>1, <1>3, <2>1
  <2> QED BY <1>1, <1>2, <1>3, <1>5, <2>2
<1> QED BY <1>4, <1>5

LEMMA SameIntake ==
  ASSUME Intake, UNCHANGED <<intake, latest, latestOut, recent, enqueue, outputs, job, updates>>
  PROVE  Intake'
BY DEF Intake, intake

\* A sender that changes the channel q of a client c it has to serve, and goes to x.
LEMMA SenderChanges ==
  ASSUME IInv, NEW s \in Senders, NEW c \in sending[s].to,
         NEW q \in Seq(Pieces), Len(q) <= Capacity, NEW x \in Sender,
         queue' = [queue EXCEPT ![c] = q], sending' = [sending EXCEPT ![s] = x],
         UNCHANGED <<clients, serving, seen, preview, due, job>>, Intake',
         x.data = sending[s].data,
         \/ x.to = sending[s].to /\ (x.step # "try" => x.at = c)
         \/ /\ x.to = sending[s].to \ {c} /\ x.step = "try"
            /\ s = Out => q # <<>> /\ q[Len(q)] = x.data,
         x.step = "again" => Len(q) < Capacity
  PROVE  IInv'
<1>1. /\ sending \in [Senders -> Sender] /\ c \in Clients
      /\ sending'[s] = x /\ x.to \subseteq sending[s].to
      /\ \A z \in Senders : z # s => sending'[z] = sending[z]
  BY DEF IInv, Sends, Sender
<1>2. /\ queue \in [Clients -> Seq(Pieces)] /\ queue'[c] = q
      /\ \A d \in Clients : d # c => queue'[d] = queue[d]
  BY <1>1 DEF IInv, Served, Pieces
<1>3. Served'
  <2>1. queue' \in [Clients -> Seq(Nat \ {0})]
    BY <1>1, <1>2 DEF Pieces
  <2>2. \A d \in Clients : Len(queue'[d]) <= Capacity
    BY <1>1, <1>2 DEF IInv, Served
  <2> QED BY <2>1, <2>2 DEF IInv, Served
<1>4. Sends'
  <2>1. sending' \in [Senders -> Sender]
    BY <1>1
  <2>2. ASSUME NEW z \in Senders
        PROVE  /\ sending'[z].to # {} => sending'[z].data # 0
               /\ sending'[z].step # "try" => sending'[z].at \in sending'[z].to
               /\ \A d \in sending'[z].to : serving'[d] # "no"
    BY <1>1 DEF IInv, Sends
  <2>3. \A z \in Senders : sending'[z].to \subseteq sending[z].to
    BY <1>1
  <2>4. \A z \in Sessions : sending'[z].to \subseteq Listeners
    BY <2>3 DEF IInv, Sends, Senders
  <2>5. sending'[Out].to \subseteq Viewers
    BY <2>3 DEF IInv, Sends, Senders
  <2> QED BY <2>1, <2>2, <2>4, <2>5 DEF Sends
<1>5. CASE s = Out
  <2>1. c \in Viewers /\ sending'[Out] = x
    BY <1>1, <1>5 DEF IInv, Sends
  <2>2. Output'
    BY <1>1, <1>2, <1>5 DEF IInv, Output, Room
  <2>3. NewestKept'
    <3> SUFFICES ASSUME NEW v \in Viewers, v \notin x.to
                 PROVE  LastQueued(v)' = due'[v]
      BY <2>1 DEF NewestKept
    <3>1. CASE v = c
      BY <1>2, <1>5, <3>1 DEF LastQueued, IInv, Output
    <3>2. CASE v # c
      <4>1. v \notin sending[Out].to /\ v \in Clients
        BY <1>5, <3>2 DEF Clients
      <4> QED BY <1>2, <3>2, <4>1 DEF IInv, NewestKept, LastQueued
    <3> QED BY <3>1, <3>2
  <2> QED BY <1>3, <1>4, <2>2, <2>3 DEF IInv
<1>6. CASE s # Out
  <2>1. c \in Listeners /\ c \notin Viewers /\ sending'[Out] = sending[Out]
    BY <1>1, <1>6, ClientsAssumption DEF IInv, Sends, Senders
  <2>2. \A v \in Viewers : queue'[v] = queue[v]
    BY <1>2, <2>1 DEF Clients
  <2>3. Output'
    <3>1. sending[Out].step = "again" => sending[Out].at \in Viewers
      BY DEF IInv, Sends, Senders
    <3> QED BY <2>1, <2>2, <3>1 DEF IInv, Output, Room
  <2>4. NewestKept'
    BY <2>1, <2>2 DEF IInv, NewestKept, LastQueued
  <2> QED BY <1>3, <1>4, <2>3, <2>4 DEF IInv
<1> QED BY <1>5, <1>6

\* What a sender that has a client to serve looks like.
LEMMA SenderType ==
  ASSUME IInv, NEW s \in Senders, NEW c \in sending[s].to
  PROVE  /\ sending \in [Senders -> Sender] /\ sending[s].data \in Pieces /\ c \in Clients
         /\ queue[c] \in Seq(Pieces) /\ Len(queue[c]) <= Capacity
         /\ queue \in [Clients -> Seq(Pieces)]
BY DEF IInv, Sends, Sender, Served, Pieces

\* A sender that is through with c.
Moved(s, c) == [sending[s] EXCEPT !.step = "try", !.to = @ \ {c}, !.at = None]

LEMMA SendNextType ==
  ASSUME IInv, NEW s \in Senders, NEW c \in sending[s].to, SendNext(s, c)
  PROVE  /\ Moved(s, c) \in Sender /\ sending' = [sending EXCEPT ![s] = Moved(s, c)]
         /\ Moved(s, c).data = sending[s].data /\ Moved(s, c).step = "try"
         /\ Moved(s, c).to = sending[s].to \ {c}
BY SenderType DEF SendNext, Moved, Sender, Steps

LEMMA SendTryStep ==
  ASSUME IInv, NEW s \in Senders, NEW c \in Clients, SendTry(s, c)
  PROVE  IInv'
<1>1. /\ c \in sending[s].to /\ Intake'
      /\ UNCHANGED <<clients, serving, seen, preview, due, job>>
  BY SameIntake DEF SendTry, IInv
<1>2. CASE Room(c)
  <2>1. SendNext(s, c) /\ queue' = [queue EXCEPT ![c] = Append(queue[c], sending[s].data)]
    BY <1>2 DEF SendTry
  <2>2. sending[s].data \in Pieces /\ queue[c] \in Seq(Pieces)
    BY <1>1, SenderType
  <2> DEFINE q == Append(queue[c], sending[s].data)
  <2>3. /\ q \in Seq(Pieces) /\ Len(q) <= Capacity /\ q # <<>>
        /\ q[Len(q)] = sending[s].data
    <3>1. Len(q) = Len(queue[c]) + 1
      BY <2>2, Appended
    <3>2. Len(queue[c]) < Capacity /\ Len(queue[c]) \in Nat
      BY <1>2, <2>2 DEF Room
    <3> QED BY <2>2, <3>1, <3>2, CapacityAssumption, Appended
  <2> DEFINE x == Moved(s, c)
  <2>4. /\ x \in Sender /\ sending' = [sending EXCEPT ![s] = x]
        /\ x.data = sending[s].data /\ x.step = "try" /\ x.to = sending[s].to \ {c}
    BY <1>1, <2>1, SendNextType
  <2>5. queue' = [queue EXCEPT ![c] = q]
    BY <2>1
  <2>6. x.step # "again"
    BY <2>4
  <2> HIDE DEF q, x
  <2> QED BY <1>1, <2>3, <2>4, <2>5, <2>6, SenderChanges
<1>3. CASE ~Room(c)
  <2> DEFINE x == [sending[s] EXCEPT !.step = "drop", !.at = c]
  <2>1. /\ x \in Sender /\ sending' = [sending EXCEPT ![s] = x] /\ x.data = sending[s].data
        /\ x.to = sending[s].to /\ x.at = c /\ x.step = "drop"
    BY <1>1, <1>3, SenderType DEF SendTry, Sender, Steps
  <2>2. queue' = [queue EXCEPT ![c] = queue[c]]
    BY <1>1, <1>3, SenderType DEF SendTry
  <2> HIDE DEF x
  <2> QED BY <1>1, <2>1, <2>2, SenderType, SenderChanges
<1> QED BY <1>2, <1>3

LEMMA SendDropStep ==
  ASSUME IInv, NEW s \in Senders, SendDrop(s)
  PROVE  IInv'
<1> DEFINE c == sending[s].at
           x == [sending[s] EXCEPT !.step = "again"]
           q == IF queue[c] = <<>> THEN <<>> ELSE Tail(queue[c])
<1>1. sending[s].step = "drop" /\ c \in sending[s].to
  BY DEF SendDrop, IInv, Sends
<1>2. Intake' /\ UNCHANGED <<clients, serving, seen, preview, due, job>>
  BY SameIntake DEF SendDrop, IInv
<1>3. /\ x \in Sender /\ sending' = [sending EXCEPT ![s] = x] /\ x.data = sending[s].data
      /\ x.to = sending[s].to /\ x.at = c /\ x.step = "again"
  BY <1>1, SenderType DEF SendDrop, Sender, Steps
<1>4. /\ queue \in [Clients -> Seq(Pieces)] /\ queue[c] \in Seq(Pieces) /\ c \in Clients
      /\ Len(queue[c]) <= Capacity
  BY <1>1, SenderType
<1>5. queue' = [queue EXCEPT ![c] = q]
  BY <1>4 DEF SendDrop
<1>6. q \in Seq(Pieces) /\ Len(q) < Capacity /\ Len(q) <= Capacity
  <2>1. CASE queue[c] = <<>>
    BY <2>1, EmptySeq, CapacityAssumption
  <2>2. CASE queue[c] # <<>>
    BY <1>4, <2>2, Taken, CapacityAssumption
  <2> QED BY <2>1, <2>2
<1> HIDE DEF c, x, q
<1> QED BY <1>1, <1>2, <1>3, <1>5, <1>6, SenderChanges

LEMMA SendAgainStep ==
  ASSUME IInv, NEW s \in Senders, SendAgain(s)
  PROVE  IInv'
<1> DEFINE c == sending[s].at
           q == IF Room(c) THEN Append(queue[c], sending[s].data) ELSE queue[c]
<1>1. sending[s].step = "again" /\ c \in sending[s].to
  BY DEF SendAgain, IInv, Sends
<1>2. Intake' /\ UNCHANGED <<clients, serving, seen, preview, due, job>>
  BY SameIntake DEF SendAgain, IInv
<1>3. SendNext(s, c)
  BY DEF SendAgain
<1>4. /\ queue \in [Clients -> Seq(Pieces)] /\ queue[c] \in Seq(Pieces) /\ c \in Clients
      /\ Len(queue[c]) <= Capacity /\ sending[s].data \in Pieces
  BY <1>1, SenderType
<1>5. queue' = [queue EXCEPT ![c] = q]
  BY <1>4 DEF SendAgain
<1>6. q \in Seq(Pieces) /\ Len(q) <= Capacity
  BY <1>4, Appended, CapacityAssumption DEF Room
<1>7. s = Out => q # <<>> /\ q[Len(q)] = sending[s].data
  <2>1. s = Out => Room(c)
    BY <1>1 DEF IInv, Output
  <2> QED BY <1>4, <2>1, Appended
<1> DEFINE x == Moved(s, c)
<1>8. /\ x \in Sender /\ sending' = [sending EXCEPT ![s] = x]
      /\ x.data = sending[s].data /\ x.step = "try" /\ x.to = sending[s].to \ {c}
  BY <1>1, <1>3, SendNextType
<1>9. x.step # "again"
  BY <1>8
<1> HIDE DEF c, q, x
<1> QED BY <1>1, <1>2, <1>5, <1>6, <1>7, <1>8, <1>9, SenderChanges

\* videoOutputLoop and OnAudio start to send to the clients that are registered.
LEMMA RenderedStep ==
  ASSUME IInv, Rendered
  PROVE  IInv'
<1>1. job \in Pieces /\ job \in 0 .. newest /\ sending[Out].to = {}
  BY DEF Rendered, IInv, Intake, Output, Pieces
<1>2. Intake'
  <2>1. latestOut' \in 0 .. newest /\ job' \in 0 .. newest
    BY <1>1 DEF Rendered, IInv, Intake
  <2> QED BY <2>1 DEF Rendered, IInv, Intake, intake
<1> DEFINE x == [step |-> "try", data |-> job, to |-> clients \cap Viewers, at |-> None]
<1>3. /\ sending' = [sending EXCEPT ![Out] = x] /\ job' = 0
      /\ due' = [c \in Clients |-> IF c \in clients \cap Viewers THEN job ELSE due[c]]
      /\ UNCHANGED <<clients, serving, queue, seen, preview>>
  BY DEF Rendered, SendTo
<1>4. Served'
  BY <1>1, <1>3 DEF IInv, Served, Pieces
<1>5. x \in Sender
  BY <1>1 DEF Sender, Steps, Pieces, IInv, Served
<1>6. Sends'
  <2>1. sending' \in [Senders -> Sender]
    BY <1>3, <1>5 DEF IInv, Sends
  <2>2. sending'[Out] = x /\ \A z \in Senders : z # Out => sending'[z] = sending[z]
    BY <1>3 DEF IInv, Sends, Senders
  <2>3. \A z \in Sessions : sending'[z] = sending[z]
    BY <2>2, OutAssumption DEF Senders
  <2> QED BY <1>1, <1>3, <2>1, <2>2, <2>3 DEF IInv, Sends, Served, Senders, Pieces
<1>7. sending'[Out] = x
  BY <1>3 DEF IInv, Sends, Senders
<1>8. Output'
  BY <1>3, <1>7 DEF Output, Clients
<1>9. NewestKept'
  BY <1>1, <1>3, <1>7 DEF IInv, NewestKept, LastQueued, Clients
<1> QED BY <1>2, <1>4, <1>6, <1>8, <1>9 DEF IInv

LEMMA OnAudioStep ==
  ASSUME IInv, NEW s \in Sessions, OnAudio(s)
  PROVE  IInv'
<1>1. packets' \in Nat /\ packets + 1 \in Pieces
  BY DEF OnAudio, IInv, Intake, Pieces
<1>2. Intake'
  <2>1. ordered' \in BOOLEAN
    BY DEF OnAudio, Comes
  <2> QED BY <1>1, <2>1 DEF OnAudio, IInv, Intake
<1> DEFINE x == [step |-> "try", data |-> packets + 1, to |-> clients \cap Listeners, at |-> None]
<1>3. /\ sending' = [sending EXCEPT ![s] = x]
      /\ due' = [c \in Clients |-> IF c \in clients \cap Listeners THEN packets + 1 ELSE due[c]]
      /\ UNCHANGED <<clients, serving, queue, seen, preview, job>>
  BY DEF OnAudio, SendTo
<1>4. Served'
  BY <1>1, <1>3 DEF IInv, Served, Pieces
<1>5. x \in Sender
  BY <1>1 DEF Sender, Steps, Pieces, IInv, Served
<1>6. /\ sending' \in [Senders -> Sender] /\ sending'[s] = x
      /\ \A z \in Senders : z # s => sending'[z] = sending[z]
  BY <1>3, <1>5 DEF IInv, Sends, Senders
<1>7. sending'[Out] = sending[Out]
  BY <1>6, OutAssumption DEF Senders
<1>8. Sends'
  BY <1>1, <1>3, <1>6, <1>7 DEF IInv, Sends, Served, Senders, Pieces
<1>9. \A v \in Viewers : due'[v] = due[v]
  BY <1>3, ClientsAssumption DEF Clients
<1>10. Output'
  <2>1. \A v \in sending[Out].to : v \in Viewers
    BY DEF IInv, Sends
  <2> QED BY <1>3, <1>7, <1>9, <2>1 DEF IInv, Output, Room
<1>11. NewestKept'
  BY <1>3, <1>7, <1>9 DEF IInv, NewestKept, LastQueued
<1> QED BY <1>2, <1>4, <1>8, <1>10, <1>11 DEF IInv

-----------------------------------------------------------------------------
(* The clients.                                                              *)

\* A handler that changes only its own channel, client and status.
LEMMA ClientChanges ==
  ASSUME IInv, NEW c \in Clients, Intake', Served', UNCHANGED <<sending, job>>,
         \A d \in Clients : d # c => /\ queue'[d] = queue[d] /\ seen'[d] = seen[d]
                                     /\ due'[d] = due[d] /\ serving'[d] = serving[d],
         serving[c] # "no" => serving'[c] # "no",
         c \in Viewers /\ c \notin sending[Out].to => LastQueued(c)' = due'[c],
         c \in sending[Out].to => due'[c] = due[c] /\ Len(queue'[c]) <= Len(queue[c])
  PROVE  IInv'
<1>1. \A s \in Senders : sending[s].to \subseteq Clients
  BY DEF IInv, Sends, Sender
<1>2. Sends'
  BY <1>1 DEF IInv, Sends
<1>3. Output'
  <2>1. \A d \in sending[Out].to : due'[d] = due[d]
    BY <1>1 DEF Senders
  <2>2. ASSUME sending[Out].step = "again" PROVE Room(sending[Out].at)'
    <3>1. sending[Out].at \in sending[Out].to /\ Room(sending[Out].at)
      BY <2>2 DEF IInv, Sends, Output, Senders
    <3>2. /\ sending[Out].at \in Clients
          /\ queue \in [Clients -> Seq(Pieces)] /\ queue' \in [Clients -> Seq(Pieces)]
      BY <1>1, <3>1 DEF Senders, IInv, Served, Pieces
    <3>3. Len(queue'[sending[Out].at]) <= Len(queue[sending[Out].at])
      <4>1. Len(queue[sending[Out].at]) \in Nat
        BY <3>2
      <4>2. CASE sending[Out].at = c
        BY <3>1, <4>2
      <4>3. CASE sending[Out].at # c
        BY <3>2, <4>1, <4>3
      <4> QED BY <4>2, <4>3
    <3> QED BY <3>1, <3>2, <3>3, CapacityAssumption DEF Room
  <2> QED BY <2>1, <2>2 DEF IInv, Output
<1>4. NewestKept'
  BY DEF IInv, NewestKept, LastQueued, Clients
<1> QED BY <1>2, <1>3, <1>4 DEF IInv

LEMMA ArrivesFacts ==
  ASSUME IInv, NEW c \in Clients, Arrives(c)
  PROVE  /\ serving' \in [Clients -> {"no", "yes", "leaving", "done"}]
         /\ clients' \subseteq Clients /\ \A d \in clients' : serving'[d] # "no"
         /\ \A d \in Clients : d # c => serving'[d] = serving[d]
         /\ serving'[c] = "yes" /\ c \notin sending[Out].to
BY DEF Arrives, IInv, Served, Sends, Senders

LEMMA ServeVideoStep ==
  ASSUME IInv, NEW v \in Viewers, ServeVideo(v)
  PROVE  IInv'
<1>1. v \in Clients /\ Arrives(v)
  BY DEF ServeVideo, Clients
<1>2. Intake' /\ UNCHANGED <<sending, seen, job>>
  BY SameIntake DEF ServeVideo, IInv
<1>3. CASE recent /\ FirstFrame # 0
  <2>1. FirstFrame \in Pieces
    BY <1>3 DEF FirstFrame, IInv, Intake, Pieces
  <2>2. /\ queue' = [queue EXCEPT ![v] = <<FirstFrame>>]
        /\ due' = [due EXCEPT ![v] = FirstFrame]
        /\ preview' \subseteq Viewers
    BY <1>3 DEF ServeVideo, IInv, Served
  <2>3. /\ <<FirstFrame>> \in Seq(Pieces) /\ Len(<<FirstFrame>>) = 1 /\ <<FirstFrame>> # <<>>
        /\ <<FirstFrame>>[1] = FirstFrame
    BY <2>1
  <2>4. queue \in [Clients -> Seq(Pieces)] /\ due \in [Clients -> Nat]
    BY DEF IInv, Served, Pieces
  <2>5. queue' \in [Clients -> Seq(Pieces)] /\ due' \in [Clients -> Nat]
    BY <1>1, <2>1, <2>2, <2>3, <2>4 DEF Pieces
  <2>6. /\ queue'[v] = <<FirstFrame>> /\ due'[v] = FirstFrame
        /\ \A d \in Clients : d # v => queue'[d] = queue[d] /\ due'[d] = due[d]
    BY <1>1, <2>2, <2>4
  <2>7. ASSUME NEW d \in Clients PROVE Len(queue'[d]) <= Capacity
    <3>1. CASE d = v
      <4>1. queue'[d] = <<FirstFrame>>
        BY <2>6, <3>1
      <4>2. Len(queue'[d]) = 1
        BY <2>3, <4>1
      <4> QED BY <4>2, CapacityAssumption
    <3>2. CASE d # v
      BY <2>6, <3>2 DEF IInv, Served
    <3> QED BY <3>1, <3>2
  <2>8. Served'
    BY <1>1, <1>2, <2>2, <2>5, <2>7, ArrivesFacts DEF IInv, Served, Pieces
  <2>9. LastQueued(v)' = due'[v]
    BY <2>3, <2>6 DEF LastQueued
  <2> QED BY <1>1, <1>2, <2>6, <2>8, <2>9, ArrivesFacts, ClientChanges
<1>4. CASE ~(recent /\ FirstFrame # 0)
  <2>1. UNCHANGED <<queue, due, preview>>
    BY <1>4 DEF ServeVideo
  <2>2. Served'
    BY <1>1, <1>2, <2>1, ArrivesFacts DEF IInv, Served
  <2>3. LastQueued(v)' = due'[v]
    BY <1>1, <1>2, <2>1, ArrivesFacts DEF IInv, NewestKept, LastQueued
  <2> QED BY <1>1, <1>2, <2>1, <2>2, <2>3, ArrivesFacts, ClientChanges
<1> QED BY <1>3, <1>4

LEMMA ServeAudioStep ==
  ASSUME IInv, NEW v \in Listeners, ServeAudio(v)
  PROVE  IInv'
<1>1. v \in Clients /\ Arrives(v) /\ v \notin Viewers
  BY ClientsAssumption DEF ServeAudio, Clients
<1>2. Intake' /\ UNCHANGED <<sending, seen, job, queue, due, preview>>
  BY SameIntake DEF ServeAudio, IInv
<1>3. Served'
  BY <1>1, <1>2, ArrivesFacts DEF IInv, Served
<1> QED BY <1>1, <1>2, <1>3, ArrivesFacts, ClientChanges

LEMMA WriteStep ==
  ASSUME IInv, NEW c \in Clients, Write(c)
  PROVE  IInv'
<1>1. Intake' /\ UNCHANGED <<clients, serving, sending, due, job>>
  BY SameIntake DEF Write, IInv
<1>2. /\ queue[c] \in Seq(Pieces) /\ queue[c] # <<>> /\ Len(queue[c]) <= Capacity
      /\ queue \in [Clients -> Seq(Pieces)] /\ seen \in [Clients -> Nat]
  BY DEF Write, IInv, Served, Pieces
<1>3. /\ queue' = [queue EXCEPT ![c] = Tail(queue[c])]
      /\ seen' = [seen EXCEPT ![c] = Head(queue[c])]
      /\ preview' \subseteq Viewers
  BY <1>2 DEF Write, IInv, Served
<1>4. /\ queue'[c] = Tail(queue[c]) /\ seen'[c] = Head(queue[c])
      /\ \A d \in Clients : d # c => queue'[d] = queue[d] /\ seen'[d] = seen[d]
  BY <1>2, <1>3
<1>5. queue' \in [Clients -> Seq(Pieces)] /\ seen' \in [Clients -> Nat]
  BY <1>2, <1>3, Taken DEF Pieces
<1>6. Len(queue'[c]) <= Len(queue[c]) /\ Len(queue'[c]) <= Capacity
  BY <1>2, <1>4, Taken, CapacityAssumption
<1>7. \A d \in Clients : Len(queue'[d]) <= Capacity
  BY <1>4, <1>6 DEF IInv, Served
<1>8. Served'
  BY <1>1, <1>3, <1>5, <1>7 DEF IInv, Served, Pieces
<1>9. LastQueued(c)' = LastQueued(c)
  BY <1>2, <1>4, Taken DEF LastQueued
<1>10. c \in Viewers /\ c \notin sending[Out].to => LastQueued(c)' = due'[c]
  BY <1>1, <1>9 DEF IInv, NewestKept
<1> QED BY <1>1, <1>4, <1>6, <1>8, <1>10, ClientChanges

-----------------------------------------------------------------------------
LEMMA StepIInv == IInv /\ [Next]_vars => IInv'
<1> SUFFICES ASSUME IInv, [Next]_vars PROVE IInv'
  OBVIOUS
<1>1. ASSUME NEW s \in Sessions, SessionStep(s) PROVE IInv'
  BY <1>1, OnVideoStep, EnqueueSendStep, EnqueueDropStep, OnAudioStep DEF SessionStep
<1>2. ASSUME NEW s \in Senders, SenderStep(s) PROVE IInv'
  BY <1>2, SendTryStep, SendDropStep, SendAgainStep DEF SenderStep
<1>3. CASE OutputStep
  BY <1>3, TakeJobStep, RenderedStep, RenderFailsStep DEF OutputStep
<1>4. ASSUME NEW c \in Clients, ClientStep(c) PROVE IInv'
  BY <1>4, WriteStep, LeavesStep DEF ClientStep, HangsUp, Idles
<1>5. CASE UNCHANGED vars
  <2>1. Intake'
    BY <1>5, SameIntake DEF IInv, vars
  <2>2. Served'
    BY <1>5 DEF IInv, Served, vars
  <2> QED BY <1>5, <2>1, <2>2, Beside DEF IInv, Output, vars
<1> QED BY <1>1, <1>2, <1>3, <1>4, <1>5, ServeVideoStep, ServeAudioStep, AgesStep DEF Next

LEMMA IInvMeans == IInv => Inv
BY DEF IInv, Intake, Served, Sends, Sender, TypeOK, Inv

\* Channels hold what they have places for, and once videoOutputLoop is through
\* with a viewer, the newest frame it sent is the last in the viewer's channel or
\* the last the viewer has read: sendDropOld drops the oldest, however it races with
\* the reader, other sessions, clients that come and go, and UpdateConfig.
THEOREM NewestFrameKept == Spec => []Inv
BY InitIInv, StepIInv, IInvMeans, PTL DEF Spec
-----------------------------------------------------------------------------
(* The order of the feeds.                                                   *)

\* What a client has yet to get is above low, and increases from the place first on:
\* only what a viewer is shown first may be newer than what follows.
Rises(q, first, low) ==
  /\ \A i \in 1 .. Len(q) : low < q[i]
  /\ \A i, j \in 1 .. Len(q) : first <= i /\ i < j => q[i] < q[j]

\* The piece n may follow.
Precedes(q, first, low, n) == low < n /\ \A i \in 1 .. Len(q) : first <= i => q[i] < n

First(c) == IF c \in preview /\ seen[c] = 0 THEN 2 ELSE 1
Low(c) == IF c \in preview THEN 0 ELSE seen[c]
InLine(c) == Rises(queue[c], First(c), Low(c))
Fresh(c, n) == Precedes(queue[c], First(c), Low(c), n)

\* Frames and packets have numbers that OnVideo and OnAudio have given.
Highest(c) == IF c \in Viewers THEN newest ELSE packets

Numbered ==
  /\ \A c \in Clients : seen[c] <= Highest(c)
  /\ \A c \in Clients : \A i \in 1 .. Len(queue[c]) : queue[c][i] <= Highest(c)
  /\ \A s \in Senders : \A c \in sending[s].to : sending[s].data <= Highest(c)

\* A client that has not arrived has got nothing.
Fresher ==
  \A c \in Clients : serving[c] = "no" => queue[c] = <<>> /\ seen[c] = 0 /\ c \notin preview

\* The frame n has everything before it that videoOutputLoop has rendered.
Passed(n) ==
  /\ latestOut < n
  /\ sending[Out].to # {} => sending[Out].data < n
  /\ \A v \in Viewers : Fresh(v, n)

Line ==
  /\ \A s, z \in Sessions : Busy(s) /\ Busy(z) => s = z
  /\ \A s \in Sessions : enqueue[s].step # "idle" =>
       /\ Passed(enqueue[s].frame) /\ job < enqueue[s].frame
       /\ \A i \in 1 .. Len(outputs) : outputs[i] < enqueue[s].frame
  /\ \A i \in 1 .. Len(outputs) : Passed(outputs[i]) /\ job < outputs[i]
  /\ job # 0 => Passed(job)
  /\ \A s \in Senders : \A c \in sending[s].to : Fresh(c, sending[s].data)
  /\ \A c \in Clients : InLine(c)

Order == Numbered /\ Fresher /\ (ordered => Line)

OInv == IInv /\ Order

LEMMA PushLine ==
  ASSUME NEW q \in Seq(Pieces), NEW d \in Pieces, NEW first \in {1, 2}, NEW low \in Nat,
         Rises(q, first, low), Precedes(q, first, low, d)
  PROVE  /\ Rises(Append(q, d), first, low)
         /\ \A n \in Nat : d < n => Precedes(Append(q, d), first, low, n)
<1>1. /\ Len(q) \in Nat /\ Len(Append(q, d)) = Len(q) + 1
      /\ \A i \in 1 .. Len(q) : Append(q, d)[i] = q[i] /\ q[i] \in Nat
      /\ Append(q, d)[Len(q) + 1] = d /\ d \in Nat
  BY AppendProperties DEF Pieces
<1> DEFINE p == Append(q, d)
<1> HIDE DEF p
<1>2. \A i \in 1 .. (Len(q) + 1) : i \in 1 .. Len(q) \/ i = Len(q) + 1
  BY <1>1
<1>3. Rises(p, first, low)
  BY <1>1, <1>2 DEF p, Rises, Precedes
<1>4. ASSUME NEW n \in Nat, d < n PROVE Precedes(p, first, low, n)
  BY <1>1, <1>2, <1>4 DEF p, Precedes
<1> QED BY <1>3, <1>4 DEF p

LEMMA TailLine ==
  ASSUME NEW q \in Seq(Pieces), q # <<>>, NEW first \in {1, 2}, NEW low \in Nat,
         Rises(q, first, low)
  PROVE  /\ Rises(Tail(q), first, low)
         /\ \A n \in Nat : Precedes(q, first, low, n) => Precedes(Tail(q), first, low, n)
<1>1. /\ Len(q) \in Nat \ {0} /\ Len(Tail(q)) = Len(q) - 1
      /\ \A i \in 1 .. (Len(q) - 1) : Tail(q)[i] = q[i + 1]
  BY EmptySeq
<1> QED BY <1>1 DEF Rises, Precedes

\* Reading what a viewer is shown first leaves a channel that is in order.
LEMMA ReadFirst ==
  ASSUME NEW q \in Seq(Pieces), q # <<>>, Rises(q, 2, 0)
  PROVE  /\ Rises(Tail(q), 1, 0)
         /\ \A n \in Nat : Precedes(q, 2, 0, n) => Precedes(Tail(q), 1, 0, n)
<1>1. /\ Len(q) \in Nat \ {0} /\ Len(Tail(q)) = Len(q) - 1
      /\ \A i \in 1 .. (Len(q) - 1) : Tail(q)[i] = q[i + 1]
  BY EmptySeq
<1> QED BY <1>1 DEF Rises, Precedes

LEMMA ReadNext ==
  ASSUME NEW q \in Seq(Pieces), q # <<>>, NEW low \in Nat, Rises(q, 1, low)
  PROVE  /\ Rises(Tail(q), 1, Head(q))
         /\ \A n \in Nat : Precedes(q, 1, low, n) => Precedes(Tail(q), 1, Head(q), n)
<1>1. /\ Len(q) \in Nat \ {0} /\ Len(Tail(q)) = Len(q) - 1
      /\ \A i \in 1 .. (Len(q) - 1) : Tail(q)[i] = q[i + 1]
      /\ Head(q) = q[1]
  BY EmptySeq
<1> QED BY <1>1 DEF Rises, Precedes

LEMMA PrecedesMore ==
  ASSUME NEW q \in Seq(Nat), NEW first \in {1, 2}, NEW low \in Nat, NEW m \in Nat, NEW n \in Nat,
         m < n, Precedes(q, first, low, m)
  PROVE  Precedes(q, first, low, n)
BY DEF Precedes

-----------------------------------------------------------------------------
(* Steps that change no channel and no sender keep the order.                *)

LEMMA LineTypes ==
  ASSUME IInv, NEW c \in Clients
  PROVE  /\ queue[c] \in Seq(Pieces) /\ seen[c] \in Nat
         /\ First(c) \in {1, 2} /\ Low(c) \in Nat
BY DEF IInv, Served, Pieces, First, Low

LEMMA QuietNumbers ==
  ASSUME IInv, Order, UNCHANGED <<queue, seen, sending, preview>>,
         newest' \in {newest, newest + 1}, packets' \in {packets, packets + 1},
         \A c \in Clients : serving'[c] = "no" => serving[c] = "no"
  PROVE  Numbered' /\ Fresher'
<1>1. \A c \in Clients : Highest(c) \in Nat /\ Highest(c)' \in Nat /\ Highest(c)' >= Highest(c)
  BY DEF IInv, Intake, Highest
<1>2. ASSUME NEW c \in Clients
      PROVE  seen[c] <= Highest(c)' /\ \A i \in 1 .. Len(queue[c]) : queue[c][i] <= Highest(c)'
  BY <1>1, LineTypes DEF Order, Numbered, Pieces
<1>3. ASSUME NEW s \in Senders, NEW c \in sending[s].to PROVE sending[s].data <= Highest(c)'
  BY <1>1, SenderType DEF Order, Numbered, Pieces
<1>4. Numbered' BY <1>2, <1>3 DEF Numbered
<1>5. Fresher' BY DEF Order, Fresher
<1> QED BY <1>4, <1>5

LEMMA OnVideoOrder ==
  ASSUME IInv, Order, NEW s \in Sessions, OnVideo(s) PROVE Order'
<1>1. /\ UNCHANGED <<queue, seen, sending, preview, serving, packets, outputs, job, latestOut>>
      /\ newest' = newest + 1 /\ newest \in Nat
  BY DEF OnVideo, IInv, Intake
<1>2. Numbered' /\ Fresher' BY <1>1, QuietNumbers
<1>3. ASSUME ordered' PROVE Line'
  <2>1. ordered /\ (\A z \in Sessions : ~Busy(z)) /\ Line BY <1>3 DEF OnVideo, Comes, Order
  <2>2. \A z \in Sessions : z # s => enqueue'[z] = enqueue[z] /\ enqueue[z].step = "idle"
    BY <2>1 DEF OnVideo, Busy, IInv, Intake
  <2>3. enqueue'[s].step # "idle" => enqueue'[s].frame = newest + 1
    BY <2>1 DEF OnVideo, Busy, IInv, Intake
  <2>4. ASSUME NEW v \in Viewers PROVE Precedes(queue[v], First(v), Low(v), newest + 1)
    <3>1. v \in Clients /\ Highest(v) = newest BY DEF Clients, Highest
    <3> QED BY <1>1, <3>1, LineTypes DEF Order, Numbered, Precedes, Low, Pieces
  <2>5. /\ latestOut < newest + 1 /\ job < newest + 1
        /\ \A i \in 1 .. Len(outputs) : outputs[i] < newest + 1
    BY <1>1 DEF IInv, Intake
  <2>6. sending[Out].to # {} => sending[Out].data < newest + 1
    <3> SUFFICES ASSUME NEW v \in sending[Out].to PROVE sending[Out].data < newest + 1
      OBVIOUS
    <3>1. Out \in Senders /\ v \in Viewers BY DEF Senders, IInv, Sends
    <3>2. sending[Out].data \in Nat /\ sending[Out].data <= newest
      BY <3>1, SenderType DEF Pieces, Order, Numbered, Highest
    <3> QED BY <1>1, <3>2
  <2> QED BY <1>1, <2>1, <2>2, <2>3, <2>4, <2>5, <2>6
       DEF Line, Passed, Fresh, InLine, First, Low, Busy, Sending
<1> QED BY <1>2, <1>3 DEF Order

\* A step of enqueueVideoOutput of the only session that is at work.
LEMMA EnqueueOrder ==
  ASSUME IInv, Order, NEW s \in Sessions, EnqueueSend(s) \/ EnqueueDrop(s) PROVE Order'
<1>1. /\ UNCHANGED <<queue, seen, sending, preview, serving, packets, newest,
                  job, latestOut, ordered>>
      /\ enqueue[s].step # "idle"
  BY DEF EnqueueSend, EnqueueDrop, intake
<1>2. Numbered' /\ Fresher' BY <1>1, QuietNumbers
<1>3. ASSUME ordered' PROVE Line'
  <2>1. Line BY <1>1, <1>3 DEF Order
  <2>2. \A z \in Sessions : z # s =>
          enqueue[z].step = "idle" /\ ~Busy(z) /\ enqueue'[z] = enqueue[z]
    BY <1>1, <2>1 DEF Line, Busy, EnqueueSend, EnqueueDrop, EnqueueStep, IInv, Intake
  <2>3. enqueue'[s].step # "idle" => enqueue'[s].frame = enqueue[s].frame
    BY DEF EnqueueSend, EnqueueDrop, EnqueueStep, IInv, Intake
  <2>4. Passed(enqueue[s].frame) /\ job < enqueue[s].frame BY <1>1, <2>1 DEF Line
  <2>5. \/ outputs' = outputs
        \/ outputs' = <<>>
        \/ outputs' = <<enqueue[s].frame>> /\ enqueue'[s].step = "idle"
    BY DEF EnqueueSend, EnqueueDrop, EnqueueStep, IInv, Intake
  <2>6. \A i \in 1 .. Len(outputs') : Passed(outputs'[i]) /\ job < outputs'[i]
    BY <2>1, <2>4, <2>5 DEF Line
  <2>7. enqueue'[s].step # "idle" => \A i \in 1 .. Len(outputs') : outputs'[i] < enqueue'[s].frame
    BY <1>1, <2>1, <2>3, <2>5 DEF Line
  <2> QED BY <1>1, <2>1, <2>2, <2>3, <2>4, <2>6, <2>7
       DEF Line, Passed, Fresh, InLine, First, Low, Busy, Sending
<1> QED BY <1>2, <1>3 DEF Order

LEMMA JobOrder == ASSUME IInv, Order, TakeJob \/ RenderFails PROVE Order'
<1>1. UNCHANGED <<queue, seen, sending, preview, serving, packets, newest,
                  enqueue, latestOut, ordered>>
  BY DEF TakeJob, RenderFails, intake
<1>2. Numbered' /\ Fresher' BY <1>1, QuietNumbers
<1>3. ASSUME ordered' PROVE Line'
  <2>1. Line BY <1>1, <1>3 DEF Order
  <2>2. \/ job' = 0 /\ outputs' = outputs
        \/ job' = outputs[1] /\ outputs' = <<>> /\ 1 \in 1 .. Len(outputs)
    BY DEF TakeJob, RenderFails, IInv, Intake
  <2>3. job' # 0 => Passed(job') BY <2>1, <2>2 DEF Line
  <2>4. \A i \in 1 .. Len(outputs') : job' < outputs'[i] BY <2>2 DEF IInv, Intake
  <2>5. \A s \in Sessions : enqueue[s].step # "idle" => job' < enqueue[s].frame
    BY <2>1, <2>2 DEF Line, IInv, Intake
  <2>6. \A i \in 1 .. Len(outputs') :
          Passed(outputs'[i]) /\ outputs'[i] = outputs[i] /\ i \in 1 .. Len(outputs)
    BY <2>1, <2>2 DEF Line
  <2> QED BY <1>1, <2>1, <2>3, <2>4, <2>5, <2>6
       DEF Line, Passed, Fresh, InLine, First, Low, Busy, Sending
<1> QED BY <1>2, <1>3 DEF Order

\* Steps of neither the pipeline nor the channels.
LEMMA AsideOrder ==
  ASSUME IInv, Order,
         \/ FrameAges \/ UpdateConfig \/ UNCHANGED vars
         \/ \E c \in Clients : Leaves(c) \/ RemoveClient(c)
  PROVE  Order'
<1>1. UNCHANGED <<queue, seen, sending, preview, packets, newest, enqueue, outputs, job, ordered>>
  BY DEF FrameAges, UpdateConfig, vars, Leaves, RemoveClient, intake
<1>2. \A c \in Clients : serving'[c] = "no" => serving[c] = "no"
  BY DEF FrameAges, UpdateConfig, vars, Leaves, RemoveClient, IInv, Served
<1>3. latestOut' \in {0, latestOut} BY DEF FrameAges, UpdateConfig, vars, Leaves, RemoveClient
<1>4. Numbered' /\ Fresher' BY <1>1, <1>2, QuietNumbers
<1>5. ASSUME ordered' PROVE Line'
  <2>1. Line BY <1>1, <1>5 DEF Order
  <2>2. ASSUME NEW n \in Nat, Passed(n) PROVE latestOut' < n
    BY <1>3, <2>2 DEF Passed, IInv, Intake
  <2>3. /\ \A s \in Sessions : enqueue[s].frame \in Nat
        /\ \A i \in 1 .. Len(outputs) : outputs[i] \in Nat
        /\ job \in Nat
    BY DEF IInv, Intake
  <2>4. /\ \A s \in Sessions : enqueue[s].step # "idle" => latestOut' < enqueue[s].frame
        /\ \A i \in 1 .. Len(outputs) : latestOut' < outputs[i]
        /\ job # 0 => latestOut' < job
    BY <2>1, <2>2, <2>3 DEF Line
  <2> QED BY <1>1, <2>1, <2>4
       DEF Line, Passed, Fresh, InLine, First, Low, Busy, Sending
<1> QED BY <1>4, <1>5 DEF Order

-----------------------------------------------------------------------------
(* The order in the channels.                                                *)

\* A client has one sender at a time.
LEMMA OneSender ==
  ASSUME IInv, Line, NEW s \in Senders, NEW z \in Senders,
         NEW c, c \in sending[s].to, c \in sending[z].to
  PROVE  s = z
<1>1. CASE s = Out \/ z = Out BY <1>1, ClientsAssumption DEF IInv, Sends, Senders
<1>2. CASE s \in Sessions /\ z \in Sessions
  <2>1. Busy(s) /\ Busy(z) BY DEF Busy, Sending
  <2> QED BY <1>2, <2>1 DEF Line
<1> QED BY <1>1, <1>2 DEF Senders

\* A sender s that changes the channel q of a client c, and goes to x.
LEMMA SenderOrder ==
  ASSUME IInv, Order, NEW s \in Senders, NEW c \in sending[s].to,
         NEW q \in Seq(Pieces), NEW x \in Sender,
         queue' = [queue EXCEPT ![c] = q], sending' = [sending EXCEPT ![s] = x],
         UNCHANGED <<intake, latestOut, serving, seen, preview, enqueue, outputs, job>>,
         x.data = sending[s].data, x.to \in {sending[s].to, sending[s].to \ {c}},
         \A i \in 1 .. Len(q) : q[i] <= Highest(c),
         ordered => Rises(q, First(c), Low(c)),
         ordered => \A n \in Nat : Fresh(c, n) /\ (x.to = sending[s].to \/ x.data < n) =>
                      Precedes(q, First(c), Low(c), n)
  PROVE  Order'
<1>1. /\ c \in Clients /\ queue'[c] = q /\ \A d \in Clients : d # c => queue'[d] = queue[d]
      /\ sending'[s] = x /\ \A z \in Senders : z # s => sending'[z] = sending[z]
  BY SenderType
<1>2. \A z \in Senders :
        sending'[z].to \subseteq sending[z].to /\ sending'[z].data = sending[z].data
  BY <1>1
<1>3. UNCHANGED <<newest, packets, ordered>> BY DEF intake
<1>4. Numbered'
  <2>1. \A d \in Clients : seen'[d] <= Highest(d)' BY <1>3 DEF Order, Numbered, Highest
  <2>2. ASSUME NEW d \in Clients, NEW i \in 1 .. Len(queue'[d]) PROVE queue'[d][i] <= Highest(d)'
    BY <1>1, <1>3 DEF Order, Numbered, Highest
  <2>3. \A z \in Senders : \A d \in sending'[z].to : sending'[z].data <= Highest(d)'
    BY <1>2, <1>3 DEF Order, Numbered, Highest
  <2> QED BY <2>1, <2>2, <2>3 DEF Numbered
<1>5. Fresher'
  <2>1. serving[c] # "no" BY DEF IInv, Sends
  <2> QED BY <1>1, <2>1 DEF Order, Fresher
<1>6. ASSUME ordered' PROVE Line'
  <2>1. ordered /\ Line BY <1>3, <1>6 DEF Order
  <2>2. \A d : First(d)' = First(d) /\ Low(d)' = Low(d) BY DEF First, Low
  <2>3. \A d \in Clients : InLine(d)'
    BY <1>1, <2>1, <2>2 DEF Line, InLine
  <2>4. ASSUME NEW z \in Senders, NEW d \in sending'[z].to
        PROVE  Precedes(queue'[d], First(d), Low(d), sending'[z].data)
    <3>1. d \in sending[z].to /\ sending'[z].data = sending[z].data BY <1>2
    <3>2. d \in Clients /\ sending[z].data \in Nat BY <3>1, SenderType DEF Pieces
    <3>3. Fresh(d, sending[z].data) BY <2>1, <3>1 DEF Line
    <3>4. CASE d # c BY <1>1, <3>1, <3>2, <3>3, <3>4 DEF Fresh
    <3>5. CASE d = c
      <4>1. z = s BY <2>1, <3>1, <3>5, OneSender
      <4>2. x.to = sending[s].to BY <1>1, <3>5, <4>1
      <4> QED BY <1>1, <2>1, <3>1, <3>2, <3>3, <3>5, <4>1, <4>2
    <3> QED BY <3>4, <3>5
  <2>5. ASSUME NEW n \in Nat, Passed(n)
        PROVE  /\ latestOut < n
               /\ sending'[Out].to # {} => sending'[Out].data < n
               /\ \A v \in Viewers : Precedes(queue'[v], First(v), Low(v), n)
    <3>1. Out \in Senders BY DEF Senders
    <3>2. latestOut < n /\ (sending'[Out].to # {} => sending'[Out].data < n)
      BY <1>2, <2>5, <3>1 DEF Passed
    <3>3. ASSUME NEW v \in Viewers PROVE Precedes(queue'[v], First(v), Low(v), n)
      <4>1. v \in Clients /\ Fresh(v, n) BY <2>5 DEF Passed, Clients
      <4>2. CASE v # c BY <1>1, <4>1, <4>2 DEF Fresh
      <4>3. CASE v = c
        <5>1. s = Out BY <4>3, ClientsAssumption DEF IInv, Sends, Senders
        <5>2. x.data < n BY <2>5, <5>1 DEF Passed
        <5> QED BY <1>1, <2>1, <4>1, <4>3, <5>2
      <4> QED BY <4>2, <4>3
    <3> QED BY <3>2, <3>3
  <2>6. /\ \A z \in Sessions : enqueue[z].frame \in Nat
        /\ \A i \in 1 .. Len(outputs) : outputs[i] \in Nat
        /\ job \in Nat
    BY DEF IInv, Intake
  <2>7. \A z \in Sessions : Busy(z)' => Busy(z) BY <1>2 DEF Busy, Sending, Senders
  <2>8. \A z, y \in Sessions : Busy(z)' /\ Busy(y)' => z = y BY <2>1, <2>7 DEF Line
  <2>9. \A n \in Nat : Passed(n) => Passed(n)' BY <2>2, <2>5 DEF Passed, Fresh
  <2>10. \A z \in Sessions : enqueue[z].step # "idle" =>
           /\ Passed(enqueue[z].frame)' /\ job < enqueue[z].frame
           /\ \A i \in 1 .. Len(outputs) : outputs[i] < enqueue[z].frame
    BY <2>1, <2>2, <2>5, <2>6 DEF Line, Passed, Fresh
  <2>11. \A i \in 1 .. Len(outputs) : Passed(outputs[i])' /\ job < outputs[i]
    BY <2>1, <2>2, <2>5, <2>6 DEF Line, Passed, Fresh
  <2>12. job # 0 => Passed(job)' BY <2>1, <2>2, <2>5, <2>6 DEF Line, Passed, Fresh
  <2>13. \A z \in Senders : \A d \in sending'[z].to : Fresh(d, sending[z].data)'
    BY <2>2, <2>4 DEF Fresh
  <2> QED BY <2>3, <2>8, <2>10, <2>11, <2>12, <2>13 DEF Line
<1> QED BY <1>4, <1>5, <1>6 DEF Order

\* The three changes of a channel that a sender makes.
LEMMA SameSent ==
  ASSUME IInv, Order, NEW s \in Senders, NEW c \in sending[s].to
  PROVE  /\ \A i \in 1 .. Len(queue[c]) : queue[c][i] <= Highest(c)
         /\ ordered => Rises(queue[c], First(c), Low(c))
         /\ ordered => \A n \in Nat : Fresh(c, n) => Precedes(queue[c], First(c), Low(c), n)
BY SenderType DEF Order, Numbered, Line, InLine, Fresh

LEMMA PushSent ==
  ASSUME IInv, Order, NEW s \in Senders, NEW c \in sending[s].to,
         NEW q, q = Append(queue[c], sending[s].data)
  PROVE  /\ \A i \in 1 .. Len(q) : q[i] <= Highest(c)
         /\ ordered => Rises(q, First(c), Low(c))
         /\ ordered => \A n \in Nat : sending[s].data < n => Precedes(q, First(c), Low(c), n)
<1>1. queue[c] \in Seq(Pieces) /\ sending[s].data \in Pieces /\ c \in Clients BY SenderType
<1>2. First(c) \in {1, 2} /\ Low(c) \in Nat BY <1>1, LineTypes
<1>3. \A i \in 1 .. Len(q) : q[i] <= Highest(c)
  <2>1. /\ \A i \in 1 .. Len(queue[c]) : queue[c][i] <= Highest(c)
        /\ sending[s].data <= Highest(c)
    BY <1>1 DEF Order, Numbered
  <2>2. /\ Len(q) = Len(queue[c]) + 1 /\ Len(queue[c]) \in Nat
        /\ \A i \in 1 .. Len(queue[c]) : q[i] = queue[c][i]
        /\ q[Len(queue[c]) + 1] = sending[s].data
    BY <1>1, AppendProperties
  <2> QED BY <2>1, <2>2
<1>4. ASSUME ordered
      PROVE  /\ Rises(q, First(c), Low(c))
             /\ \A n \in Nat : sending[s].data < n => Precedes(q, First(c), Low(c), n)
  <2>1. Rises(queue[c], First(c), Low(c)) /\ Precedes(queue[c], First(c), Low(c), sending[s].data)
    BY <1>1, <1>4 DEF Order, Line, InLine, Fresh
  <2> QED BY <1>1, <1>2, <2>1, PushLine
<1> QED BY <1>3, <1>4

LEMMA DropSent ==
  ASSUME IInv, Order, NEW s \in Senders, NEW c \in sending[s].to, queue[c] # <<>>,
         NEW q, q = Tail(queue[c])
  PROVE  /\ \A i \in 1 .. Len(q) : q[i] <= Highest(c)
         /\ ordered => Rises(q, First(c), Low(c))
         /\ ordered => \A n \in Nat : Fresh(c, n) => Precedes(q, First(c), Low(c), n)
<1>1. queue[c] \in Seq(Pieces) /\ c \in Clients BY SenderType
<1>2. First(c) \in {1, 2} /\ Low(c) \in Nat BY <1>1, LineTypes
<1>3. \A i \in 1 .. Len(q) : q[i] <= Highest(c)
  <2>1. \A i \in 1 .. Len(queue[c]) : queue[c][i] <= Highest(c) BY <1>1 DEF Order, Numbered
  <2>2. /\ Len(queue[c]) \in Nat /\ Len(q) = Len(queue[c]) - 1
        /\ \A i \in 1 .. Len(q) : q[i] = queue[c][i + 1]
    BY <1>1, EmptySeq
  <2> QED BY <2>1, <2>2
<1>4. ASSUME ordered
      PROVE  /\ Rises(q, First(c), Low(c))
             /\ \A n \in Nat : Fresh(c, n) => Precedes(q, First(c), Low(c), n)
  <2>1. Rises(queue[c], First(c), Low(c)) BY <1>1, <1>4 DEF Order, Line, InLine
  <2> QED BY <1>1, <1>2, <2>1, TailLine DEF Fresh
<1> QED BY <1>3, <1>4

LEMMA SendTryOrder ==
  ASSUME IInv, Order, NEW s \in Senders, NEW c \in Clients, SendTry(s, c) PROVE Order'
<1>1. /\ c \in sending[s].to
      /\ UNCHANGED <<intake, latestOut, serving, seen, preview, enqueue, outputs, job>>
  BY DEF SendTry
<1>2. queue[c] \in Seq(Pieces) /\ sending[s].data \in Pieces BY <1>1, SenderType
<1>3. CASE Room(c)
  <2> DEFINE x == Moved(s, c)
             q == Append(queue[c], sending[s].data)
  <2>1. /\ x \in Sender /\ sending' = [sending EXCEPT ![s] = x] /\ x.data = sending[s].data
        /\ x.to = sending[s].to \ {c}
    BY <1>1, <1>3, SendNextType DEF SendTry
  <2>2. x.to # sending[s].to BY <1>1, <2>1
  <2>3. queue' = [queue EXCEPT ![c] = q] /\ q \in Seq(Pieces) BY <1>2, <1>3, Appended DEF SendTry
  <2>4. /\ \A i \in 1 .. Len(q) : q[i] <= Highest(c)
        /\ ordered => Rises(q, First(c), Low(c))
        /\ ordered => \A n \in Nat : x.data < n => Precedes(q, First(c), Low(c), n)
    BY <1>1, <2>1, PushSent
  <2> HIDE DEF x, q
  <2> QED BY <1>1, <2>1, <2>2, <2>3, <2>4, SenderOrder
<1>4. CASE ~Room(c)
  <2> DEFINE x == [sending[s] EXCEPT !.step = "drop", !.at = c]
  <2>1. /\ x \in Sender /\ sending' = [sending EXCEPT ![s] = x] /\ x.data = sending[s].data
        /\ x.to = sending[s].to
    BY <1>1, <1>4, SenderType DEF SendTry, Sender, Steps
  <2>2. queue' = [queue EXCEPT ![c] = queue[c]] BY <1>1, <1>4, SenderType DEF SendTry
  <2> HIDE DEF x
  <2> QED BY <1>1, <1>2, <2>1, <2>2, SameSent, SenderOrder
<1> QED BY <1>3, <1>4

LEMMA SendDropOrder ==
  ASSUME IInv, Order, NEW s \in Senders, SendDrop(s) PROVE Order'
<1> DEFINE c == sending[s].at
           x == [sending[s] EXCEPT !.step = "again"]
<1>1. /\ c \in sending[s].to
      /\ UNCHANGED <<intake, latestOut, serving, seen, preview, enqueue, outputs, job>>
  BY DEF SendDrop, IInv, Sends
<1>2. /\ x \in Sender /\ sending' = [sending EXCEPT ![s] = x] /\ x.data = sending[s].data
      /\ x.to = sending[s].to
  BY <1>1, SenderType DEF SendDrop, Sender, Steps
<1>3. queue \in [Clients -> Seq(Pieces)] /\ queue[c] \in Seq(Pieces) BY <1>1, SenderType
<1>4. CASE queue[c] = <<>>
  <2>1. queue' = [queue EXCEPT ![c] = queue[c]] BY <1>3, <1>4 DEF SendDrop
  <2> HIDE DEF c, x
  <2> QED BY <1>1, <1>2, <1>3, <2>1, SameSent, SenderOrder
<1>5. CASE queue[c] # <<>>
  <2> DEFINE q == Tail(queue[c])
  <2>1. queue' = [queue EXCEPT ![c] = q] /\ q \in Seq(Pieces) BY <1>3, <1>5, Taken DEF SendDrop
  <2>2. /\ \A i \in 1 .. Len(q) : q[i] <= Highest(c)
        /\ ordered => Rises(q, First(c), Low(c))
        /\ ordered => \A n \in Nat : Fresh(c, n) => Precedes(q, First(c), Low(c), n)
    BY <1>1, <1>5, DropSent
  <2> HIDE DEF c, x, q
  <2> QED BY <1>1, <1>2, <2>1, <2>2, SenderOrder
<1> QED BY <1>4, <1>5

LEMMA SendAgainOrder ==
  ASSUME IInv, Order, NEW s \in Senders, SendAgain(s) PROVE Order'
<1> DEFINE c == sending[s].at
           x == Moved(s, c)
<1>1. /\ c \in sending[s].to
      /\ UNCHANGED <<intake, latestOut, serving, seen, preview, enqueue, outputs, job>>
  BY DEF SendAgain, IInv, Sends
<1>2. /\ x \in Sender /\ sending' = [sending EXCEPT ![s] = x] /\ x.data = sending[s].data
      /\ x.to = sending[s].to \ {c}
  BY <1>1, SendNextType DEF SendAgain
<1>3. x.to # sending[s].to BY <1>1, <1>2
<1>4. queue \in [Clients -> Seq(Pieces)] /\ queue[c] \in Seq(Pieces) /\ sending[s].data \in Pieces
  BY <1>1, SenderType
<1>5. CASE Room(c)
  <2> DEFINE q == Append(queue[c], sending[s].data)
  <2>1. queue' = [queue EXCEPT ![c] = q] /\ q \in Seq(Pieces) BY <1>4, <1>5, Appended DEF SendAgain
  <2>2. /\ \A i \in 1 .. Len(q) : q[i] <= Highest(c)
        /\ ordered => Rises(q, First(c), Low(c))
        /\ ordered => \A n \in Nat : x.data < n => Precedes(q, First(c), Low(c), n)
    BY <1>1, <1>2, PushSent
  <2> HIDE DEF c, x, q
  <2> QED BY <1>1, <1>2, <1>3, <2>1, <2>2, SenderOrder
<1>6. CASE ~Room(c)
  <2>1. queue' = [queue EXCEPT ![c] = queue[c]] BY <1>4, <1>6 DEF SendAgain
  <2> HIDE DEF c, x
  <2> QED BY <1>1, <1>2, <1>4, <2>1, SameSent, SenderOrder
<1> QED BY <1>5, <1>6

\* The start of a sender.
LEMMA RenderedOrder == ASSUME IInv, Order, Rendered PROVE Order'
<1> DEFINE x == [step |-> "try", data |-> job, to |-> clients \cap Viewers, at |-> None]
<1>1. /\ UNCHANGED <<intake, queue, seen, preview, serving, enqueue, outputs>>
      /\ sending' = [sending EXCEPT ![Out] = x] /\ latestOut' = job /\ job' = 0 /\ job # 0
  BY DEF Rendered, SendTo
<1>2. /\ sending'[Out] = x /\ \A z \in Senders : z # Out => sending'[z] = sending[z]
      /\ \A z \in Sessions : sending'[z] = sending[z] /\ z \in Senders /\ z # Out
      /\ Out \in Senders
  BY <1>1, OutAssumption DEF IInv, Sends, Senders
<1>3. job \in Nat /\ job <= newest /\ x.data = job /\ x.to = clients \cap Viewers
  BY DEF IInv, Intake
<1>4. UNCHANGED <<newest, packets, ordered>> BY <1>1 DEF intake
<1> HIDE DEF x
<1>5. Numbered'
  <2>1. \A z \in Senders : \A c \in sending'[z].to : sending'[z].data <= Highest(c)
    BY <1>2, <1>3 DEF Order, Numbered, Highest
  <2> QED BY <1>1, <1>4, <2>1 DEF Order, Numbered, Highest
<1>6. Fresher' BY <1>1 DEF Order, Fresher
<1>7. ASSUME ordered' PROVE Line'
  <2>1. Line /\ Passed(job) BY <1>1, <1>4, <1>7 DEF Order, Line
  <2>2. \A c : First(c)' = First(c) /\ Low(c)' = Low(c) BY <1>1 DEF First, Low
  <2>3. \A n \in Nat : Passed(n) /\ job < n =>
          /\ latestOut' < n /\ (sending'[Out].to # {} => sending'[Out].data < n)
          /\ \A v \in Viewers : Precedes(queue'[v], First(v)', Low(v)', n)
    BY <1>1, <1>2, <1>3, <2>2 DEF Passed, Fresh
  <2>4. /\ \A z \in Sessions : enqueue[z].frame \in Nat
        /\ \A i \in 1 .. Len(outputs) : outputs[i] \in Nat
    BY DEF IInv, Intake
  <2>5. \A z \in Sessions : enqueue[z].step # "idle" =>
           /\ Passed(enqueue[z].frame)' /\ job' < enqueue[z].frame
           /\ \A i \in 1 .. Len(outputs) : outputs[i] < enqueue[z].frame
    BY <1>1, <1>3, <2>1, <2>3, <2>4 DEF Line, Passed, Fresh
  <2>6. \A i \in 1 .. Len(outputs) : Passed(outputs[i])' /\ job' < outputs[i]
    BY <1>1, <1>3, <2>1, <2>3, <2>4 DEF Line, Passed, Fresh
  <2>7. \A z, y \in Sessions : Busy(z)' /\ Busy(y)' => z = y
    BY <1>1, <1>2, <2>1 DEF Line, Busy, Sending
  <2>8. \A z \in Senders : \A c \in sending'[z].to :
          Precedes(queue'[c], First(c)', Low(c)', sending'[z].data)
    BY <1>1, <1>2, <1>3, <2>1, <2>2 DEF Line, Passed, Fresh
  <2>9. \A c \in Clients : InLine(c)' BY <1>1, <2>1, <2>2 DEF Line, InLine
  <2> QED BY <1>1, <2>5, <2>6, <2>7, <2>8, <2>9 DEF Line, Fresh
<1> QED BY <1>5, <1>6, <1>7 DEF Order

LEMMA OnAudioOrder == ASSUME IInv, Order, NEW s \in Sessions, OnAudio(s) PROVE Order'
<1> DEFINE x == [step |-> "try", data |-> packets + 1, to |-> clients \cap Listeners, at |-> None]
<1>1. /\ UNCHANGED <<newest, queue, seen, preview, serving, enqueue, outputs, job, latestOut>>
      /\ sending' = [sending EXCEPT ![s] = x] /\ packets' = packets + 1 /\ packets \in Nat
  BY DEF OnAudio, SendTo, IInv, Intake
<1>2. /\ sending'[s] = x /\ \A z \in Senders : z # s => sending'[z] = sending[z]
      /\ Out \in Senders /\ s \in Senders /\ Out # s
  BY <1>1, OutAssumption DEF IInv, Sends, Senders
<1>3. x.data = packets + 1 /\ x.to = clients \cap Listeners OBVIOUS
<1> HIDE DEF x
<1>4. \A c \in Clients : Highest(c) \in Nat /\ Highest(c)' \in Nat /\ Highest(c) <= Highest(c)'
  BY <1>1 DEF Highest, IInv, Intake
<1>5. Numbered'
  <2>1. ASSUME NEW c \in Clients
        PROVE  seen[c] <= Highest(c)' /\ \A i \in 1 .. Len(queue[c]) : queue[c][i] <= Highest(c)'
    BY <1>4, LineTypes DEF Order, Numbered, Pieces
  <2>2. ASSUME NEW z \in Senders, NEW c \in sending'[z].to PROVE sending'[z].data <= Highest(c)'
    <3>1. CASE z = s
      <4>1. c \notin Viewers /\ sending'[z].data = packets + 1
        BY <1>2, <1>3, <2>2, <3>1, ClientsAssumption
      <4> QED BY <1>1, <4>1 DEF Highest
    <3>2. CASE z # s
      BY <1>2, <1>4, <3>2, SenderType DEF Order, Numbered, Pieces
    <3> QED BY <3>1, <3>2
  <2> QED BY <1>1, <2>1, <2>2 DEF Numbered
<1>6. Fresher' BY <1>1 DEF Order, Fresher
<1>7. ASSUME ordered' PROVE Line'
  <2>1. ordered /\ (\A z \in Sessions : ~Busy(z)) /\ Line BY <1>7 DEF OnAudio, Comes, Order
  <2>2. \A c : First(c)' = First(c) /\ Low(c)' = Low(c) BY <1>1 DEF First, Low
  <2>3. ASSUME NEW c \in x.to PROVE Precedes(queue[c], First(c), Low(c), packets + 1)
    <3>1. c \in Clients /\ Highest(c) = packets
      BY <1>3, ClientsAssumption DEF Clients, Highest
    <3> QED BY <1>1, <3>1, LineTypes DEF Order, Numbered, Precedes, Low, Pieces
  <2>4. \A z \in Senders : \A c \in sending'[z].to :
          Precedes(queue'[c], First(c)', Low(c)', sending'[z].data)
    BY <1>1, <1>2, <1>3, <2>1, <2>2, <2>3 DEF Line, Fresh
  <2>5. \A z \in Sessions : Busy(z)' => z = s BY <1>1, <1>2, <2>1 DEF Busy, Sending, Senders
  <2>6. sending'[Out] = sending[Out] BY <1>2
  <2>7. \A z \in Sessions : enqueue[z].step = "idle" BY <2>1 DEF Busy
  <2>8. \A c \in Clients : InLine(c)' BY <1>1, <2>1, <2>2 DEF Line, InLine
  <2>9. \A i \in 1 .. Len(outputs) : Passed(outputs[i])' /\ job < outputs[i]
    BY <1>1, <2>1, <2>2, <2>6 DEF Line, Passed, Fresh
  <2>10. job # 0 => Passed(job)' BY <1>1, <2>1, <2>2, <2>6 DEF Line, Passed, Fresh
  <2> QED BY <1>1, <2>4, <2>5, <2>7, <2>8, <2>9, <2>10 DEF Line, Fresh
<1> QED BY <1>5, <1>6, <1>7 DEF Order

-----------------------------------------------------------------------------
(* The order at the clients.                                                 *)

\* A handler that changes only what its own client has got and has yet to get.
LEMMA ClientOrder ==
  ASSUME IInv, Order, NEW c \in Clients,
         UNCHANGED <<intake, latestOut, enqueue, outputs, job, sending>>,
         \A d \in Clients : d # c => /\ queue'[d] = queue[d] /\ seen'[d] = seen[d]
                                     /\ serving'[d] = serving[d]
                                     /\ (d \in preview' <=> d \in preview),
         serving'[c] # "no", seen'[c] <= Highest(c),
         \A i \in 1 .. Len(queue'[c]) : queue'[c][i] <= Highest(c),
         ordered => Rises(queue'[c], First(c)', Low(c)'),
         ordered => \A n \in Nat : Fresh(c, n) /\ (serving[c] = "no" => latestOut < n) =>
                      Precedes(queue'[c], First(c)', Low(c)', n)
  PROVE  Order'
<1>1. UNCHANGED <<newest, packets, ordered>> /\ \A d : Highest(d)' = Highest(d)
  BY DEF intake, Highest
<1>2. Numbered' BY <1>1 DEF Order, Numbered
<1>3. Fresher' BY DEF Order, Fresher
<1>4. ASSUME ordered' PROVE Line'
  <2>1. ordered /\ Line BY <1>1, <1>4 DEF Order
  <2>2. \A d \in Clients : d # c => First(d)' = First(d) /\ Low(d)' = Low(d) BY DEF First, Low
  <2>3. \A d \in Clients : Rises(queue'[d], First(d)', Low(d)')
    BY <2>1, <2>2 DEF Line, InLine
  <2>4. ASSUME NEW n \in Nat, NEW d \in Clients, Fresh(d, n), serving[d] = "no" => latestOut < n
        PROVE  Precedes(queue'[d], First(d)', Low(d)', n)
    BY <2>1, <2>2, <2>4 DEF Fresh
  <2>5. \A z \in Senders : \A d \in sending[z].to : Fresh(d, sending[z].data)'
    <3> SUFFICES ASSUME NEW z \in Senders, NEW d \in sending[z].to
                 PROVE  Precedes(queue'[d], First(d)', Low(d)', sending[z].data)
      BY DEF Fresh
    <3>1. d \in Clients /\ sending[z].data \in Nat BY SenderType DEF Pieces
    <3>2. Fresh(d, sending[z].data) /\ serving[d] # "no" BY <2>1 DEF Line, IInv, Sends
    <3> QED BY <2>4, <3>1, <3>2
  <2>6. \A n \in Nat : Passed(n) => \A v \in Viewers : Precedes(queue'[v], First(v)', Low(v)', n)
    BY <2>4 DEF Passed, Clients
  <2>7. /\ \A z \in Sessions : enqueue[z].frame \in Nat
        /\ \A i \in 1 .. Len(outputs) : outputs[i] \in Nat
        /\ job \in Nat
    BY DEF IInv, Intake
  <2>8. \A z \in Sessions : enqueue[z].step # "idle" =>
           /\ Passed(enqueue[z].frame)' /\ job < enqueue[z].frame
           /\ \A i \in 1 .. Len(outputs) : outputs[i] < enqueue[z].frame
    BY <2>1, <2>6, <2>7 DEF Line, Passed, Fresh
  <2>9. \A i \in 1 .. Len(outputs) : Passed(outputs[i])' /\ job < outputs[i]
    BY <2>1, <2>6, <2>7 DEF Line, Passed, Fresh
  <2>10. job # 0 => Passed(job)' BY <2>1, <2>6, <2>7 DEF Line, Passed, Fresh
  <2>11. \A z, y \in Sessions : Busy(z)' /\ Busy(y)' => z = y BY <2>1 DEF Line, Busy, Sending
  <2> QED BY <2>3, <2>5, <2>8, <2>9, <2>10, <2>11 DEF Line, InLine
<1> QED BY <1>2, <1>3, <1>4 DEF Order

LEMMA ServeOrder ==
  ASSUME IInv, Order, NEW c \in Clients, Arrives(c),
         (c \in Viewers /\ ServeVideo(c)) \/ (c \in Listeners /\ ServeAudio(c))
  PROVE  Order'
<1>1. /\ UNCHANGED <<intake, latestOut, enqueue, outputs, job, sending, seen>>
      /\ queue[c] = <<>> /\ seen[c] = 0 /\ c \notin preview
      /\ \A d \in Clients : d # c => serving'[d] = serving[d]
      /\ serving[c] = "no" /\ serving'[c] # "no"
  BY ArrivesFacts DEF ServeVideo, ServeAudio, Arrives, Order, Fresher
<1>2. newest \in Nat /\ latest \in 0 .. newest /\ latestOut \in 0 .. newest /\ 0 <= Highest(c)
  BY DEF IInv, Intake, Highest
<1>3. queue \in [Clients -> Seq(Pieces)] BY DEF IInv, Served, Pieces
<1>4. CASE UNCHANGED <<queue, preview>>
  <2>1. Low(c) = 0 /\ Low(c)' = 0 /\ First(c)' = 1 /\ queue'[c] = <<>>
    BY <1>1, <1>4 DEF Low, First
  <2>2. Len(<<>>) = 0 BY EmptySeq
  <2>3. Rises(queue'[c], First(c)', Low(c)') BY <2>1, <2>2 DEF Rises
  <2>4. \A n \in Nat : Fresh(c, n) => Precedes(queue'[c], First(c)', Low(c)', n)
    BY <2>1, <2>2 DEF Fresh, Precedes
  <2>5. \A i \in 1 .. Len(queue'[c]) : queue'[c][i] <= Highest(c) BY <2>1, <2>2
  <2> QED BY <1>1, <1>2, <1>4, <2>3, <2>4, <2>5, ClientOrder
<1>5. CASE ~UNCHANGED <<queue, preview>>
  <2>1. /\ c \in Viewers /\ FirstFrame # 0
        /\ queue' = [queue EXCEPT ![c] = <<FirstFrame>>]
        /\ preview' = IF latestOut = 0 THEN preview \cup {c} ELSE preview
    BY <1>5 DEF ServeVideo, ServeAudio
  <2>2. FirstFrame \in Pieces /\ FirstFrame <= newest /\ Highest(c) = newest
    BY <1>2, <2>1 DEF FirstFrame, Pieces, Highest
  <2> DEFINE q == <<FirstFrame>>
  <2>3. queue'[c] = q /\ \A d \in Clients : d # c => queue'[d] = queue[d] BY <1>3, <2>1
  <2>4. Len(q) = 1 /\ q[1] = FirstFrame BY <2>2
  <2> HIDE DEF q
  <2>5. \A d \in Clients : d # c => (d \in preview' <=> d \in preview) BY <2>1
  <2>6. Low(c) = 0 /\ Low(c)' = 0 /\ First(c)' = IF latestOut = 0 THEN 2 ELSE 1
    BY <1>1, <2>1 DEF Low, First
  <2>7. Rises(queue'[c], First(c)', Low(c)') BY <2>2, <2>3, <2>4, <2>6 DEF Rises, Pieces
  <2>8. latestOut # 0 => FirstFrame = latestOut BY DEF FirstFrame
  <2>9. \A n \in Nat : Fresh(c, n) /\ latestOut < n => Precedes(queue'[c], First(c)', Low(c)', n)
    BY <2>2, <2>3, <2>4, <2>6, <2>8 DEF Fresh, Precedes
  <2>10. \A i \in 1 .. Len(queue'[c]) : queue'[c][i] <= Highest(c) BY <2>2, <2>3, <2>4
  <2> QED BY <1>1, <1>2, <2>3, <2>5, <2>7, <2>9, <2>10, ClientOrder
<1> QED BY <1>4, <1>5

LEMMA WriteOrder == ASSUME IInv, Order, NEW c \in Clients, Write(c) PROVE Order'
<1>1. /\ UNCHANGED <<intake, latestOut, enqueue, outputs, job, sending, serving>>
      /\ serving[c] = "yes" /\ queue[c] # <<>>
  BY DEF Write
<1>2. queue \in [Clients -> Seq(Pieces)] /\ seen \in [Clients -> Nat] /\ queue[c] \in Seq(Pieces)
  BY DEF IInv, Served, Pieces
<1>3. /\ queue'[c] = Tail(queue[c]) /\ seen'[c] = Head(queue[c])
      /\ \A d \in Clients : d # c => queue'[d] = queue[d] /\ seen'[d] = seen[d]
      /\ preview' = IF seen[c] = 0 THEN preview ELSE preview \ {c}
  BY <1>2 DEF Write
<1> DEFINE q == queue[c]
<1>4. /\ Len(q) \in Nat \ {0} /\ Len(Tail(q)) = Len(q) - 1
      /\ \A i \in 1 .. Len(Tail(q)) : Tail(q)[i] = q[i + 1] /\ i + 1 \in 1 .. Len(q)
      /\ Head(q) = q[1] /\ 1 \in 1 .. Len(q) /\ Head(q) \in Pieces
  BY <1>1, <1>2, EmptySeq
<1>5. \A i \in 1 .. Len(q) : q[i] <= Highest(c) BY DEF Order, Numbered
<1> HIDE DEF q
<1>6. seen'[c] <= Highest(c) /\ \A i \in 1 .. Len(queue'[c]) : queue'[c][i] <= Highest(c)
  BY <1>3, <1>4, <1>5 DEF q
<1>7. First(c)' = 1 /\ Low(c)' = IF c \in preview /\ seen[c] = 0 THEN 0 ELSE Head(q)
  BY <1>3, <1>4 DEF First, Low, Pieces, q
<1>8. ASSUME ordered
      PROVE  /\ Rises(queue'[c], First(c)', Low(c)')
             /\ \A n \in Nat : Fresh(c, n) => Precedes(queue'[c], First(c)', Low(c)', n)
  <2>1. Rises(q, First(c), Low(c)) BY <1>8 DEF Order, Line, InLine, q
  <2>2. CASE c \in preview /\ seen[c] = 0
    <3>1. First(c) = 2 /\ Low(c) = 0 /\ First(c)' = 1 /\ Low(c)' = 0 BY <1>7, <2>2 DEF First, Low
    <3> QED BY <1>1, <1>2, <1>3, <2>1, <3>1, ReadFirst DEF q, Fresh
  <2>3. CASE ~(c \in preview /\ seen[c] = 0)
    <3>1. First(c) = 1 /\ First(c)' = 1 /\ Low(c)' = Head(q) /\ Low(c) \in Nat
      BY <1>7, <2>3, LineTypes DEF First
    <3> QED BY <1>1, <1>2, <1>3, <2>1, <3>1, ReadNext DEF q, Fresh
  <2> QED BY <2>2, <2>3
<1> QED BY <1>1, <1>3, <1>6, <1>8, ClientOrder

-----------------------------------------------------------------------------
LEMMA InitOrder == ASSUME Init PROVE Order
<1>1. Len(<<>>) = 0 BY EmptySeq
<1>2. Numbered BY <1>1 DEF Init, Numbered, Highest
<1>3. Fresher BY DEF Init, Fresher
<1>4. \A c \in Clients : Rises(queue[c], First(c), Low(c)) BY <1>1 DEF Init, Rises
<1>5. /\ \A s \in Senders : sending[s].to = {}
      /\ \A s \in Sessions : enqueue[s].step = "idle" /\ s \in Senders
      /\ outputs = <<>> /\ job = 0
  BY DEF Init, Senders
<1>6. Line BY <1>1, <1>4, <1>5 DEF Line, InLine, Busy, Sending
<1> QED BY <1>2, <1>3, <1>6 DEF Order

LEMMA StepOrder == ASSUME IInv, Order, [Next]_vars PROVE Order'
<1>1. ASSUME NEW s \in Sessions, SessionStep(s) PROVE Order'
  BY <1>1, OnVideoOrder, EnqueueOrder, OnAudioOrder DEF SessionStep
<1>2. ASSUME NEW s \in Senders, SenderStep(s) PROVE Order'
  BY <1>2, SendTryOrder, SendDropOrder, SendAgainOrder DEF SenderStep
<1>3. CASE OutputStep BY <1>3, JobOrder, RenderedOrder DEF OutputStep
<1>4. ASSUME NEW c \in Clients, ClientStep(c) PROVE Order'
  BY <1>4, WriteOrder, AsideOrder DEF ClientStep, HangsUp, Idles
<1>5. ASSUME NEW c \in Viewers, ServeVideo(c) PROVE Order'
  BY <1>5, ServeOrder DEF ServeVideo, Clients
<1>6. ASSUME NEW c \in Listeners, ServeAudio(c) PROVE Order'
  BY <1>6, ServeOrder DEF ServeAudio, Clients
<1>7. CASE FrameAges \/ UpdateConfig \/ UNCHANGED vars BY <1>7, AsideOrder
<1> QED BY <1>1, <1>2, <1>3, <1>4, <1>5, <1>6, <1>7 DEF Next

LEMMA OrderInvariant == Spec => []OInv
<1>1. Init => OInv BY InitIInv, InitOrder DEF OInv
<1>2. OInv /\ [Next]_vars => OInv' BY StepIInv, StepOrder DEF OInv
<1> QED BY <1>1, <1>2, PTL DEF Spec

-----------------------------------------------------------------------------
(* Every step is one of the feeds, or none.                                  *)

\* What a write shows to a client.
LEMMA WriteShows ==
  ASSUME OInv, NEW c \in Clients, Write(c)
  PROVE  /\ Head(queue[c]) \in 1 .. Highest(c)
         /\ Head(queue[c]) > seen[c] \/ c \in preview \/ ~ordered
         /\ seen' = [seen EXCEPT ![c] = Head(queue[c])]
         /\ preview' = IF seen[c] = 0 THEN preview ELSE preview \ {c}
         /\ UNCHANGED <<newest, packets, ordered>>
<1>1. queue[c] \in Seq(Pieces) /\ queue[c] # <<>> /\ seen[c] \in Nat
  BY LineTypes DEF OInv, Write
<1>2. Head(queue[c]) = queue[c][1] /\ 1 \in 1 .. Len(queue[c]) /\ Head(queue[c]) \in Pieces
  BY <1>1, Taken
<1>3. Highest(c) \in Nat /\ Head(queue[c]) <= Highest(c)
  BY <1>2 DEF OInv, Order, Numbered, IInv, Intake, Highest
<1>4. ordered /\ c \notin preview => seen[c] < Head(queue[c])
  BY <1>1, <1>2 DEF OInv, Order, Line, InLine, Rises, Low
<1>5. Head(queue[c]) \in 1 .. Highest(c) BY <1>2, <1>3 DEF Pieces
<1> QED BY <1>1, <1>2, <1>4, <1>5 DEF Write, intake, Pieces

\* What the other steps do to the feeds.
LEMMA FeedSteps ==
  ASSUME OInv, [Next]_vars, \A c \in Clients : ~Write(c)
  PROVE  /\ UNCHANGED seen
         /\ ordered' \in {ordered, FALSE}
         /\ \/ newest' = newest + 1 /\ UNCHANGED <<packets, preview>>
            \/ packets' = packets + 1 /\ UNCHANGED <<newest, preview>>
            \/ UNCHANGED <<newest, packets, ordered>>
               /\ \/ UNCHANGED preview
                  \/ \E v \in Viewers : seen[v] = 0 /\ preview' = preview \cup {v}
<1>0. ordered \in BOOLEAN BY DEF OInv, IInv, Intake
<1>1. ASSUME NEW s \in Sessions, OnVideo(s)
      PROVE  newest' = newest + 1 /\ UNCHANGED <<packets, preview, seen>>
             /\ ordered' \in {ordered, FALSE}
  BY <1>0, <1>1 DEF OnVideo, Comes
<1>2. ASSUME NEW s \in Sessions, OnAudio(s)
      PROVE  packets' = packets + 1 /\ UNCHANGED <<newest, preview, seen>>
             /\ ordered' \in {ordered, FALSE}
  BY <1>0, <1>2 DEF OnAudio, Comes
<1>3. ASSUME NEW s \in Sessions, EnqueueSend(s) \/ EnqueueDrop(s)
      PROVE UNCHANGED <<intake, preview, seen>>
  BY <1>3 DEF EnqueueSend, EnqueueDrop
<1>4. ASSUME NEW s \in Senders, SenderStep(s) PROVE UNCHANGED <<intake, preview, seen>>
  BY <1>4 DEF SenderStep, SendTry, SendDrop, SendAgain
<1>5. ASSUME OutputStep PROVE UNCHANGED <<intake, preview, seen>>
  BY <1>5 DEF OutputStep, TakeJob, Rendered, RenderFails
<1>6. ASSUME NEW v \in Viewers, ServeVideo(v)
      PROVE  /\ UNCHANGED <<intake, seen>> /\ seen[v] = 0
             /\ preview' \in {preview, preview \cup {v}}
  BY <1>6 DEF ServeVideo, Arrives, Clients, OInv, Order, Fresher
<1>7. ASSUME NEW v \in Listeners, ServeAudio(v) PROVE UNCHANGED <<intake, preview, seen>>
  BY <1>7 DEF ServeAudio
<1>8. ASSUME NEW c \in Clients, ClientStep(c) PROVE UNCHANGED <<intake, preview, seen>>
  BY <1>8 DEF ClientStep, HangsUp, Idles, Leaves, RemoveClient
<1>9. ASSUME FrameAges \/ UpdateConfig \/ UNCHANGED vars PROVE UNCHANGED <<intake, preview, seen>>
  BY <1>9 DEF FrameAges, UpdateConfig, vars
<1> QED
  BY <1>1, <1>2, <1>3, <1>4, <1>5, <1>6, <1>7, <1>8, <1>9 DEF Next, SessionStep, intake

\* The frames of the viewers come in order: every step of the channels, senders and
\* handlers is one that MediaFeed allows, or changes nothing that it speaks of.
LEMMA VideoSteps ==
  ASSUME OInv, [Next]_vars
  PROVE  [Video!Next]_<<newest, [v \in Viewers |-> seen[v]], preview, ordered>>
<1> DEFINE shown == [v \in Viewers |-> seen[v]]
<1>1. ASSUME NEW c \in Clients, Write(c)
      PROVE  [Video!Next]_<<newest, shown, preview, ordered>>
  <2>1. CASE c \in Viewers
    <3>1. seen \in [Clients -> Nat] /\ Viewers \subseteq Clients
      BY DEF OInv, IInv, Served, Clients
    <3>2. shown' = [shown EXCEPT ![c] = Head(queue[c])] /\ shown[c] = seen[c]
      BY <1>1, <2>1, <3>1, WriteShows
    <3>3. Highest(c) = newest BY <2>1 DEF Highest
    <3> HIDE DEF shown
    <3>4. Video!Show(c) BY <1>1, <3>2, <3>3, WriteShows DEF Video!Show, shown
    <3> QED BY <2>1, <3>4 DEF Video!Next
  <2>2. CASE c \notin Viewers
    <3>1. \A v \in Viewers : seen'[v] = seen[v]
      BY <1>1, <2>2, WriteShows DEF OInv, IInv, Served, Clients
    <3>2. preview' = preview BY <1>1, <2>2, WriteShows DEF OInv, IInv, Served
    <3> QED BY <1>1, <3>1, <3>2, WriteShows
  <2> QED BY <2>1, <2>2
<1>2. CASE \A c \in Clients : ~Write(c)
  <2>1. shown' = shown /\ ordered' \in {ordered, FALSE} BY <1>2, FeedSteps
  <2>2. CASE newest' = newest + 1 /\ UNCHANGED <<packets, preview>>
    BY <2>1, <2>2 DEF Video!Next, Video!Arrive
  <2>3. CASE packets' = packets + 1 /\ UNCHANGED <<newest, preview>>
    BY <2>1, <2>3 DEF Video!Next, Video!Disorder
  <2>4. CASE UNCHANGED <<newest, ordered, preview>> BY <2>1, <2>4
  <2>5. CASE UNCHANGED <<newest, ordered>>
             /\ \E v \in Viewers : seen[v] = 0 /\ preview' = preview \cup {v}
    BY <2>1, <2>5 DEF Video!Next, Video!Preview
  <2> QED BY <1>2, <2>2, <2>3, <2>4, <2>5, FeedSteps
<1> QED BY <1>1, <1>2

LEMMA AudioSteps ==
  ASSUME OInv, [Next]_vars
  PROVE  [Audio!Next]_<<packets, [v \in Listeners |-> seen[v]], {}, ordered>>
<1> DEFINE heard == [v \in Listeners |-> seen[v]]
<1>1. ASSUME NEW c \in Clients, Write(c)
      PROVE  [Audio!Next]_<<packets, heard, {}, ordered>>
  <2>1. CASE c \in Listeners
    <3>1. seen \in [Clients -> Nat] /\ Listeners \subseteq Clients /\ c \notin preview
      BY <2>1, ClientsAssumption DEF OInv, IInv, Served, Clients
    <3>2. heard' = [heard EXCEPT ![c] = Head(queue[c])] /\ heard[c] = seen[c]
      BY <1>1, <2>1, <3>1, WriteShows
    <3>3. Highest(c) = packets BY <2>1, ClientsAssumption DEF Highest
    <3> HIDE DEF heard
    <3>4. Audio!Show(c) BY <1>1, <3>1, <3>2, <3>3, WriteShows DEF Audio!Show, heard
    <3> QED BY <2>1, <3>4 DEF Audio!Next
  <2>2. CASE c \notin Listeners
    <3>1. \A v \in Listeners : seen'[v] = seen[v]
      BY <1>1, <2>2, WriteShows DEF OInv, IInv, Served, Clients
    <3> QED BY <1>1, <3>1, WriteShows
  <2> QED BY <2>1, <2>2
<1>2. CASE \A c \in Clients : ~Write(c)
  <2>1. heard' = heard /\ ordered' \in {ordered, FALSE} BY <1>2, FeedSteps
  <2>2. CASE newest' = newest + 1 /\ UNCHANGED packets
    BY <2>1, <2>2 DEF Audio!Next, Audio!Disorder
  <2>3. CASE packets' = packets + 1
    BY <2>1, <2>3 DEF Audio!Next, Audio!Arrive
  <2>4. CASE UNCHANGED <<packets, ordered>> BY <2>1, <2>4
  <2> QED BY <1>2, <2>2, <2>3, <2>4, FeedSteps
<1> QED BY <1>1, <1>2

\* The pipeline of frames and that of sound are feeds: whoever is slow, drops, comes, goes
\* or is forgotten, nobody gets a piece twice or an older one after a newer one, but for
\* the frame a viewer is shown first, until two sessions deliver at once.
THEOREM FeedsInOrder == Spec => RefinesFeeds
<1>1. Init => Video!Init /\ Audio!Init BY DEF Init, Video!Init, Audio!Init, Clients
<1>2. OInv /\ [Next]_vars =>
        /\ [Video!Next]_<<newest, [v \in Viewers |-> seen[v]], preview, ordered>>
        /\ [Audio!Next]_<<packets, [v \in Listeners |-> seen[v]], {}, ordered>>
  BY VideoSteps, AudioSteps
<1> QED BY <1>1, <1>2, OrderInvariant, PTL DEF Spec, RefinesFeeds, Video!Spec, Audio!Spec
=============================================================================
