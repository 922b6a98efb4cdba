--------------------------- MODULE WatchdogProofs ---------------------------
(***************************************************************************)
(* Proofs about Watchdog for windows of any length, and any number of      *)
(* faults, listeners and snapshots.                                        *)
(***************************************************************************)
EXTENDS Watchdog, TLAPS

(* Types.                                                                  *)

LEMMA Windows ==
  /\ AudioStale \in Nat /\ Cooldown \in Nat /\ VideoStale \in Nat /\ NudgeCooldown \in Nat
  /\ SnapshotDemand \in Nat /\ OnlineTraffic \in Nat /\ MediaRestart \in Nat
  /\ ConnectTimeout \in Nat /\ VideoRefresh \in Nat /\ StaleTraffic \in Nat
  /\ TrafficRestart \in Nat /\ RequestWindow \in Nat /\ RestartDelay \in Nat
  /\ HealthPeriod \in Nat /\ Reconnect \in Nat /\ FirstFrame \in Nat
  /\ Cooldown < MediaRestart /\ VideoStale < OnlineTraffic /\ OnlineTraffic < MediaRestart
  /\ MediaRestart < StaleTraffic /\ StaleTraffic < TrafficRestart
  /\ 0 < Cooldown /\ 0 < MediaRestart
BY WindowsAssumption

LEMMA CapType == \A c \in Clocks : Cap(c) \in Nat
BY Windows DEF Cap, Clocks

LEMMA Caps ==
  /\ Cap("power") = OnlineTraffic + 1 /\ Cap("traffic") = TrafficRestart + 1
  /\ Cap("video") = StaleTraffic + 1 /\ Cap("audio") = StaleTraffic + 1
  /\ Cap("connect") = MediaRestart + 2 /\ Cap("restart") = Cooldown /\ Cap("viewing") = 2
BY DEF Cap

\* The part of TypeOK about clocks, and the others.
ClocksOK == age \in [Clocks -> Int] /\ \A c \in Clocks : Never <= age[c] /\ age[c] <= Cap(c)

Phased ==
  /\ session \in {"none", "starting", "connected"}
  /\ session = "none" <=> age["start"] = Never
  /\ session = "connected" <=> age["connect"] # Never

Switches ==
  /\ streamDue \in BOOLEAN /\ asking \in BOOLEAN /\ viewer \in BOOLEAN /\ listener \in BOOLEAN
  /\ restarted \in BOOLEAN /\ on \in BOOLEAN /\ sound \in BOOLEAN

Steps ==
  /\ timer \in NotSet .. RestartDelay /\ healthIn \in 0 .. HealthPeriod
  /\ nudging \subseteq {"stop", "start", "audio"}
  /\ joining \in {"no", "snapshot", "request", "recover"}
  /\ stream \in {"off", "warming", "on", "stuck", "dead"}
  /\ left \in Budgets

LEMMA TypeParts == TypeOK <=> ClocksOK /\ Phased /\ Switches /\ Steps
<1>1. (age \in [Clocks -> Int] /\ \A c \in Clocks : age[c] \in Never .. Cap(c)) <=> ClocksOK
  BY CapType DEF ClocksOK, Never
<1>2. {streamDue, asking, viewer, listener, restarted, on, sound} \subseteq BOOLEAN <=> Switches
  BY Zenon DEF Switches
<1>3. /\ (session = "none") = (age["start"] = Never)
      /\ (session = "connected") = (age["connect"] # Never)
      <=> /\ session = "none" <=> age["start"] = Never
          /\ session = "connected" <=> age["connect"] # Never
  OBVIOUS
<1> QED BY <1>1, <1>2, <1>3 DEF TypeOK, Phased, Steps

LEMMA InitTyped == Init => ClocksOK /\ Phased /\ Switches /\ Steps
<1> SUFFICES ASSUME Init PROVE ClocksOK /\ Phased /\ Switches /\ Steps
  OBVIOUS
<1>1. ClocksOK /\ Phased
  BY CapType DEF Init, ClocksOK, Phased, Never, Clocks
<1>2. Switches
  BY DEF Init, Switches
<1>3. Steps
  BY Windows, BoundsAssumption DEF Init, Steps, NotSet
<1> QED BY <1>1, <1>2, <1>3

\* A clock that is set to zero or stopped keeps its bounds, and so does one that
\* goes on.
LEMMA ClocksSet ==
  ASSUME ClocksOK, NEW zero, NEW never,
         age' = [c \in Clocks |-> IF c \in zero THEN 0 ELSE IF c \in never THEN Never ELSE age[c]]
  PROVE  ClocksOK'
BY CapType DEF ClocksOK, Never

LEMMA ClocksGoOn ==
  ASSUME ClocksOK, NEW zero, age' = [c \in Clocks |-> IF c \in zero THEN 0 ELSE Older(c)]
  PROVE  ClocksOK'
BY CapType DEF ClocksOK, Never, Older, Happened

\* A time that has not come to pass is not negative.
LEMMA AgeIsTime ==
  ASSUME ClocksOK, NEW c \in Clocks
  PROVE  age[c] \in Int /\ Cap(c) \in Nat /\ age[c] <= Cap(c) /\ (Happened(c) => 0 <= age[c])
BY CapType DEF ClocksOK, Happened, Never

-----------------------------------------------------------------------------
(* What the steps do to the clocks.  Most of them set clocks that only the   *)
(* throttles of requests and nudges read.                                    *)

RequestClocks == {"request", "videoRequest", "audioRequest", "nudge", "snapshot"}

Asks == ClocksOK' /\ \A c \in Clocks \ RequestClocks : age'[c] = age[c]

Keeps == age' = age

Restarts ==
  /\ ClocksOK' /\ session' = "none" /\ timer' = RestartDelay
  /\ age'["start"] = Never /\ age'["connect"] = Never
  /\ \A c \in Clocks \ {"start", "connect", "restart"} : age'[c] = age[c]
  /\ restarted' = TRUE /\ asking' = FALSE /\ nudging' = {}

LEMMA KeepsAsks ==
  ASSUME ClocksOK, Keeps
  PROVE  Asks
BY DEF Asks, Keeps, ClocksOK

LEMMA AskAsks ==
  ASSUME ClocksOK, Switches, Steps, NEW video, NEW audio, NEW stamps,
         stamps \subseteq RequestClocks, Ask(video, audio, stamps)
  PROVE  /\ Asks /\ sound' \in BOOLEAN
         /\ stream' \in {"off", "warming", "on", "stuck", "dead"}
<1> DEFINE starts == video /\ Heard /\ stream = "off"
<1>1. PICK zero : zero = stamps \cup (IF starts THEN {"request"} ELSE {})
  OBVIOUS
<1>2. age' = [c \in Clocks |-> IF c \in zero THEN 0 ELSE age[c]]
  BY <1>1 DEF Ask
<1>3. ClocksOK'
  BY <1>2, CapType DEF ClocksOK, Never
<1>4. \A c \in Clocks \ RequestClocks : c \notin zero
  BY <1>1 DEF RequestClocks
<1>5. Asks
  BY <1>2, <1>3, <1>4 DEF Asks
<1>6. sound' \in BOOLEAN
  BY Zenon DEF Ask, Switches
<1>7. stream' \in {"off", "warming", "on", "stuck", "dead"}
  BY DEF Ask, Steps
<1> QED BY <1>5, <1>6, <1>7

LEMMA RequestAsks ==
  ASSUME ClocksOK, Switches, Steps,
         RequestAudioOnly \/ \E force \in BOOLEAN : RequestStreams(force)
  PROVE  /\ Asks /\ sound' \in BOOLEAN
         /\ stream' \in {"off", "warming", "on", "stuck", "dead"}
<1>1. CASE RequestAudioOnly
  <2> DEFINE audio == listener /\ ~Within("audioRequest", RequestWindow)
  <2>1. PICK stamps : stamps = IF audio THEN {"audioRequest"} ELSE {}
    OBVIOUS
  <2>2. stamps \subseteq RequestClocks
    BY <2>1 DEF RequestClocks
  <2>3. Ask(FALSE, audio, stamps)
    BY <1>1, <2>1, Zenon DEF RequestAudioOnly
  <2> QED BY <2>2, <2>3, AskAsks
<1>2. CASE \E force \in BOOLEAN : RequestStreams(force)
  <2>1. PICK force \in BOOLEAN : RequestStreams(force)
    BY <1>2
  <2> DEFINE wanted == force \/ viewer \/ NoFrame \/ SnapshotWanted
             video == wanted /\ (force \/ ~Within("videoRequest", RequestWindow))
             audio == listener /\ (force \/ ~Within("audioRequest", RequestWindow))
  <2>2. PICK stamps : stamps = (IF video THEN {"videoRequest"} ELSE {}) \cup
                               (IF audio THEN {"audioRequest"} ELSE {})
    OBVIOUS
  <2>3. stamps \subseteq RequestClocks
    BY <2>2 DEF RequestClocks
  <2>4. Ask(video, audio, stamps)
    BY <2>1, <2>2, Zenon DEF RequestStreams
  <2> QED BY <2>3, <2>4, AskAsks
<1> QED BY <1>1, <1>2

LEMMA NudgeAsks ==
  ASSUME ClocksOK, Nudge
  PROVE  Asks /\ nudging' \subseteq {"stop", "start", "audio"} /\ UNCHANGED <<stream, sound>>
<1>1. \A c \in Clocks : age'[c] = 0 \/ age'[c] = age[c]
  BY DEF Nudge, ClocksOK, Clocks
<1>2. \A c \in Clocks \ RequestClocks : age'[c] = age[c]
  BY DEF Nudge, ClocksOK, Clocks, RequestClocks
<1>3. age' \in [Clocks -> Int]
  BY DEF Nudge, ClocksOK, Clocks
<1> QED BY <1>1, <1>2, <1>3, CapType DEF Asks, ClocksOK, Nudge, Never

LEMMA RestartRestarts ==
  ASSUME ClocksOK, Restart
  PROVE  Restarts
<1>1. age' \in [Clocks -> Int]
  BY DEF Restart, ClocksOK, Clocks, Never
<1>2. /\ age'["start"] = Never /\ age'["connect"] = Never /\ age'["restart"] = 0
      /\ \A c \in Clocks \ {"start", "connect", "restart"} : age'[c] = age[c]
  BY DEF Restart, ClocksOK, Clocks
<1>3. \A c \in Clocks : Never <= age'[c] /\ age'[c] <= Cap(c)
  BY <1>2, CapType DEF ClocksOK, Never
<1> QED BY <1>1, <1>2, <1>3 DEF Restarts, Restart, ClocksOK

-----------------------------------------------------------------------------
(* The inductive invariant: how the clocks are related.                      *)

\* What a camera that cannot be reached has sent is at least as old as that.
Silent ==
  ~on => \A c \in {"traffic", "video", "audio"} : Happened(c) => age["power"] <= age[c]

\* A session that has a peer began with a packet, and after the throttle of any
\* restart or since.
Linked ==
  Connected =>
    /\ Happened("traffic")
    /\ Happened("restart") => Cooldown <= age["restart"] \/ age["connect"] <= age["restart"]

\* A frame is traffic.
FramesAreTraffic ==
  Happened("video") /\ age["video"] <= StaleTraffic =>
    Happened("traffic") /\ age["traffic"] <= age["video"]

\* Once streamLoop has ticked there is no dead session that somebody watches.
NotDead ==
  Connected /\ viewer /\ ~streamDue /\ 1 <= age["viewing"] /\ MediaRestart < age["connect"] =>
    Happened("video") /\ age["video"] <= MediaRestart

Rest == Silent /\ Linked /\ FramesAreTraffic /\ NotDead /\ DeadIsReplaced

IInv == TypeOK /\ Rest

Typed == ClocksOK /\ Phased /\ Switches /\ Steps

LEMMA InitRest == Init => Rest
<1> SUFFICES ASSUME Init PROVE Rest
  OBVIOUS
<1>1. /\ ~Connected /\ ~Happened("traffic") /\ ~Happened("video") /\ ~Happened("audio")
  BY DEF Init, Connected, Happened, Clocks, Never
<1>2. Silent
  BY <1>1 DEF Silent
<1> QED BY <1>1, <1>2 DEF Rest, Linked, FramesAreTraffic, NotDead, DeadIsReplaced

\* The clocks the invariant is about.
Named == {"traffic", "video", "audio", "power", "connect", "restart", "viewing"}

LEMMA NamedClocks ==
  /\ Named \subseteq Clocks \ RequestClocks
  /\ "start" \in Clocks \ (Named \cup RequestClocks)
BY DEF Named, Clocks, RequestClocks

\* A step that sets none of them.
LEMMA QuietRest ==
  ASSUME Rest, \A c \in Named : age'[c] = age[c], UNCHANGED <<session, on, viewer, streamDue>>
  PROVE  Rest'
BY DEF Rest, Silent, Linked, FramesAreTraffic, NotDead, DeadIsReplaced, Connected, Happened,
       Named

LEMMA RestartsRest ==
  ASSUME Rest, Restarts, UNCHANGED <<on, viewer>>
  PROVE  Rest'
<1>1. \A c \in {"traffic", "video", "audio", "power"} : age'[c] = age[c]
  BY DEF Restarts, Clocks
<1>2. ~Connected'
  BY DEF Restarts, Connected
<1>3. Silent'
  BY <1>1 DEF Rest, Silent, Happened
<1>4. FramesAreTraffic'
  BY <1>1 DEF Rest, FramesAreTraffic, Happened
<1> QED BY <1>2, <1>3, <1>4 DEF Rest, Linked, NotDead, DeadIsReplaced

\* A session that starts, with or without a handler that brings a viewer.
LEMMA StartsRest ==
  ASSUME Rest, session' = "starting", UNCHANGED on,
         \A c \in {"traffic", "video", "audio", "power"} : age'[c] = age[c]
  PROVE  Rest'
<1>1. ~Connected'
  BY DEF Connected
<1>2. Silent'
  BY DEF Rest, Silent, Happened
<1>3. FramesAreTraffic'
  BY DEF Rest, FramesAreTraffic, Happened
<1> QED BY <1>1, <1>2, <1>3 DEF Rest, Linked, NotDead, DeadIsReplaced

LEMMA RestartsTyped ==
  ASSUME Typed, Restarts, UNCHANGED <<viewer, listener, on, sound>>,
         streamDue' \in BOOLEAN, healthIn' \in 0 .. HealthPeriod, UNCHANGED <<stream, left>>,
         joining' \in {"no", "snapshot", "request", "recover"}
  PROVE  Typed'
<1>1. Phased'
  BY DEF Restarts, Phased
<1>2. Switches'
  BY Zenon DEF Restarts, Switches, Typed
<1>3. RestartDelay \in NotSet .. RestartDelay
  BY Windows DEF NotSet
<1>4. Steps'
  BY <1>3 DEF Restarts, Steps, Typed
<1> QED BY <1>1, <1>2, <1>4 DEF Typed, Restarts

\* A step that asks the camera for something and nothing else.
LEMMA AsksTyped ==
  ASSUME Typed, Rest, Asks, sound' \in BOOLEAN, asking' \in BOOLEAN, streamDue' \in BOOLEAN,
         stream' \in {"off", "warming", "on", "stuck", "dead"},
         nudging' \subseteq {"stop", "start", "audio"},
         joining' \in {"no", "snapshot", "request", "recover"},
         UNCHANGED <<session, timer, healthIn, viewer, listener, restarted, on, left>>
  PROVE  Typed' /\ (streamDue' = streamDue => Rest')
<1>1. \A c \in Named \cup {"start"} : age'[c] = age[c]
  BY NamedClocks DEF Asks
<1>2. Phased'
  BY <1>1 DEF Phased, Typed, Named
<1>3. Switches'
  BY Zenon DEF Switches, Typed
<1>4. Steps'
  BY DEF Steps, Typed
<1>5. streamDue' = streamDue => Rest'
  BY <1>1, QuietRest
<1> QED BY <1>2, <1>3, <1>4, <1>5 DEF Typed, Asks

-----------------------------------------------------------------------------
(* The camera.                                                               *)

LEMMA EventLeft ==
  ASSUME left \in Budgets, NEW kind \in {"off", "stall", "audio", "snapshot"}, Event(kind)
  PROVE  left' \in Budgets
<1>1. left[kind] \in Nat /\ left[kind] > 0 /\ left' = [left EXCEPT ![kind] = left[kind] - 1]
  BY DEF Event, Budgets
<1>2. left[kind] - 1 \in Nat
  BY <1>1
<1> QED BY <1>1, <1>2 DEF Budgets

LEMMA SendsFrameStep == ASSUME Typed, Rest, SendsFrame PROVE Typed' /\ Rest'
<1>1. /\ age'["video"] = 0 /\ age'["traffic"] = 0
      /\ \A c \in Clocks \ {"video", "traffic"} : age'[c] = age[c]
      /\ age' \in [Clocks -> Int]
  BY DEF SendsFrame, Typed, ClocksOK, Clocks
<1>2. ClocksOK'
  BY <1>1, CapType DEF Typed, ClocksOK, Never
<1>3. Phased'
  BY <1>1 DEF SendsFrame, Typed, Phased, Clocks
<1>4. Switches'
  BY Zenon DEF SendsFrame, Typed, Switches
<1>5. Steps'
  BY DEF SendsFrame, Typed, Steps
<1>6. on /\ on' /\ Connected' /\ Happened("traffic")' /\ Happened("video")'
  BY <1>1 DEF SendsFrame, Heard, Connected, Happened, Never
<1>7. Silent' /\ FramesAreTraffic'
  BY <1>1, <1>6 DEF Silent, FramesAreTraffic
<1>8. age'["restart"] = age["restart"] /\ age'["connect"] = age["connect"]
  BY <1>1 DEF Clocks
<1>9. Linked'
  BY <1>6, <1>8 DEF Rest, Linked, SendsFrame, Connected, Heard, Happened
<1>10. NotDead' /\ DeadIsReplaced'
  BY <1>1, <1>6, Windows DEF NotDead, DeadIsReplaced
<1> QED BY <1>2, <1>3, <1>4, <1>5, <1>7, <1>9, <1>10 DEF Typed, Rest

LEMMA StallsStep == ASSUME Typed, Rest, Stalls PROVE Typed' /\ Rest'
<1>1. UNCHANGED <<session, age, timer, healthIn, streamDue, asking, nudging, joining, viewer,
                  listener, restarted, on>>
  BY DEF Stalls
<1>2. ClocksOK' /\ Phased'
  BY <1>1 DEF Typed, ClocksOK, Phased
<1>3. sound' \in BOOLEAN
  BY Zenon DEF Stalls, Typed, Switches
<1>4. Switches'
  BY <1>1, <1>3, Zenon DEF Typed, Switches
<1>5. left' \in Budgets
  BY EventLeft DEF Stalls, Typed, Steps
<1>6. stream' \in {"off", "warming", "on", "stuck", "dead"}
  BY DEF Stalls, Typed, Steps
<1>7. Steps'
  BY <1>1, <1>5, <1>6 DEF Typed, Steps
<1>8. Rest'
  BY <1>1, QuietRest
<1> QED BY <1>2, <1>4, <1>7, <1>8 DEF Typed

LEMMA SwitchedStep == ASSUME Typed, Rest, SwitchedOff \/ SwitchedOn PROVE Typed' /\ Rest'
<1>1. /\ age'["power"] = 0 /\ \A c \in Clocks \ {"power"} : age'[c] = age[c]
      /\ age' \in [Clocks -> Int]
  BY DEF SwitchedOff, SwitchedOn, Typed, ClocksOK, Clocks
<1>2. UNCHANGED <<session, timer, healthIn, streamDue, asking, nudging, joining, viewer,
                  listener, restarted, sound>>
  BY DEF SwitchedOff, SwitchedOn
<1>3. ClocksOK'
  BY <1>1, CapType DEF Typed, ClocksOK, Never
<1>4. Phased'
  BY <1>1, <1>2 DEF Typed, Phased, Clocks
<1>5. on' \in BOOLEAN
  BY Zenon DEF SwitchedOff, SwitchedOn
<1>6. Switches'
  BY <1>2, <1>5, Zenon DEF Typed, Switches
<1>7. left' \in Budgets
  BY EventLeft DEF SwitchedOff, SwitchedOn, Typed, Steps
<1>8. stream' \in {"off", "warming", "on", "stuck", "dead"}
  BY DEF SwitchedOff, SwitchedOn, Typed, Steps
<1>9. Steps'
  BY <1>2, <1>7, <1>8 DEF Typed, Steps
<1>10. Silent'
  <2> SUFFICES ASSUME NEW c \in {"traffic", "video", "audio"}, Happened(c)'
               PROVE  age'["power"] <= age'[c]
    BY DEF Silent
  <2>1. c \in Clocks \ {"power"}
    BY DEF Clocks
  <2>2. Happened(c)
    BY <1>1, <2>1 DEF Happened
  <2> QED BY <1>1, <2>1, <2>2, AgeIsTime DEF Typed
<1>11. /\ age'["traffic"] = age["traffic"] /\ age'["video"] = age["video"]
       /\ age'["connect"] = age["connect"] /\ age'["restart"] = age["restart"]
       /\ age'["viewing"] = age["viewing"]
  BY <1>1 DEF Clocks
<1>12. Linked' /\ FramesAreTraffic' /\ NotDead' /\ DeadIsReplaced'
  BY <1>2, <1>11 DEF Rest, Linked, FramesAreTraffic, NotDead, DeadIsReplaced, Connected, Happened
<1> QED BY <1>3, <1>4, <1>6, <1>9, <1>10, <1>12 DEF Typed, Rest

-----------------------------------------------------------------------------
(* The session.                                                              *)

LEMMA TimerFiresStep == ASSUME Typed, Rest, TimerFires PROVE Typed' /\ Rest'
<1>1. UNCHANGED <<asking, nudging, joining, viewer, listener, restarted, on, stream, sound,
                  left>> /\ timer' = NotSet
  BY DEF TimerFires
<1>2. NotSet \in NotSet .. RestartDelay /\ HealthPeriod \in 0 .. HealthPeriod
  BY Windows DEF NotSet
<1>3. healthIn' \in 0 .. HealthPeriod
  BY <1>2 DEF TimerFires, Starts, Typed, Steps
<1>4. Steps'
  BY <1>1, <1>2, <1>3 DEF Typed, Steps
<1>5. streamDue' \in BOOLEAN
  BY Zenon DEF TimerFires, Starts, Typed, Switches
<1>6. Switches'
  BY <1>1, <1>5, Zenon DEF Typed, Switches
<1>7. CASE session = "none"
  <2>1. session' = "starting" /\ age' = [age EXCEPT !["start"] = 0]
    BY <1>7 DEF TimerFires, Starts
  <2>2. /\ age'["start"] = 0 /\ \A c \in Clocks \ {"start"} : age'[c] = age[c]
        /\ age' \in [Clocks -> Int]
    BY <2>1 DEF Typed, ClocksOK, Clocks
  <2>3. ClocksOK'
    BY <2>2, CapType DEF Typed, ClocksOK, Never
  <2>4. Phased'
    BY <1>7, <2>1, <2>2 DEF Typed, Phased, Clocks, Never
  <2>5. Rest'
    BY <1>1, <2>1, <2>2, StartsRest DEF Clocks
  <2> QED BY <1>4, <1>6, <2>3, <2>4, <2>5 DEF Typed
<1>8. CASE session # "none"
  <2>1. UNCHANGED <<session, age, streamDue>>
    BY <1>8 DEF TimerFires
  <2>2. ClocksOK' /\ Phased'
    BY <2>1 DEF Typed, ClocksOK, Phased
  <2>3. Rest'
    BY <1>1, <2>1, QuietRest
  <2> QED BY <1>4, <1>6, <2>2, <2>3 DEF Typed
<1> QED BY <1>7, <1>8

LEMMA OnConnectedStep == ASSUME Typed, Rest, OnConnected PROVE Typed' /\ Rest'
<1>1. /\ age'["connect"] = 0 /\ age'["traffic"] = 0 /\ age' \in [Clocks -> Int]
      /\ \A c \in Clocks \ {"connect", "traffic"} : age'[c] = age[c]
  BY DEF OnConnected, Typed, ClocksOK, Clocks
<1>2. ClocksOK'
  BY <1>1, CapType DEF Typed, ClocksOK, Never
<1>3. Phased'
  BY <1>1 DEF OnConnected, Typed, Phased, Clocks, Never
<1>4. Switches'
  BY Zenon DEF OnConnected, Typed, Switches
<1>5. Steps'
  BY DEF OnConnected, Typed, Steps
<1>6. Silent'
  BY Zenon DEF OnConnected, Silent
<1>7. age'["restart"] = age["restart"] /\ age'["video"] = age["video"]
  BY <1>1 DEF Clocks
<1>8. /\ age'["restart"] \in Int /\ (Happened("restart")' => 0 <= age'["restart"])
      /\ age'["video"] \in Int /\ (Happened("video")' => 0 <= age'["video"])
  BY <1>7, AgeIsTime DEF Typed, Happened, Clocks
<1>9. Linked'
  BY <1>1, <1>8 DEF Linked, Happened, Never
<1>10. FramesAreTraffic'
  BY <1>1, <1>8 DEF FramesAreTraffic, Happened, Never
<1>11. NotDead' /\ DeadIsReplaced'
  BY <1>1, Windows DEF NotDead, DeadIsReplaced
<1> QED BY <1>2, <1>3, <1>4, <1>5, <1>6, <1>9, <1>10, <1>11 DEF Typed, Rest

\* The goroutines that send commands.
LEMMA SendsStep ==
  ASSUME Typed, Rest, AskStreams \/ NudgeStops \/ NudgeStarts \/ NudgeAsksAudio
  PROVE  Typed' /\ Rest'
<1>1. UNCHANGED <<session, timer, healthIn, streamDue, joining, viewer, listener, restarted, on,
                  left>>
  BY DEF AskStreams, NudgeStops, NudgeStarts, NudgeAsksAudio
<1>2. asking' \in BOOLEAN /\ streamDue' \in BOOLEAN
  BY Zenon DEF AskStreams, NudgeStops, NudgeStarts, NudgeAsksAudio, Typed, Switches
<1>3. /\ nudging' \subseteq {"stop", "start", "audio"}
      /\ joining' \in {"no", "snapshot", "request", "recover"}
  BY DEF AskStreams, NudgeStops, NudgeStarts, NudgeAsksAudio, Typed, Steps
<1>4. Asks /\ sound' \in BOOLEAN /\ stream' \in {"off", "warming", "on", "stuck", "dead"}
  <2>1. CASE AskStreams
    BY <2>1, RequestAsks, Zenon DEF AskStreams, Typed
  <2>2. CASE NudgeStops
    <3>1. Asks
      BY <2>2, KeepsAsks DEF NudgeStops, Keeps, Typed
    <3>2. sound' \in BOOLEAN
      BY <2>2, Zenon DEF NudgeStops, Typed, Switches
    <3>3. stream' \in {"off", "warming", "on", "stuck", "dead"}
      BY <2>2 DEF NudgeStops, Typed, Steps
    <3> QED BY <3>1, <3>2, <3>3
  <2>3. CASE NudgeStarts
    <3> PICK video, audio, stamps : video = TRUE /\ audio = FALSE /\ stamps = {}
      OBVIOUS
    <3>1. Ask(video, audio, stamps)
      BY <2>3 DEF NudgeStarts, Ask
    <3>2. stamps \subseteq RequestClocks
      OBVIOUS
    <3>3. ClocksOK /\ Switches /\ Steps
      BY DEF Typed
    <3> QED BY <3>1, <3>2, <3>3, AskAsks
  <2>4. CASE NudgeAsksAudio
    <3> PICK video, audio, stamps : video = FALSE /\ audio = TRUE /\ stamps = {}
      OBVIOUS
    <3>1. Ask(video, audio, stamps)
      BY <2>4 DEF NudgeAsksAudio, Ask
    <3>2. stamps \subseteq RequestClocks
      OBVIOUS
    <3>3. ClocksOK /\ Switches /\ Steps
      BY DEF Typed
    <3> QED BY <3>1, <3>2, <3>3, AskAsks
  <2> QED BY <2>1, <2>2, <2>3, <2>4
<1> QED BY <1>1, <1>2, <1>3, <1>4, AsksTyped

-----------------------------------------------------------------------------
(* The loops.                                                                *)

\* A session that is dead is not kept by the throttle: it connected after the last
\* restart, and has been connected for longer than the throttle holds.
LEMMA NoThrottle ==
  ASSUME ClocksOK, Linked, Connected, MediaRestart < age["connect"]
  PROVE  ~Throttled
<1> "restart" \in Clocks /\ "connect" \in Clocks
  BY DEF Clocks
<1> QED BY Windows, AgeIsTime DEF Linked, Throttled, Within

\* Of a tick that does not restart the session of a viewer: it is not dead.
LEMMA TickFindsDead ==
  ASSUME Typed, Rest, StreamIdles \/ StreamActs
  PROVE  Connected /\ viewer /\ MediaRestart < age["connect"] =>
           Happened("video") /\ age["video"] <= MediaRestart
<1> SUFFICES ASSUME Connected, viewer, MediaRestart < age["connect"]
             PROVE  Happened("video") /\ age["video"] <= MediaRestart
  OBVIOUS
<1>1. age["video"] \in Int /\ age["connect"] \in Int
  BY AgeIsTime DEF Typed, Clocks
<1>2. HasVideo
  BY DEF HasVideo
<1>3. CASE ~DeadVideo
  BY <1>1, <1>2, <1>3, Windows DEF DeadVideo, Dead
<1>4. CASE ~StaleVideo
  BY <1>1, <1>2, <1>4, Windows DEF StaleVideo, NoFrame, Over
<1>5. CASE DeadVideo /\ ~Throttled
  <2>1. ~StreamIdles \/ ~StaleVideo
    BY <1>5, Zenon DEF StreamIdles
  <2>2. ~StreamActs
    BY <1>5, Zenon DEF StreamActs
  <2> QED BY <1>4, <2>1, <2>2
<1>6. ~Throttled
  BY NoThrottle DEF Typed, Rest
<1> QED BY <1>3, <1>5, <1>6

\* When a tick has done nothing to the clocks the invariant is about.
LEMMA TickRest ==
  ASSUME Typed, Rest, StreamIdles \/ StreamActs, Asks, UNCHANGED <<session, on, viewer>>
  PROVE  Rest'
<1>1. \A c \in Named : age'[c] = age[c]
  BY NamedClocks DEF Asks
<1>2. /\ age'["video"] = age["video"] /\ age'["traffic"] = age["traffic"]
      /\ age'["audio"] = age["audio"] /\ age'["power"] = age["power"]
      /\ age'["connect"] = age["connect"] /\ age'["restart"] = age["restart"]
      /\ age'["viewing"] = age["viewing"]
  BY <1>1 DEF Named
<1>3. Silent' /\ Linked' /\ FramesAreTraffic' /\ DeadIsReplaced'
  BY <1>2 DEF Rest, Silent, Linked, FramesAreTraffic, DeadIsReplaced, Connected, Happened
<1>4. NotDead'
  BY <1>2, TickFindsDead DEF NotDead, Connected, Happened
<1> QED BY <1>3, <1>4 DEF Rest

LEMMA StreamStep ==
  ASSUME Typed, Rest, StreamRestarts \/ StreamIdles \/ StreamActs
  PROVE  Typed' /\ Rest'
<1>1. CASE StreamRestarts
  <2>1. Restarts
    BY <1>1, RestartRestarts DEF StreamRestarts, Typed
  <2>2. /\ UNCHANGED <<viewer, listener, on, sound, stream, left>>
        /\ streamDue' \in BOOLEAN /\ healthIn' \in 0 .. HealthPeriod
        /\ joining' \in {"no", "snapshot", "request", "recover"}
    BY <1>1 DEF StreamRestarts, StreamTick, Typed, Steps
  <2> QED BY <2>1, <2>2, RestartsTyped, RestartsRest
<1>2. CASE StreamIdles \/ StreamActs
  <2>1. UNCHANGED <<session, timer, healthIn, viewer, listener, restarted, on, left, asking,
                    joining>> /\ streamDue' = FALSE
    BY <1>2 DEF StreamIdles, StreamActs, StreamTick
  <2>2. /\ Asks /\ sound' \in BOOLEAN /\ nudging' \subseteq {"stop", "start", "audio"}
        /\ stream' \in {"off", "warming", "on", "stuck", "dead"}
    <3>1. CASE StreamIdles
      <4>1. Asks
        BY <3>1, KeepsAsks DEF StreamIdles, Keeps, Typed
      <4>2. UNCHANGED <<sound, nudging, stream>>
        BY <3>1 DEF StreamIdles
      <4> QED BY <4>1, <4>2, Zenon DEF Typed, Switches, Steps
    <3>2. CASE StreamActs
      <4>1. Nudge \/ ((RequestAudioOnly \/ RequestStreams(FALSE)) /\ UNCHANGED nudging)
        BY <3>2, Zenon DEF StreamActs
      <4>2. CASE Nudge
        <5>1. Asks /\ nudging' \subseteq {"stop", "start", "audio"} /\ UNCHANGED <<stream, sound>>
          BY <4>2, NudgeAsks DEF Typed
        <5> QED BY <5>1, Zenon DEF Typed, Switches, Steps
      <4>3. CASE (RequestAudioOnly \/ RequestStreams(FALSE)) /\ UNCHANGED nudging
        <5>1. Asks /\ sound' \in BOOLEAN /\ stream' \in {"off", "warming", "on", "stuck", "dead"}
          BY <4>3, RequestAsks, Zenon DEF Typed
        <5> QED BY <4>3, <5>1 DEF Typed, Steps
      <4> QED BY <4>1, <4>2, <4>3
    <3> QED BY <1>2, <3>1, <3>2
  <2>3. asking' \in BOOLEAN /\ streamDue' \in BOOLEAN
    BY <2>1, Zenon DEF Typed, Switches
  <2>4. joining' \in {"no", "snapshot", "request", "recover"}
    BY <2>1 DEF Typed, Steps
  <2>5. Typed'
    BY <2>1, <2>2, <2>3, <2>4, AsksTyped
  <2>6. Rest'
    BY <1>2, <2>1, <2>2, TickRest
  <2> QED BY <2>5, <2>6
<1> QED BY <1>1, <1>2

LEMMA HealthStep == ASSUME Typed, Rest, HealthTick PROVE Typed' /\ Rest'
<1>1. UNCHANGED <<streamDue, joining, viewer, listener, on, stream, sound, left>>
  BY DEF HealthTick
<1>2. healthIn' \in 0 .. HealthPeriod
  BY Windows DEF HealthTick
<1>3. streamDue' \in BOOLEAN
  BY <1>1, Zenon DEF Typed, Switches
<1>4. joining' \in {"no", "snapshot", "request", "recover"}
  BY <1>1 DEF Typed, Steps
<1>5. CASE TooLate /\ ~Throttled
  <2>1. Restarts
    BY <1>5, RestartRestarts DEF HealthTick, Typed
  <2> QED BY <1>1, <1>2, <1>3, <1>4, <2>1, RestartsTyped, RestartsRest
<1>6. CASE ~(TooLate /\ ~Throttled)
  <2>1. UNCHANGED <<session, age, timer, restarted, asking, nudging>>
    BY <1>6, Zenon DEF HealthTick
  <2>2. ClocksOK' /\ Phased'
    BY <2>1 DEF Typed, ClocksOK, Phased
  <2>3. Switches'
    BY <1>1, <2>1, Zenon DEF Typed, Switches
  <2>4. Steps'
    BY <1>1, <1>2, <2>1 DEF Typed, Steps
  <2>5. Rest'
    BY <1>1, <2>1, QuietRest
  <2> QED BY <2>2, <2>3, <2>4, <2>5 DEF Typed
<1> QED BY <1>5, <1>6

-----------------------------------------------------------------------------
(* The handlers.                                                             *)

\* A handler enters: it may start a session, and may bring a viewer.
LEMMA EntersStep ==
  ASSUME Typed, Rest, NEW step \in {"snapshot", "request", "recover"},
         NEW stamps, stamps \subseteq {"viewing", "snapshot"}, Enters(step, stamps),
         viewer' \in BOOLEAN, listener' \in BOOLEAN, left' \in Budgets,
         viewer' = viewer \/ "viewing" \in stamps
  PROVE  Typed' /\ Rest'
<1>1. PICK zero : zero = stamps \cup (IF session = "none" THEN {"start"} ELSE {})
  OBVIOUS
<1>2. age' = [c \in Clocks |-> IF c \in zero THEN 0 ELSE age[c]]
  BY <1>1 DEF Enters
<1>3. zero \subseteq {"viewing", "snapshot", "start"}
  BY <1>1
<1>4. \A c \in {"traffic", "video", "audio", "power", "connect", "restart"} : age'[c] = age[c]
  BY <1>2, <1>3 DEF Clocks
<1>5. ClocksOK'
  BY <1>2, CapType DEF Typed, ClocksOK, Never
<1>6. UNCHANGED <<timer, asking, nudging, restarted, on, stream, sound>> /\ joining' = step
  BY DEF Enters
<1>7. HealthPeriod \in 0 .. HealthPeriod
  BY Windows
<1>8. healthIn' \in 0 .. HealthPeriod
  BY <1>7 DEF Enters, Starts, Typed, Steps
<1>9. Steps'
  BY <1>6, <1>8 DEF Typed, Steps
<1>10. streamDue' \in BOOLEAN
  BY Zenon DEF Enters, Starts, Typed, Switches
<1>11. Switches'
  BY <1>6, <1>10, Zenon DEF Typed, Switches
<1>12. CASE session = "none"
  <2>1. session' = "starting"
    BY <1>12 DEF Enters, Starts
  <2>2. age'["start"] = 0
    BY <1>1, <1>2, <1>12 DEF Clocks
  <2>3. Phased'
    BY <1>4, <1>12, <2>1, <2>2 DEF Typed, Phased, Never
  <2>4. Rest'
    BY <1>4, <1>6, <2>1, StartsRest
  <2> QED BY <1>5, <1>9, <1>11, <2>3, <2>4 DEF Typed
<1>13. CASE session # "none"
  <2>1. UNCHANGED <<session, streamDue>>
    BY <1>13 DEF Enters
  <2>2. age'["start"] = age["start"]
    BY <1>1, <1>2, <1>13 DEF Clocks
  <2>3. Phased'
    BY <1>4, <2>1, <2>2 DEF Typed, Phased
  <2>4. Silent' /\ Linked' /\ FramesAreTraffic'
    BY <1>4, <1>6, <2>1 DEF Rest, Silent, Linked, FramesAreTraffic, Connected, Happened
  <2>5. CASE "viewing" \in stamps
    <3>1. age'["viewing"] = 0
      BY <1>1, <1>2, <2>5 DEF Clocks
    <3>2. NotDead' /\ DeadIsReplaced'
      BY <3>1 DEF NotDead, DeadIsReplaced
    <3> QED BY <1>5, <1>9, <1>11, <2>3, <2>4, <3>2 DEF Typed, Rest
  <2>6. CASE "viewing" \notin stamps
    <3>1. viewer' = viewer
      BY <2>6, Zenon DEF Typed, Switches
    <3>2. age'["viewing"] = age["viewing"]
      BY <1>1, <1>2, <1>13, <2>6 DEF Clocks
    <3>3. NotDead' /\ DeadIsReplaced'
      BY <1>4, <2>1, <3>1, <3>2 DEF Rest, NotDead, DeadIsReplaced, Connected, Happened
    <3> QED BY <1>5, <1>9, <1>11, <2>3, <2>4, <3>3 DEF Typed, Rest
  <2> QED BY <2>5, <2>6
<1> QED BY <1>12, <1>13

LEMMA ServesStep ==
  ASSUME Typed, Rest, ServeVideo \/ ServeAudio \/ ServeSnapshot
  PROVE  Typed' /\ Rest'
<1>1. CASE ServeVideo
  <2> PICK stamps : stamps = {"viewing"}
    OBVIOUS
  <2>1. Enters("recover", stamps) /\ viewer' = TRUE /\ UNCHANGED <<listener, left>>
    BY <1>1 DEF ServeVideo
  <2>2. stamps \subseteq {"viewing", "snapshot"} /\ "viewing" \in stamps
    OBVIOUS
  <2>3. viewer' \in BOOLEAN /\ listener' \in BOOLEAN /\ viewer' = (viewer \/ "viewing" \in stamps)
    BY <2>1, <2>2, Zenon DEF Typed, Switches
  <2>4. left' \in Budgets
    BY <2>1 DEF Typed, Steps
  <2> QED BY <2>1, <2>2, <2>3, <2>4, EntersStep
<1>2. CASE ServeAudio
  <2> PICK stamps : stamps = {}
    OBVIOUS
  <2>1. Enters("request", stamps) /\ listener' = TRUE /\ viewer' = viewer
    BY <1>2 DEF ServeAudio
  <2>2. stamps \subseteq {"viewing", "snapshot"} /\ "viewing" \notin stamps
    OBVIOUS
  <2>3. viewer' \in BOOLEAN /\ listener' \in BOOLEAN /\ viewer' = (viewer \/ "viewing" \in stamps)
    BY <2>1, <2>2, Zenon DEF Typed, Switches
  <2>4. left' \in Budgets
    BY <1>2, EventLeft DEF ServeAudio, Typed, Steps
  <2> QED BY <2>1, <2>2, <2>3, <2>4, EntersStep
<1>3. CASE ServeSnapshot
  <2> PICK stamps : stamps = {"snapshot"}
    OBVIOUS
  <2>1. Enters("snapshot", stamps) /\ UNCHANGED <<viewer, listener>>
    BY <1>3 DEF ServeSnapshot
  <2>2. stamps \subseteq {"viewing", "snapshot"} /\ "viewing" \notin stamps
    OBVIOUS
  <2>3. viewer' \in BOOLEAN /\ listener' \in BOOLEAN /\ viewer' = (viewer \/ "viewing" \in stamps)
    BY <2>1, <2>2, Zenon DEF Typed, Switches
  <2>4. left' \in Budgets
    BY <1>3, EventLeft DEF ServeSnapshot, Typed, Steps
  <2> QED BY <2>1, <2>2, <2>3, <2>4, EntersStep
<1> QED BY <1>1, <1>2, <1>3

LEMMA LeavesStep == ASSUME Typed, Rest, Leaves PROVE Typed' /\ Rest'
<1>1. UNCHANGED <<session, timer, healthIn, streamDue, asking, nudging, joining, restarted, on,
                  stream, sound, left>>
  BY DEF Leaves
<1>2. Steps'
  BY <1>1 DEF Typed, Steps
<1>3. viewer' \in BOOLEAN /\ listener' \in BOOLEAN
  BY Zenon DEF Leaves, Typed, Switches
<1>4. Switches'
  BY <1>1, <1>3, Zenon DEF Typed, Switches
<1>5. CASE UNCHANGED <<viewer, age>>
  <2>1. ClocksOK' /\ Phased'
    BY <1>1, <1>5 DEF Typed, ClocksOK, Phased
  <2>2. Rest'
    BY <1>1, <1>5, QuietRest
  <2> QED BY <1>2, <1>4, <2>1, <2>2 DEF Typed
<1>6. CASE viewer' = FALSE /\ age' = [age EXCEPT !["viewing"] = Never]
  <2>1. /\ age'["viewing"] = Never /\ \A c \in Clocks \ {"viewing"} : age'[c] = age[c]
        /\ age' \in [Clocks -> Int]
    BY <1>6 DEF Typed, ClocksOK, Clocks, Never
  <2>2. ClocksOK'
    BY <2>1, CapType DEF Typed, ClocksOK, Never
  <2>3. \A c \in {"traffic", "video", "audio", "power", "connect", "restart", "start"} :
          age'[c] = age[c]
    BY <2>1 DEF Clocks
  <2>4. Phased'
    BY <1>1, <2>3 DEF Typed, Phased
  <2>5. Silent' /\ Linked' /\ FramesAreTraffic'
    BY <1>1, <2>3 DEF Rest, Silent, Linked, FramesAreTraffic, Connected, Happened
  <2>6. NotDead' /\ DeadIsReplaced'
    BY <1>6, Zenon DEF NotDead, DeadIsReplaced
  <2> QED BY <1>2, <1>4, <2>2, <2>4, <2>5, <2>6 DEF Typed, Rest
<1>7. UNCHANGED <<viewer, age>> \/ (viewer' = FALSE /\ age' = [age EXCEPT !["viewing"] = Never])
  BY Zenon DEF Leaves
<1> QED BY <1>5, <1>6, <1>7

LEMMA HandlerStep ==
  ASSUME Typed, Rest, HandlerRequests \/ RecoverRestarts \/ RecoverNudges \/ RecoverRequests
  PROVE  Typed' /\ Rest'
<1>1. joining' \in {"no", "snapshot", "request", "recover"}
  BY DEF HandlerRequests, RecoverRestarts, RecoverNudges, RecoverRequests, Recovers
<1>2. CASE RecoverRestarts
  <2>1. Restarts
    BY <1>2, RestartRestarts DEF RecoverRestarts, Typed
  <2>2. UNCHANGED <<healthIn, streamDue, viewer, listener, on, stream, sound, left>>
    BY <1>2 DEF RecoverRestarts
  <2>3. streamDue' \in BOOLEAN
    BY <2>2, Zenon DEF Typed, Switches
  <2>4. healthIn' \in 0 .. HealthPeriod
    BY <2>2 DEF Typed, Steps
  <2> QED BY <1>1, <2>1, <2>2, <2>3, <2>4, RestartsTyped, RestartsRest
<1>3. CASE RecoverNudges
  <2>1. Asks /\ nudging' \subseteq {"stop", "start", "audio"} /\ UNCHANGED <<stream, sound>>
    BY <1>3, NudgeAsks DEF RecoverNudges, Typed
  <2>2. UNCHANGED <<session, timer, healthIn, streamDue, asking, viewer, listener, restarted, on,
                    left>>
    BY <1>3 DEF RecoverNudges
  <2>3. sound' \in BOOLEAN /\ asking' \in BOOLEAN /\ streamDue' \in BOOLEAN
    BY <2>1, <2>2, Zenon DEF Typed, Switches
  <2>4. stream' \in {"off", "warming", "on", "stuck", "dead"}
    BY <2>1 DEF Typed, Steps
  <2> QED BY <1>1, <2>1, <2>2, <2>3, <2>4, AsksTyped
<1>4. CASE HandlerRequests \/ RecoverRequests
  <2>1. RequestStreams(FALSE)
    BY <1>4, Zenon DEF HandlerRequests, RecoverRequests
  <2>2. UNCHANGED <<session, timer, healthIn, streamDue, asking, nudging, viewer, listener,
                    restarted, on, left>>
    BY <1>4 DEF HandlerRequests, RecoverRequests
  <2>3. Asks /\ sound' \in BOOLEAN /\ stream' \in {"off", "warming", "on", "stuck", "dead"}
    BY <2>1, RequestAsks, Zenon DEF Typed
  <2>4. asking' \in BOOLEAN /\ streamDue' \in BOOLEAN
    BY <2>2, Zenon DEF Typed, Switches
  <2>5. nudging' \subseteq {"stop", "start", "audio"}
    BY <2>2 DEF Typed, Steps
  <2> QED BY <1>1, <2>2, <2>3, <2>4, <2>5, AsksTyped
<1> QED BY <1>2, <1>3, <1>4

-----------------------------------------------------------------------------
(* Time.                                                                     *)

LEMMA TickTyped == ASSUME Typed, Tick PROVE Typed'
<1>1. \A c \in Clocks : age'[c] = (IF Comes(c) THEN 0 ELSE Older(c))
  BY DEF Tick
<1>2. ClocksOK'
  BY CapType DEF Tick, Typed, ClocksOK, Never, Older, Happened
<1>3. UNCHANGED <<session, asking, nudging, joining, viewer, listener, restarted, on, stream,
                  sound, left>>
  BY DEF Tick
<1>4. \A c \in {"start", "connect"} : age'[c] = Never <=> age[c] = Never
  <2> SUFFICES ASSUME NEW c \in {"start", "connect"} PROVE age'[c] = Never <=> age[c] = Never
    OBVIOUS
  <2>1. c \in Clocks /\ ~Comes(c)
    BY DEF Clocks, Comes
  <2>2. age'[c] = Older(c)
    BY <1>1, <2>1
  <2> QED BY <2>1, <2>2, AgeIsTime DEF Older, Happened, Never, Typed
<1>5. Phased'
  BY <1>3, <1>4 DEF Typed, Phased
<1>6. streamDue' \in BOOLEAN
  BY DEF Tick
<1>7. Switches'
  BY <1>3, <1>6, Zenon DEF Typed, Switches
<1>8. timer' \in NotSet .. RestartDelay
  <2>1. PICK t : t = timer
    OBVIOUS
  <2>2. timer' = IF t = NotSet THEN NotSet ELSE t - 1
    BY <2>1 DEF Tick
  <2>3. t \in NotSet .. RestartDelay
    BY <2>1 DEF Typed, Steps
  <2> QED BY <2>2, <2>3, Windows DEF NotSet
<1>9. healthIn' \in 0 .. HealthPeriod
  <2>1. PICK h : h = healthIn
    OBVIOUS
  <2>2. healthIn' = IF h = 0 THEN 0 ELSE h - 1
    BY <2>1 DEF Tick
  <2>3. h \in 0 .. HealthPeriod
    BY <2>1 DEF Typed, Steps
  <2> QED BY <2>2, <2>3, Windows
<1>10. Steps'
  BY <1>3, <1>8, <1>9 DEF Typed, Steps
<1> QED BY <1>2, <1>5, <1>7, <1>10 DEF Typed

\* A clock after a tick in which nothing came.
LEMMA Grown ==
  ASSUME Typed, Tick, NEW c \in Clocks, ~Comes(c)
  PROVE  /\ age[c] \in Int /\ age'[c] \in Int /\ Cap(c) \in Nat
         /\ Happened(c)' <=> Happened(c)
         /\ ~Happened(c) => age'[c] = Never /\ age[c] = Never
         /\ Happened(c) => /\ 0 <= age[c] /\ age[c] <= Cap(c)
                           /\ age'[c] = (IF age[c] < Cap(c) THEN age[c] + 1 ELSE age[c])
<1>1. age'[c] = Older(c)
  BY DEF Tick
<1>2. age[c] \in Int /\ Cap(c) \in Nat /\ age[c] <= Cap(c) /\ (Happened(c) => 0 <= age[c])
  BY AgeIsTime DEF Typed
<1>3. ~Happened(c) => age[c] = Never
  BY DEF Happened
<1> QED BY <1>1, <1>2, <1>3 DEF Older, Happened, Never

LEMMA TickStep == ASSUME Typed, Rest, Tick PROVE Typed' /\ Rest'
<1>1. UNCHANGED <<session, viewer, on, stream, sound>> /\ streamDue' = (session # "none")
  BY DEF Tick
<1>2. \A c \in {"power", "connect", "restart", "viewing"} : c \in Clocks /\ ~Comes(c)
  BY DEF Clocks, Comes
<1>3. \A c \in {"traffic", "video", "audio"} : c \in Clocks /\ (Comes(c) => age'[c] = 0)
  BY DEF Tick, Clocks
<1>4. Silent'
  <2> SUFFICES ASSUME ~on, NEW c \in {"traffic", "video", "audio"}, Happened(c)'
               PROVE  age'["power"] <= age'[c]
    BY <1>1 DEF Silent
  <2>1. c \in Clocks /\ ~Comes(c)
    BY <1>3 DEF Comes, Heard
  <2>2. Happened(c) /\ age["power"] <= age[c]
    BY <2>1, Grown DEF Rest, Silent
  <2>3. Cap("power") <= Cap(c)
    BY Windows, Caps
  <2>4. Happened("power") \/ ~Happened("power")
    OBVIOUS
  <2> QED BY <1>2, <2>1, <2>2, <2>3, Grown DEF Never
<1>5. Linked'
  <2> SUFFICES ASSUME Connected
               PROVE  /\ Happened("traffic")'
                      /\ Happened("restart")' =>
                           Cooldown <= age'["restart"] \/ age'["connect"] <= age'["restart"]
    BY <1>1 DEF Linked, Connected
  <2>1. Happened("traffic")'
    <3>1. CASE Comes("traffic")
      BY <1>3, <3>1 DEF Happened, Never
    <3>2. CASE ~Comes("traffic")
      BY <1>3, <3>2, Grown DEF Rest, Linked
    <3> QED BY <3>1, <3>2
  <2>2. ASSUME Happened("restart")'
        PROVE  Cooldown <= age'["restart"] \/ age'["connect"] <= age'["restart"]
    <3>1. Happened("restart") /\ (Cooldown <= age["restart"] \/ age["connect"] <= age["restart"])
      BY <1>2, <2>2, Grown DEF Rest, Linked
    <3>2. Cap("restart") = Cooldown
      BY Caps
    <3> QED BY <1>2, <3>1, <3>2, Windows, Grown DEF Never
  <2> QED BY <2>1, <2>2
<1>6. FramesAreTraffic'
  <2> SUFFICES ASSUME Happened("video")', age'["video"] <= StaleTraffic
               PROVE  Happened("traffic")' /\ age'["traffic"] <= age'["video"]
    BY DEF FramesAreTraffic
  <2>1. CASE Comes("video")
    <3>1. Comes("traffic")
      BY <2>1 DEF Comes
    <3> QED BY <1>3, <2>1, <3>1 DEF Happened, Never
  <2>2. CASE ~Comes("video")
    <3>1. Happened("video") /\ age["video"] <= StaleTraffic /\ age'["video"] = age["video"] + 1
          /\ age["video"] \in Int /\ 0 <= age["video"]
      BY <1>3, <2>2, Windows, Caps, Grown
    <3>2. Happened("traffic") /\ age["traffic"] <= age["video"]
      BY <3>1 DEF Rest, FramesAreTraffic
    <3>3. CASE Comes("traffic")
      BY <1>3, <3>1, <3>3 DEF Happened, Never
    <3>4. CASE ~Comes("traffic")
      BY <1>3, <3>1, <3>2, <3>4, Grown
    <3> QED BY <3>3, <3>4
  <2> QED BY <2>1, <2>2
<1>7. NotDead'
  BY <1>1 DEF NotDead, Connected
<1>8. DeadIsReplaced'
  <2> SUFFICES ASSUME Connected, viewer, 2 <= age'["viewing"], MediaRestart + 2 <= age'["connect"]
               PROVE  Happened("video")' /\ age'["video"] <= MediaRestart + 1
    BY <1>1 DEF DeadIsReplaced, Connected
  <2>1. 1 <= age["viewing"] /\ MediaRestart < age["connect"]
    BY <1>2, Windows, Grown DEF Never
  <2>2. ~streamDue
    BY Zenon DEF Tick, Urgent, Connected
  <2>3. Happened("video") /\ age["video"] <= MediaRestart
    BY <2>1, <2>2 DEF Rest, NotDead
  <2>4. CASE Comes("video")
    BY <1>3, <2>4, Windows DEF Happened, Never
  <2>5. CASE ~Comes("video")
    BY <1>3, <2>3, <2>5, Windows, Grown
  <2> QED BY <2>4, <2>5
<1> QED BY <1>4, <1>5, <1>6, <1>7, <1>8, TickTyped DEF Rest

-----------------------------------------------------------------------------
(* The theorems.                                                             *)

LEMMA Step == IInv /\ [Next]_vars => IInv'
<1> SUFFICES ASSUME Typed, Rest, [Next]_vars PROVE Typed' /\ Rest'
  BY TypeParts, PTL DEF IInv, Typed
<1>1. CASE Camera
  BY <1>1, SendsFrameStep, StallsStep, SwitchedStep DEF Camera
<1>2. CASE Runtime
  BY <1>2, TimerFiresStep, OnConnectedStep, SendsStep, StreamStep, HealthStep DEF Runtime
<1>3. CASE Handler
  BY <1>3, ServesStep, LeavesStep, HandlerStep DEF Handler
<1>4. CASE Tick
  BY <1>4, TickStep
<1>5. CASE UNCHANGED vars
  <2>1. ClocksOK' /\ Phased' /\ Steps'
    BY <1>5 DEF vars, Typed, ClocksOK, Phased, Steps
  <2>2. Switches'
    BY <1>5, Zenon DEF vars, Typed, Switches
  <2>3. Rest'
    BY <1>5, QuietRest DEF vars
  <2> QED BY <2>1, <2>2, <2>3 DEF Typed
<1> QED BY <1>1, <1>2, <1>3, <1>4, <1>5 DEF Next

\* Types, and the relations between the clocks, hold in every state.
THEOREM Invariant == Spec => []IInv
<1>1. Init => IInv
  BY InitTyped, InitRest, TypeParts DEF IInv
<1> QED BY <1>1, Step, PTL DEF Spec

\* Whatever the windows, the state of a camera that has not been reachable for longer
\* than the window of traffic is not online: healthLocked relies on what the camera
\* has sent, all of it from before.
THEOREM TypesAndOffline == Spec => []Inv
<1>1. ASSUME IInv PROVE Inv
  <2> SUFFICES ASSUME ~on, age["power"] > OnlineTraffic, HealthState = "online" PROVE FALSE
    BY <1>1 DEF IInv, Inv, OffIsNotOnline
  <2>1. ClocksOK
    BY <1>1, TypeParts DEF IInv
  <2>2. \A c \in {"traffic", "video"} :
          age[c] \in Int /\ (Happened(c) => OnlineTraffic < age[c])
    <3> SUFFICES ASSUME NEW c \in {"traffic", "video"}
                 PROVE  age[c] \in Int /\ (Happened(c) => OnlineTraffic < age[c])
      OBVIOUS
    <3>1. age[c] \in Int /\ age["power"] \in Int
      BY <2>1, AgeIsTime DEF Clocks
    <3>2. Happened(c) => age["power"] <= age[c]
      BY <1>1 DEF IInv, Rest, Silent
    <3> QED BY <3>1, <3>2, Windows
  <2>3. Connected
    BY DEF HealthState
  <2>4. ~TrafficFresh
    BY <1>1, <2>2, <2>3, Windows DEF IInv, Rest, Linked, TrafficFresh
  <2>5. ~VideoFresh
    BY <2>2, Windows DEF VideoFresh
  <2> QED BY <2>3, <2>4, <2>5 DEF HealthState
<1> QED BY <1>1, Invariant, PTL

\* A viewer waits for the replacement of a dead session no longer than the window and
\* the tick that finds it, whatever restarts came before: throttled or not.
THEOREM DeadSessionsGo == Spec => []DeadIsReplaced
BY Invariant, PTL DEF IInv, Rest

\* No step of any loop or handler restarts or nudges a session whose video flows to a
\* viewer.
THEOREM FlowSafe == Spec => FlowIsKept
<1>1. ASSUME IInv, [Next]_vars, viewer, VideoFresh, stream = "on", Heard
      PROVE  session' # "none" /\ (nudging = {} => nudging' = {})
  <2>1. Connected /\ HasVideo
    BY <1>1 DEF Heard, HasVideo
  <2>2. /\ age["video"] \in Int /\ age["traffic"] \in Int
        /\ age["video"] <= VideoStale /\ Happened("video")
    BY <1>1, TypeParts, AgeIsTime DEF IInv, Clocks, VideoFresh
  <2>3. age["traffic"] <= age["video"]
    BY <1>1, <2>2, Windows DEF IInv, Rest, FramesAreTraffic
  <2>4. ~DeadVideo /\ ~DeadAudio /\ ~StaleVideo
    BY <2>1, <2>2, Windows DEF DeadVideo, DeadAudio, Dead, StaleVideo, NoFrame, Over
  <2>5. ~TooLate
    BY <2>1, <2>2, <2>3, Windows DEF TooLate, Connected, Over
  <2>6. ~Waited(VideoStale) /\ ~Waited(MediaRestart)
    BY <2>1, <2>2, Windows DEF Waited, NoFrame
  <2>7. session # "none"
    BY <2>1 DEF Connected
  <2>8. CASE Camera
    BY <2>7, <2>8 DEF Camera, SendsFrame, Stalls, SwitchedOff, SwitchedOn
  <2>9. CASE Runtime
    <3>1. ~StreamRestarts
      BY <2>4 DEF StreamRestarts
    <3>2. ASSUME HealthTick PROVE UNCHANGED <<session, nudging>>
      BY <2>5, <3>2 DEF HealthTick
    <3>3. ASSUME StreamActs PROVE UNCHANGED <<session, nudging>>
      BY <2>1, <2>4, <3>3, Zenon DEF StreamActs
    <3>4. ASSUME TimerFires \/ OnConnected PROVE session' # "none" /\ UNCHANGED nudging
      BY <2>7, <3>4 DEF TimerFires, OnConnected
    <3>5. ASSUME AskStreams \/ StreamIdles PROVE UNCHANGED <<session, nudging>>
      BY <3>5 DEF AskStreams, StreamIdles
    <3>6. ASSUME NudgeStops \/ NudgeStarts \/ NudgeAsksAudio
          PROVE  UNCHANGED session /\ nudging # {}
      BY <3>6 DEF NudgeStops, NudgeStarts, NudgeAsksAudio
    <3> QED BY <2>7, <2>9, <3>1, <3>2, <3>3, <3>4, <3>5, <3>6 DEF Runtime
  <2>10. CASE Handler
    <3>1. ~RecoverRestarts /\ ~RecoverNudges
      BY <2>6 DEF RecoverRestarts, RecoverNudges
    <3>2. ASSUME HandlerRequests \/ RecoverRequests \/ Leaves PROVE UNCHANGED <<session, nudging>>
      BY <3>2 DEF HandlerRequests, RecoverRequests, Leaves
    <3>3. ASSUME ServeVideo \/ ServeAudio \/ ServeSnapshot PROVE UNCHANGED <<session, nudging>>
      BY <2>7, <3>3 DEF ServeVideo, ServeAudio, ServeSnapshot, Enters
    <3> QED BY <2>7, <2>10, <3>1, <3>2, <3>3 DEF Handler
  <2>11. CASE Tick
    BY <2>7, <2>11 DEF Tick
  <2>12. CASE UNCHANGED vars
    BY <2>7, <2>12 DEF vars
  <2> QED BY <1>1, <2>8, <2>9, <2>10, <2>11, <2>12 DEF Next
<1>2. IInv /\ [Next]_vars => [viewer /\ VideoFresh /\ stream = "on" /\ Heard =>
        session' # "none" /\ (nudging = {} => nudging' = {})]_vars
  BY <1>1
<1> QED BY <1>2, Invariant, PTL DEF Spec, FlowIsKept
=============================================================================
