------------------------------ MODULE Watchdog ------------------------------
(***************************************************************************)
(* The clocks of a CameraRuntime in bkcam-go/main.go: streamLoop,          *)
(* healthLoop, nudgeStreams, requestStreams, requestAudioOnly, restart,    *)
(* recoverVideoForClient, ServeSnapshot and healthLocked, with a camera    *)
(* that may be switched off or stop streaming.                             *)
(*                                                                         *)
(* Time passes in steps of Tick.  All that code does in less than such a   *)
(* step (a tick of streamLoop, the 200 ms until streams are requested, the *)
(* 180 ms inside a nudge) is done before the next one.                     *)
(***************************************************************************)
EXTENDS Integers

CONSTANTS
  AudioStale, Cooldown, VideoStale, NudgeCooldown, SnapshotDemand, OnlineTraffic,
  MediaRestart, ConnectTimeout, VideoRefresh, StaleTraffic, TrafficRestart,
               \* the windows of main.go:56-67, 2864, 2886
  RequestWindow, RestartDelay, HealthPeriod,
  Reconnect,   \* a camera that is on connects within this time of Start
  FirstFrame,  \* and sends its first frame within this time of a request
  Bounds       \* how often it may be switched or cut off, how often it may stop to
               \* stream, and how many listeners and forced snapshots may come

ASSUME WindowsAssumption ==
  /\ {AudioStale, Cooldown, VideoStale, NudgeCooldown, SnapshotDemand, OnlineTraffic, MediaRestart,
      ConnectTimeout, VideoRefresh, StaleTraffic, TrafficRestart, RequestWindow, RestartDelay,
      HealthPeriod, Reconnect, FirstFrame} \subseteq Nat
  /\ 0 < RequestWindow /\ RequestWindow <= AudioStale /\ AudioStale < VideoStale
  /\ RestartDelay < Cooldown /\ Cooldown <= VideoStale /\ VideoStale <= NudgeCooldown
  /\ NudgeCooldown <= SnapshotDemand /\ SnapshotDemand < OnlineTraffic
  /\ VideoStale < OnlineTraffic /\ OnlineTraffic < MediaRestart
  /\ MediaRestart < ConnectTimeout /\ ConnectTimeout < VideoRefresh
  /\ VideoRefresh < StaleTraffic /\ StaleTraffic < TrafficRestart

Budgets == [{"off", "stall", "audio", "snapshot"} -> Nat]

ASSUME BoundsAssumption == Bounds \subseteq Budgets

VARIABLES
  session,   \* rt.pppp: none, not yet connected, or connected
  age,       \* how long ago: see Clocks
  timer,     \* time until the Start of restart, NotSet if none
  healthIn,  \* time until the next tick of healthLoop
  streamDue, \* a tick of streamLoop is due
  asking,    \* requestStreams(true) of OnConnected is due
  nudging,   \* the commands that the goroutine of nudgeStreams has still to send
  joining,   \* a handler that has entered: what it does next
  viewer,    \* len(rt.videoClients) > 0
  listener,  \* len(rt.audioClients) > 0
  restarted, \* rt.restartCount > 0
  on,        \* external: packets reach the camera and come from it
  stream,    \* external: what the camera does with its video
  sound,     \* external: does it send audio?
  left       \* what may still happen, for the bound

vars == <<session, age, timer, healthIn, streamDue, asking, nudging, joining, viewer,
          listener, restarted, on, stream, sound, left>>

\* start .. restart: fields of the runtime.  power, request, viewing: since on
\* changed, the camera was asked for video, there has been a viewer.
Clocks == {"start", "connect", "traffic", "video", "audio", "videoRequest", "audioRequest",
           "nudge", "snapshot", "restart", "power", "request", "viewing"}

Never == -1
NotSet == -1

\* An age beyond this is as good as any later one.
Cap(c) ==
  CASE c = "start" -> ConnectTimeout + 1
    [] c = "connect" -> MediaRestart + 2
    [] c = "traffic" -> TrafficRestart + 1
    [] c = "video" -> StaleTraffic + 1
    [] c = "audio" -> StaleTraffic + 1
    [] c = "videoRequest" -> VideoRefresh
    [] c = "audioRequest" -> RequestWindow
    [] c = "nudge" -> NudgeCooldown
    [] c = "snapshot" -> SnapshotDemand
    [] c = "restart" -> Cooldown
    [] c = "power" -> OnlineTraffic + 1
    [] c = "request" -> FirstFrame
    [] c = "viewing" -> 2

\* Clocks stay within their bounds; startedAt and connectedAt are set exactly while
\* there is a session, and while it has a peer.
TypeOK ==
  /\ session \in {"none", "starting", "connected"}
  /\ age \in [Clocks -> Int] /\ \A c \in Clocks : age[c] \in Never .. Cap(c)
  /\ timer \in NotSet .. RestartDelay
  /\ healthIn \in 0 .. HealthPeriod
  /\ nudging \subseteq {"stop", "start", "audio"}
  /\ joining \in {"no", "snapshot", "request", "recover"}
  /\ {streamDue, asking, viewer, listener, restarted, on, sound} \subseteq BOOLEAN
  /\ stream \in {"off", "warming", "on", "stuck", "dead"}
  /\ left \in Budgets
  /\ (session = "none") = (age["start"] = Never)
  /\ (session = "connected") = (age["connect"] # Never)

Happened(c) == age[c] # Never
Within(c, window) == Happened(c) /\ age[c] < window
Over(c, window) == Happened(c) /\ age[c] > window

Event(kind) == left[kind] > 0 /\ left' = [left EXCEPT ![kind] = @ - 1]

Connected == session = "connected"

Init ==
  /\ session = "starting"
  /\ age = [c \in Clocks |-> IF c \in {"start", "power"} THEN 0 ELSE Never]
  /\ timer = NotSet /\ healthIn = HealthPeriod
  /\ streamDue = FALSE /\ asking = FALSE /\ nudging = {} /\ joining = "no"
  /\ viewer = FALSE /\ listener = FALSE /\ restarted = FALSE
  /\ on \in BOOLEAN /\ stream = "off" /\ sound = FALSE
  /\ left \in Bounds

-----------------------------------------------------------------------------
(* The camera, and the commands it gets.                                     *)

\* A camera that has been switched off and on does not know the session.
Heard == on /\ Connected /\ stream # "dead"

\* Of the commands in cmds, sent one after the other, with the times in stamps
\* set to now.  A camera that streams, or is stuck, goes on; it may have no sound.
Ask(video, audio, stamps) ==
  LET starts == video /\ Heard /\ stream = "off" IN
  /\ stream' = IF starts THEN "warming" ELSE stream
  /\ sound' \in {sound, sound \/ (audio /\ Heard)}
  /\ age' = [c \in Clocks |-> IF c \in stamps \/ (c = "request" /\ starts) THEN 0 ELSE age[c]]

SendsFrame ==
  /\ Heard /\ stream = "warming"
  /\ stream' = "on"
  /\ age' = [age EXCEPT !["video"] = 0, !["traffic"] = 0]
  /\ UNCHANGED <<session, timer, healthIn, streamDue, asking, nudging, joining, viewer,
                 listener, restarted, on, sound, left>>

\* It gets stuck, or its sound does.
Stalls ==
  /\ Event("stall")
  /\ \/ stream \in {"warming", "on"} /\ stream' = "stuck" /\ UNCHANGED sound
     \/ sound /\ sound' = FALSE /\ UNCHANGED stream
  /\ UNCHANGED <<session, age, timer, healthIn, streamDue, asking, nudging, joining, viewer,
                 listener, restarted, on>>

SwitchedOff ==
  /\ on /\ Event("off")
  /\ on' = FALSE
  /\ age' = [age EXCEPT !["power"] = 0]
  /\ UNCHANGED <<session, timer, healthIn, streamDue, asking, nudging, joining, viewer,
                 listener, restarted, stream, sound>>

\* The network is back, or the camera has booted.
SwitchedOn ==
  /\ ~on /\ on' = TRUE
  /\ age' = [age EXCEPT !["power"] = 0]
  /\ stream' \in {stream, "dead"}
  /\ UNCHANGED <<session, timer, healthIn, streamDue, asking, nudging, joining, viewer,
                 listener, restarted, sound, left>>

-----------------------------------------------------------------------------
(* Start, OnConnected, restart.                                              *)

Starts ==
  /\ session' = "starting"
  /\ healthIn' = HealthPeriod /\ streamDue' = FALSE

TimerFires ==
  /\ timer = 0
  /\ timer' = NotSet
  /\ IF session = "none"
     THEN Starts /\ age' = [age EXCEPT !["start"] = 0]
     ELSE UNCHANGED <<session, healthIn, streamDue, age>>
  /\ UNCHANGED <<asking, nudging, joining, viewer, listener, restarted, on, stream, sound,
                 left>>

OnConnected ==
  /\ session = "starting" /\ on
  /\ session' = "connected"
  /\ age' = [age EXCEPT !["connect"] = 0, !["traffic"] = 0]
  /\ asking' = TRUE
  /\ stream' = "off" /\ sound' = FALSE
  /\ UNCHANGED <<timer, healthIn, streamDue, nudging, joining, viewer, listener, restarted,
                 on, left>>

Throttled == Within("restart", Cooldown)

BugRestartForGood ==
  /\ session' = "none"
  /\ age' = [age EXCEPT !["start"] = Never, !["connect"] = Never, !["restart"] = 0]
  /\ restarted' = TRUE
  /\ asking' = FALSE /\ nudging' = {}
  /\ UNCHANGED timer

\* restart, if not throttled.  What a nudge or OnConnected has yet to send goes to
\* a closed session.
Restart ==
  /\ session' = "none"
  /\ timer' = RestartDelay
  /\ age' = [age EXCEPT !["start"] = Never, !["connect"] = Never, !["restart"] = 0]
  /\ restarted' = TRUE
  /\ asking' = FALSE /\ nudging' = {}

-----------------------------------------------------------------------------
(* requestStreams, requestAudioOnly, nudgeStreams.                           *)

NoFrame == ~Happened("video")     \* also: rt.latestFrame is empty
SnapshotWanted == Within("snapshot", SnapshotDemand)

\* A request leaves its time even when there is no session to send it to.
RequestStreams(force) ==
  LET wanted == force \/ viewer \/ NoFrame \/ SnapshotWanted
      video == wanted /\ (force \/ ~Within("videoRequest", RequestWindow))
      audio == listener /\ (force \/ ~Within("audioRequest", RequestWindow))
  IN Ask(video, audio, (IF video THEN {"videoRequest"} ELSE {}) \cup
                       (IF audio THEN {"audioRequest"} ELSE {}))

RequestAudioOnly ==
  LET audio == listener /\ ~Within("audioRequest", RequestWindow)
  IN Ask(FALSE, audio, IF audio THEN {"audioRequest"} ELSE {})

MayNudge == Connected /\ ~Within("nudge", NudgeCooldown)

\* Whether it asks for sound is settled before it begins.
Nudge ==
  /\ nudging' = {"stop", "start"} \cup (IF listener THEN {"audio"} ELSE {})
  /\ age' = [age EXCEPT !["nudge"] = 0, !["videoRequest"] = 0,
                        !["audioRequest"] = IF listener THEN 0 ELSE @]
  /\ UNCHANGED <<stream, sound>>

\* video 0 may or may not free a camera that is stuck.
NudgeStops ==
  /\ "stop" \in nudging
  /\ nudging' = nudging \ {"stop"}
  /\ IF ~Heard THEN UNCHANGED stream
     ELSE IF stream = "stuck" THEN stream' \in {"off", "stuck"}
     ELSE stream' = "off"
  /\ UNCHANGED <<session, age, timer, healthIn, streamDue, asking, joining, viewer, listener,
                 restarted, on, sound, left>>

NudgeStarts ==
  /\ "start" \in nudging /\ "stop" \notin nudging
  /\ nudging' = nudging \ {"start"}
  /\ Ask(TRUE, FALSE, {})
  /\ UNCHANGED <<session, timer, healthIn, streamDue, asking, joining, viewer, listener,
                 restarted, on, left>>

NudgeAsksAudio ==
  /\ nudging = {"audio"} /\ nudging' = {}
  /\ Ask(FALSE, TRUE, {})
  /\ UNCHANGED <<session, timer, healthIn, streamDue, asking, joining, viewer, listener,
                 restarted, on, left>>

\* 200 ms after OnConnected.
AskStreams ==
  /\ asking /\ asking' = FALSE
  /\ RequestStreams(TRUE)
  /\ UNCHANGED <<session, timer, healthIn, streamDue, nudging, joining, viewer, listener,
                 restarted, on, left>>

-----------------------------------------------------------------------------
(* streamLoop and healthLoop.                                                *)

HasVideo == viewer \/ SnapshotWanted \/ NoFrame

StaleVideo == HasVideo /\ (NoFrame \/ Over("video", VideoStale))
StaleAudio == listener /\ (~Happened("audio") \/ Over("audio", AudioStale))
Refresh == HasVideo /\ ~StaleVideo /\ ~Within("videoRequest", VideoRefresh)

BugDead(c) == Over(c, MediaRestart)

Dead(c) ==
  IF Happened(c) THEN age[c] > MediaRestart ELSE age["connect"] > MediaRestart

BugDeadAudio == listener /\ Connected /\ Dead("audio")

DeadVideo == HasVideo /\ Connected /\ Dead("video")
DeadAudio == listener /\ Connected /\ ~HasVideo /\ Dead("audio")

StreamTick == streamDue /\ streamDue' = FALSE

StreamRestarts ==
  /\ StreamTick /\ (DeadVideo \/ DeadAudio) /\ ~Throttled
  /\ Restart
  /\ UNCHANGED <<healthIn, joining, viewer, listener, on, stream, sound, left>>

\* Nothing to do, no session yet, or a restart that is throttled.
StreamIdles ==
  /\ StreamTick
  /\ \/ ~Connected
     \/ (DeadVideo \/ DeadAudio) /\ Throttled
     \/ ~StaleVideo /\ ~Refresh /\ ~StaleAudio
  /\ UNCHANGED <<session, age, timer, healthIn, asking, nudging, joining, viewer, listener,
                 restarted, on, stream, sound, left>>

StreamActs ==
  /\ StreamTick /\ Connected /\ ~DeadVideo /\ ~DeadAudio
  /\ \/ /\ StaleVideo \/ (~Refresh /\ StaleAudio /\ ~HasVideo)
        /\ IF MayNudge THEN Nudge ELSE RequestStreams(FALSE) /\ UNCHANGED nudging
     \/ Refresh /\ RequestStreams(FALSE) /\ UNCHANGED nudging
     \/ /\ ~StaleVideo /\ ~Refresh /\ StaleAudio /\ HasVideo
        /\ RequestAudioOnly /\ UNCHANGED nudging
  /\ UNCHANGED <<session, timer, healthIn, asking, joining, viewer, listener, restarted, on,
                 left>>

TooLate ==
  \/ session = "starting" /\ age["start"] > ConnectTimeout
  \/ Connected /\ Over("traffic", TrafficRestart)

HealthTick ==
  /\ session # "none" /\ healthIn = 0
  /\ healthIn' = HealthPeriod
  /\ IF TooLate /\ ~Throttled THEN Restart
     ELSE UNCHANGED <<session, age, timer, restarted, asking, nudging>>
  /\ UNCHANGED <<streamDue, joining, viewer, listener, on, stream, sound, left>>

-----------------------------------------------------------------------------
(* healthLocked.                                                             *)

VideoDemand == viewer \/ SnapshotWanted

VideoFresh == Happened("video") /\ age["video"] <= VideoStale

BugTrafficFresh == age["traffic"] <= StaleTraffic

TrafficFresh == age["traffic"] <= OnlineTraffic

\* The state that Status reports; "online" is also its "connected".
HealthState ==
  IF ~Connected THEN
    IF session = "starting" /\ ~restarted /\ age["start"] <= ConnectTimeout THEN "connecting"
    ELSE IF Happened("video") /\ age["video"] <= StaleTraffic THEN "stale"
    ELSE "offline"
  ELSE IF age["traffic"] > StaleTraffic THEN "offline"
  ELSE IF VideoDemand /\ ~VideoFresh THEN
    IF Happened("video") THEN (IF age["video"] > StaleTraffic THEN "offline" ELSE "stale")
    ELSE IF age["connect"] <= MediaRestart THEN "connecting" ELSE "stale"
  ELSE IF StaleAudio THEN
    IF VideoDemand THEN "online"
    ELSE IF Happened("audio") THEN (IF age["audio"] > StaleTraffic THEN "offline" ELSE "stale")
    ELSE IF age["connect"] <= MediaRestart THEN "connecting" ELSE "stale"
  ELSE IF TrafficFresh THEN "online" ELSE "stale"

-----------------------------------------------------------------------------
(* Viewers, listeners, snapshots.                                            *)

\* Every handler begins with Start.
Enters(step, stamps) ==
  /\ joining = "no" /\ joining' = step
  /\ age' = [c \in Clocks |->
               IF c \in stamps \/ (c = "start" /\ session = "none") THEN 0 ELSE age[c]]
  /\ IF session = "none" THEN Starts ELSE UNCHANGED <<session, healthIn, streamDue>>
  /\ UNCHANGED <<timer, asking, nudging, restarted, on, stream, sound>>

ServeVideo == ~viewer /\ viewer' = TRUE /\ Enters("recover", {"viewing"})
              /\ UNCHANGED <<listener, left>>

ServeAudio ==
  /\ Event("audio") /\ ~listener /\ listener' = TRUE
  /\ Enters("request", {}) /\ UNCHANGED viewer

\* One that is forced; the others change nothing.
ServeSnapshot ==
  /\ Event("snapshot") /\ ~SnapshotWanted
  /\ Enters("snapshot", {"snapshot"}) /\ UNCHANGED <<viewer, listener>>

Leaves ==
  /\ joining = "no"
  /\ \/ viewer /\ viewer' = FALSE /\ age' = [age EXCEPT !["viewing"] = Never]
        /\ UNCHANGED listener
     \/ listener /\ listener' = FALSE /\ UNCHANGED <<viewer, age>>
  /\ UNCHANGED <<session, timer, healthIn, streamDue, asking, nudging, joining, restarted, on,
                 stream, sound, left>>

\* requestStreams(false) of ServeAudio, and of a snapshot, which goes on when there
\* is no fresh frame.
HandlerRequests ==
  /\ \/ joining = "request" /\ joining' = "no"
     \/ /\ joining = "snapshot"
        /\ joining' = IF VideoFresh /\ HealthState # "offline" THEN "no" ELSE "recover"
  /\ RequestStreams(FALSE)
  /\ UNCHANGED <<session, timer, healthIn, streamDue, asking, nudging, viewer, listener,
                 restarted, on, left>>

\* recoverVideoForClient.
Waited(window) ==
  Connected /\ IF NoFrame THEN age["connect"] > window ELSE age["video"] > window

Recovers == joining = "recover" /\ joining' = "no"

RecoverRestarts ==
  /\ Recovers /\ Waited(MediaRestart) /\ ~Throttled
  /\ Restart
  /\ UNCHANGED <<healthIn, streamDue, viewer, listener, on, stream, sound, left>>

RecoverNudges ==
  /\ Recovers /\ Waited(VideoStale) /\ ~Waited(MediaRestart) /\ MayNudge
  /\ Nudge
  /\ UNCHANGED <<session, timer, healthIn, streamDue, asking, viewer, listener, restarted, on,
                 left>>

RecoverRequests ==
  /\ Recovers
  /\ \/ ~Waited(VideoStale)
     \/ Waited(MediaRestart) /\ Throttled
     \/ ~Waited(MediaRestart) /\ ~MayNudge
  /\ RequestStreams(FALSE)
  /\ UNCHANGED <<session, timer, healthIn, streamDue, asking, nudging, viewer, listener,
                 restarted, on, left>>

-----------------------------------------------------------------------------
(* Time.                                                                     *)

\* What the gateway has to do now, and what a good camera does in time.
Urgent ==
  \/ (streamDue /\ session # "none") \/ (healthIn = 0 /\ session # "none")
  \/ timer = 0 \/ asking \/ nudging # {} \/ joining # "no"
  \/ (session = "starting" /\ on /\ age["start"] >= Reconnect /\ age["power"] >= Reconnect)
  \/ (Heard /\ stream = "warming" /\ age["request"] >= FirstFrame)

Older(c) == IF Happened(c) /\ age[c] < Cap(c) THEN age[c] + 1 ELSE age[c]

\* A camera that streams sends a frame, one that knows the session at least
\* answers SendAlive.
Comes(c) ==
  \/ c = "traffic" /\ Heard
  \/ c = "video" /\ Heard /\ stream = "on"
  \/ c = "audio" /\ Heard /\ sound

Tick ==
  /\ ~Urgent
  /\ age' = [c \in Clocks |-> IF Comes(c) THEN 0 ELSE Older(c)]
  /\ timer' = IF timer = NotSet THEN NotSet ELSE timer - 1
  /\ healthIn' = IF healthIn = 0 THEN 0 ELSE healthIn - 1
  /\ streamDue' = (session # "none")
  /\ UNCHANGED <<session, asking, nudging, joining, viewer, listener, restarted, on, stream,
                 sound, left>>

-----------------------------------------------------------------------------
Camera == SendsFrame \/ Stalls \/ SwitchedOff \/ SwitchedOn

Runtime ==
  \/ TimerFires \/ OnConnected \/ AskStreams
  \/ NudgeStops \/ NudgeStarts \/ NudgeAsksAudio
  \/ StreamRestarts \/ StreamIdles \/ StreamActs \/ HealthTick

Handler ==
  \/ ServeVideo \/ ServeAudio \/ ServeSnapshot \/ Leaves
  \/ HandlerRequests \/ RecoverRestarts \/ RecoverNudges \/ RecoverRequests

Next == Camera \/ Runtime \/ Handler \/ Tick

Spec == Init /\ [][Next]_vars

\* Goroutines and timers run, time passes, and a camera that is on connects and
\* sends its first frame in time.
Fairness ==
  /\ WF_vars(Runtime) /\ WF_vars(SendsFrame) /\ WF_vars(Tick)
  /\ WF_vars(HandlerRequests \/ RecoverRestarts \/ RecoverNudges \/ RecoverRequests)

FairSpec == Spec /\ Fairness

-----------------------------------------------------------------------------
(* Properties.                                                               *)

\* A camera that cannot be reached does not stay online.
OffIsNotOnline == ~on /\ age["power"] > OnlineTraffic => HealthState # "online"

\* Types, and no session that is online without a camera.
Inv == TypeOK /\ OffIsNotOnline

\* Somebody who watches does not wait longer for a dead session to be replaced than
\* the window and the tick that finds it: no throttle is in the way.
DeadIsReplaced ==
  Connected /\ viewer /\ age["viewing"] >= 2 /\ age["connect"] >= MediaRestart + 2 =>
    Happened("video") /\ age["video"] <= MediaRestart + 1

\* Neither silence on the audio channel nor another handler costs somebody who
\* watches a stream that flows: no restart, and no stream video 0.
FlowIsKept ==
  [][viewer /\ VideoFresh /\ stream = "on" /\ Heard =>
       session' # "none" /\ (nudging = {} => nudging' = {})]_vars

\* With a camera that stays on and somebody who watches, video comes back.
VideoComesBack == <>[](on /\ viewer) => []<>(stream = "on" /\ Heard)
=============================================================================
