---------------------------- MODULE DeviceConfig ----------------------------
(***************************************************************************)
(* The device-config and device-refresh requests of bkcam-go/main.go:      *)
(* ApplyDeviceConfig turns a body into commands and sends them one after   *)
(* the other, the handler then may change the size in the configuration,   *)
(* and streamLoop, beside all that, asks the camera for the video mode     *)
(* that the runtime's copy of the configuration gives.                     *)
(*                                                                         *)
(* Commands and answers may get lost or come late, and an answer belongs   *)
(* to everybody who waits for its command: see CommandCalls.               *)
(***************************************************************************)
EXTENDS Integers, Sequences, SequencesExt

CONSTANTS
  Callers,
  Scenarios,    \* what may be asked, and of what camera over what network
  MaxRequests,  \* bound: how many requests there are
  Absent

\* Video modes; the configuration gives one of the last two.
Off == 0
Vga == 1
Qvga == 2
Sizes == {Vga, Qvga}

Settings == {"video", "audio", "control", "alarm", "system", "push"}

\* Fields of a body.  control stands for the fields of dev_control but the rate,
\* with the image preset; alarm and system for those of set_cyalarm and set_sysparms.
Presets == {"", "stable320", "quality640", "stop", "custom", "bad"}
StreamModes == {"", "qvga", "vga", "stop", "bad"}
AudioModes == {"", "on", "off", "bad"}
Kbps == (50 .. 3200) \cup {Absent}
RateBits == (1 .. 64) \cup {Absent}
Given == {"", "set", "bad"}
Body == [preset : Presets, streamMode : StreamModes, audioStream : AudioModes,
         enableAudioNow : BOOLEAN, bitrateKbps : Kbps, bitrate : RateBits,
         control : Given, alarm : Given, system : Given, disablePushUpload : BOOLEAN]

\* bodies: what clients may post to device-config; sizes: what is configured at first;
\* refused: the values of settings that the camera refuses; lossy: commands and answers may get lost, and sending may
\* fail; late: answers may take longer than a handler waits; readable (a bound):
\* device-refresh is called; watched: somebody watches, so streamLoop asks for video.
ASSUME ScenariosAssumption ==
  \A s \in Scenarios :
    /\ s.bodies \subseteq Body /\ s.refused \subseteq Settings \X Nat /\ s.sizes \subseteq Sizes
    /\ {s.lossy, s.late, s.readable, s.watched} \subseteq BOOLEAN
ASSUME AbsentAssumption == Absent \notin Body
ASSUME BoundAssumption == MaxRequests \in Nat

VARIABLES
  scenario,  \* one of Scenarios, for good
  stage,     \* what a handler does: "idle", "sends", "waits" or "resizes"
  body,      \* what it was asked for, Absent for device-refresh
  todo,      \* the commands it has not sent
  results,   \* of the commands it has sent: the command and OK
  reply,     \* history: status and "ok" of its last response, and if a command timed out
  config,    \* the size in App.config
  entry,     \* of the camera in App.config: "kept", "unsaved" from when the size could not
             \* be saved until the runtime is given a size again, "deleted", or "removed"
             \* if the runtime is gone, too
  profile,   \* the size in rt.cfg
  loop,      \* video modes that streamLoop, or a nudge, has still to send
  camera,    \* the settings of the camera
  flight,    \* commands on their way
  answers,   \* answers on their way
  requests

handler == <<stage, body, todo, results, reply>>
network == <<flight, answers>>
device == <<scenario, handler, config, entry, profile, loop, camera, network, requests>>

Entries == {"kept", "unsaved", "deleted", "removed"}

Messages == {"stream", "dev_control", "set_cyalarm", "set_sysparms", "set_cypush", "bad",
             "get_parms", "get_cyalarm", "get_wifi", "get_sysparms", "get_cloudsupport",
             "get_whiteLight", "get_sound_light_alarm"}
Names == Messages \cup {"preset", "preset.stop", "audio", "loop"}

\* A command sets a setting to a value, or only reads it: then reads is TRUE.
Command == [name : Names, cmd : Messages, setting : Settings, value : 0 .. 64, reads : BOOLEAN]

\* The camera only gets values that its settings have, and a handler that waits has
\* sent a command.
DeviceTypeOK ==
  /\ stage \in [Callers -> {"idle", "sends", "waits", "resizes"}]
  /\ scenario \in Scenarios /\ body \in [Callers -> scenario.bodies \cup {Absent}]
  /\ config \in Sizes /\ profile \in Sizes /\ entry \in Entries
  /\ loop \in Seq(0 .. 2) /\ Len(loop) <= 2
  /\ camera \in [Settings -> 0 .. 64] /\ camera["video"] \in 0 .. 2
  /\ answers \subseteq [cmd : Messages, ok : BOOLEAN]
  /\ requests \in 0 .. MaxRequests
  /\ \A h \in Callers : stage[h] = "waits" => results[h] # <<>>

DeviceInit ==
  /\ scenario \in Scenarios
  /\ stage = [h \in Callers |-> "idle"] /\ body = [h \in Callers |-> Absent]
  /\ todo = [h \in Callers |-> <<>>] /\ results = [h \in Callers |-> <<>>]
  /\ reply = [h \in Callers |-> [status |-> 0, ok |-> FALSE, timeout |-> FALSE]]
  /\ config \in scenario.sizes /\ profile = config
  /\ entry = "kept" /\ loop = <<>>
  /\ camera = [s \in Settings |-> IF s = "video" THEN config ELSE 0]
  /\ flight = {} /\ answers = {} /\ requests = 0

-----------------------------------------------------------------------------
(* What a body asks for.                                                     *)

Sets(name, cmd, setting, value) ==
  [name |-> name, cmd |-> cmd, setting |-> setting, value |-> value, reads |-> FALSE]

\* Stands where ApplyDeviceConfig returns an error.
BadRequest == Sets("bad", "bad", "video", 0)

If(condition, command) == IF condition THEN <<command>> ELSE <<>>

PresetVideo(b) ==
  If(b.preset = "stable320", Sets("preset", "stream", "video", Qvga))
    \o If(b.preset = "quality640", Sets("preset", "stream", "video", Vga))
    \o If(b.preset = "stop", Sets("preset.stop", "stream", "video", Off))
    \o If(b.preset = "bad", BadRequest)

StreamVideo(b) ==
  If(b.streamMode = "stop", Sets("stream", "stream", "video", Off))
    \o If(b.streamMode = "vga", Sets("stream", "stream", "video", Vga))
    \o If(b.streamMode = "qvga", Sets("stream", "stream", "video", Qvga))
    \o If(b.streamMode = "bad", BadRequest)

StreamAudio(b) ==
  If(b.audioStream = "off", Sets("audio", "stream", "audio", 0))
    \o If(b.audioStream = "on", Sets("audio", "stream", "audio", 1))
    \o If(b.audioStream = "bad", BadRequest)
    \o If(b.enableAudioNow, Sets("audio", "stream", "audio", 1))

\* To the nearest, half up.
BitrateKbpsToRateBit(kbps) ==
  LET value == (kbps + 25) \div 50 IN
  IF kbps < 50 \/ value < 1 THEN 1 ELSE IF value > 64 THEN 64 ELSE value

PresetBitrate(b) ==
  CASE b.preset = "stable320" -> 12 [] b.preset = "quality640" -> 26 [] OTHER -> 0

\* 0 if the body does not ask for a rate.
RateBit(b) ==
  IF b.bitrate # Absent THEN b.bitrate
  ELSE IF b.bitrateKbps # Absent THEN BitrateKbpsToRateBit(b.bitrateKbps)
  ELSE PresetBitrate(b)

\* The value stands for the rate, 0 if the command leaves the rate alone.
DevControl(b) ==
  IF b.control = "bad" THEN <<BadRequest>>
  ELSE If(RateBit(b) # 0 \/ b.control = "set",
          Sets("dev_control", "dev_control", "control", RateBit(b)))

Others(b) ==
  If(b.alarm = "bad", BadRequest)
    \o If(b.alarm = "set", Sets("set_cyalarm", "set_cyalarm", "alarm", 1))
    \o If(b.system = "bad", BadRequest)
    \o If(b.system = "set", Sets("set_sysparms", "set_sysparms", "system", 1))
    \o If(b.disablePushUpload, Sets("set_cypush", "set_cypush", "push", 1))

BugCommands(b) ==
  StreamVideo(b) \o PresetVideo(b) \o StreamAudio(b) \o DevControl(b) \o Others(b)

\* ApplyDeviceConfig: its commands in the order of its code.
Commands(b) ==
  PresetVideo(b) \o StreamVideo(b) \o StreamAudio(b) \o DevControl(b) \o Others(b)

Reads(name) == [name |-> name, cmd |-> name, setting |-> "video", value |-> 0, reads |-> TRUE]

\* RefreshDeviceConfig.
Readbacks == <<Reads("get_parms"), Reads("get_cyalarm"), Reads("get_wifi"), Reads("get_sysparms"),
  Reads("get_cloudsupport"), Reads("get_whiteLight"), Reads("get_sound_light_alarm")>>

\* The stream mode of the body goes before its preset; 0 if neither gives a size.
TargetStreamSize(b) ==
  IF b.streamMode \in {"qvga", "vga", "stop"}
  THEN CASE b.streamMode = "qvga" -> Qvga [] b.streamMode = "vga" -> Vga [] OTHER -> 0
  ELSE CASE b.preset = "stable320" -> Qvga [] b.preset = "quality640" -> Vga [] OTHER -> 0

ChangesSize(r) == r.command.name \in {"preset", "stream"}

BugStreamCommandOK(rs) == \E i \in DOMAIN rs : ChangesSize(rs[i])

\* It looks at the first of them.
StreamCommandOK(rs) ==
  \E i \in DOMAIN rs :
    ChangesSize(rs[i]) /\ rs[i].ok /\ \A j \in 1 .. i - 1 : ~ChangesSize(rs[j])

-----------------------------------------------------------------------------
(* The handlers.                                                             *)

Removed == entry = "removed"
Deleted == entry = "deleted" \/ Removed

\* The camera is looked up first: 404 if it has been deleted.
Begin(h, b, commands) ==
  /\ stage[h] = "idle" /\ ~Deleted /\ requests < MaxRequests /\ requests' = requests + 1
  /\ stage' = [stage EXCEPT ![h] = "sends"]
  /\ body' = [body EXCEPT ![h] = b]
  /\ todo' = [todo EXCEPT ![h] = commands]
  /\ results' = [results EXCEPT ![h] = <<>>]
  /\ reply' = [reply EXCEPT ![h] = [status |-> 0, ok |-> FALSE, timeout |-> FALSE]]
  /\ UNCHANGED <<scenario, config, entry, profile, loop, camera, network>>

ApplyDeviceConfig(h, b) == Begin(h, b, Commands(b))

RefreshDeviceConfig(h) == scenario.readable /\ Begin(h, Absent, Readbacks)

Result(command, ok) == [command |-> command, ok |-> ok]

\* With its result still open: it is set when the handler goes on.
SendCommand(h) ==
  /\ ~Removed /\ stage[h] = "sends" /\ todo[h] # <<>> /\ Head(todo[h]) # BadRequest
  /\ stage' = [stage EXCEPT ![h] = "waits"]
  /\ todo' = [todo EXCEPT ![h] = Tail(@)]
  /\ results' = [results EXCEPT ![h] = Append(@, Result(Head(todo[h]), FALSE))]
  /\ flight' = flight \cup {Head(todo[h])}
  /\ UNCHANGED <<scenario, body, reply, config, entry, profile, loop, camera, answers, requests>>

\* Not connected, for one thing since the runtime has been removed, or the socket gives
\* an error.
NotSent(h) ==
  /\ scenario.lossy \/ Removed
  /\ stage[h] = "sends" /\ todo[h] # <<>> /\ Head(todo[h]) # BadRequest
  /\ todo' = [todo EXCEPT ![h] = Tail(@)]
  /\ results' = [results EXCEPT ![h] = Append(@, Result(Head(todo[h]), FALSE))]
  /\ UNCHANGED <<scenario, stage, body, reply, config, entry, profile, loop, camera, network,
                 requests>>

Awaited(h) == Last(results[h]).command

WithLast(rs, ok) == Front(rs) \o <<Result(Last(rs).command, ok)>>

\* OnCommand: to everyone who waits for the command.
Answer(a) ==
  LET waiting == {h \in Callers : stage[h] = "waits" /\ Awaited(h).cmd = a.cmd} IN
  /\ answers' = answers \ {a}
  /\ stage' = [h \in Callers |-> IF h \in waiting THEN "sends" ELSE stage[h]]
  /\ results' = [h \in Callers |->
                  IF h \in waiting THEN WithLast(results[h], a.ok) ELSE results[h]]
  /\ UNCHANGED <<scenario, body, todo, reply, config, entry, profile, loop, camera, flight,
                 requests>>

\* No answer: good enough for a setting, not for reading one.
Timeout(h) ==
  /\ stage[h] = "waits"
  /\ \/ scenario.late \/ Removed
     \/ Awaited(h) \notin flight /\ \A a \in answers : a.cmd # Awaited(h).cmd
  /\ stage' = [stage EXCEPT ![h] = "sends"]
  /\ results' = [results EXCEPT ![h] = WithLast(@, ~Awaited(h).reads)]
  /\ reply' = [reply EXCEPT ![h].timeout = TRUE]
  /\ UNCHANGED <<scenario, body, todo, config, entry, profile, loop, camera, network, requests>>

BugAllOK(rs) == rs[Len(rs)].ok

AllOK(rs) == \A i \in DOMAIN rs : rs[i].ok

Status(h) == IF AllOK(results[h]) \/ body[h] = Absent THEN 200 ELSE 409

Respond(h, status, ok) ==
  /\ stage' = [stage EXCEPT ![h] = "idle"]
  /\ reply' = [reply EXCEPT ![h].status = status, ![h].ok = ok]
  /\ todo' = [todo EXCEPT ![h] = <<>>]

\* A bad field, whatever has been sent by then, or nothing to send at all.
Reject(h) ==
  /\ stage[h] = "sends"
  /\ IF todo[h] = <<>> THEN results[h] = <<>> ELSE Head(todo[h]) = BadRequest
  /\ Respond(h, 400, FALSE)
  /\ UNCHANGED <<scenario, body, results, config, entry, profile, loop, camera, network, requests>>

Done(h) == stage[h] = "sends" /\ todo[h] = <<>> /\ results[h] # <<>>

Resizes(h) == body[h] # Absent /\ TargetStreamSize(body[h]) # 0 /\ StreamCommandOK(results[h])

Finish(h) ==
  /\ Done(h) /\ ~Resizes(h)
  /\ Respond(h, Status(h), AllOK(results[h]))
  /\ UNCHANGED <<scenario, body, results, config, entry, profile, loop, camera, network, requests>>

\* setCameraProfileSize, under App.mu: the camera is gone,
Gone(h) ==
  /\ Done(h) /\ Resizes(h) /\ Deleted
  /\ Respond(h, 404, FALSE)
  /\ UNCHANGED <<scenario, body, results, config, entry, profile, loop, camera, network, requests>>

\* or gets the size in the configuration, which is saved unless it was right before,
SaveSize(h) ==
  /\ Done(h) /\ Resizes(h) /\ ~Deleted
  /\ config' = TargetStreamSize(body[h])
  /\ stage' = [stage EXCEPT ![h] = "resizes"]
  /\ UNCHANGED <<scenario, body, todo, results, reply, entry, profile, loop, camera, network,
                 requests>>

\* or cannot be saved: the configuration keeps the size, and the runtime never hears of it.
SaveFails(h) ==
  /\ Done(h) /\ Resizes(h) /\ ~Deleted
  /\ config # TargetStreamSize(body[h])
  /\ config' = TargetStreamSize(body[h]) /\ entry' = "unsaved"
  /\ Respond(h, 500, FALSE)
  /\ UNCHANGED <<scenario, body, results, profile, loop, camera, network, requests>>

BugSetProfileSize(h) ==
  /\ stage[h] = "resizes"
  /\ entry' = IF Deleted THEN entry ELSE "kept"
  /\ Respond(h, Status(h), AllOK(results[h]))
  /\ UNCHANGED <<scenario, body, results, config, profile, loop, camera, network, requests>>

\* After a size that was saved comes the runtime.
SetProfileSize(h) ==
  /\ stage[h] = "resizes"
  /\ profile' = TargetStreamSize(body[h])
  /\ entry' = IF Deleted THEN entry ELSE "kept"
  /\ Respond(h, Status(h), AllOK(results[h]))
  /\ UNCHANGED <<scenario, body, results, config, loop, camera, network, requests>>

\* A DELETE of the camera removes its runtime, unless it cannot be saved.
Deletes ==
  /\ ~Deleted
  /\ \/ entry' = "removed" /\ loop' = <<>>
     \/ entry' = "deleted" /\ UNCHANGED loop
  /\ UNCHANGED <<scenario, handler, config, profile, camera, network, requests>>

-----------------------------------------------------------------------------
(* streamLoop.                                                               *)

\* requestStreams reads the video mode under the lock and sends it after that; a
\* nudge stops the video first.
LoopReads ==
  /\ scenario.watched /\ ~Removed /\ loop = <<>>
  /\ loop' \in {<<profile>>, <<Off, profile>>}
  /\ UNCHANGED <<scenario, handler, config, entry, profile, camera, network, requests>>

LoopSends ==
  /\ loop # <<>>
  /\ loop' = Tail(loop)
  /\ flight' = flight \cup {Sets("loop", "stream", "video", Head(loop))}
  /\ UNCHANGED <<scenario, handler, config, entry, profile, camera, answers, requests>>

-----------------------------------------------------------------------------
(* The camera and the network.                                               *)

Refuses(c) == <<c.setting, c.value>> \in scenario.refused /\ ~c.reads

Executes(c) ==
  /\ flight' = flight \ {c}
  /\ answers' = answers \cup {[cmd |-> c.cmd, ok |-> ~Refuses(c)]}
  /\ camera' = IF Refuses(c) \/ c.reads \/ (c.setting = "control" /\ c.value = 0) THEN camera
               ELSE [camera EXCEPT ![c.setting] = c.value]
  /\ UNCHANGED <<scenario, handler, config, entry, profile, loop, requests>>

Loses ==
  /\ scenario.lossy
  /\ \/ \E c \in flight : flight' = flight \ {c} /\ UNCHANGED answers
     \/ \E a \in answers : answers' = answers \ {a} /\ UNCHANGED flight
  /\ UNCHANGED <<scenario, handler, config, entry, profile, loop, camera, requests>>

-----------------------------------------------------------------------------
Handles(h) ==
  \/ SendCommand(h) \/ NotSent(h) \/ Timeout(h) \/ Reject(h) \/ Finish(h)
  \/ Gone(h) \/ SaveSize(h) \/ SaveFails(h) \/ SetProfileSize(h)

DeviceNext ==
  \/ \E h \in Callers :
       RefreshDeviceConfig(h) \/ Handles(h) \/ \E b \in scenario.bodies : ApplyDeviceConfig(h, b)
  \/ \E a \in answers : Answer(a)
  \/ Deletes
  \/ LoopReads \/ LoopSends
  \/ \E c \in flight : Executes(c)
  \/ Loses

DeviceSpec == DeviceInit /\ [][DeviceNext]_device

\* streamLoop repeats what it asks for, as long as somebody watches, and what is sent
\* again and again arrives at last.  No packet stays on its way for ever.
DeviceFairness ==
  /\ WF_device(LoopReads) /\ WF_device(LoopSends)
  /\ \A m \in 0 .. 2 :
       SF_device(\E c \in flight : c = Sets("loop", "stream", "video", m) /\ Executes(c))
  /\ \A h \in Callers : WF_device(Handles(h))
  /\ WF_device(\E a \in answers : Answer(a))
  /\ WF_device(\E c \in flight : c.name # "loop" /\ Executes(c))

DeviceFairSpec == DeviceSpec /\ DeviceFairness

-----------------------------------------------------------------------------
(* Properties.                                                               *)

\* "ok" stands for all commands of the request, not only for the last: each was
\* sent and none was refused.  For readbacks it says that they all were answered.
OkMeansAll ==
  \A h \in Callers : reply[h].ok =>
    /\ \A i \in DOMAIN results[h] : results[h][i].ok
    /\ body[h] = Absent => ~reply[h].timeout
    /\ [i \in DOMAIN results[h] |-> results[h][i].command] =
         IF body[h] = Absent THEN Readbacks ELSE Commands(body[h])

\* Types, and what "ok" says of the commands.
Inv == DeviceTypeOK /\ OkMeansAll

\* The values that a body means for video and audio, Absent if it leaves them alone.
MeantVideo(b) ==
  IF b.streamMode \in {"stop", "vga", "qvga"}
  THEN CASE b.streamMode = "stop" -> Off [] b.streamMode = "vga" -> Vga [] OTHER -> Qvga
  ELSE CASE b.preset = "stop" -> Off [] b.preset = "quality640" -> Vga
         [] b.preset = "stable320" -> Qvga [] OTHER -> Absent

MeantAudio(b) ==
  IF b.enableAudioNow THEN 1
  ELSE CASE b.audioStream = "on" -> 1 [] b.audioStream = "off" -> 0 [] OTHER -> Absent

Meant(b, setting) ==
  CASE setting = "video" -> MeantVideo(b)
    [] setting = "audio" -> MeantAudio(b)
    [] setting = "control" -> (IF RateBit(b) = 0 THEN Absent ELSE RateBit(b))
    [] setting = "alarm" -> (IF b.alarm = "set" THEN 1 ELSE Absent)
    [] setting = "system" -> (IF b.system = "set" THEN 1 ELSE Absent)
    [] setting = "push" -> (IF b.disablePushUpload THEN 1 ELSE Absent)

Quiet == ~scenario.watched /\ ~scenario.lossy /\ ~scenario.late /\ ~Deleted

\* If nobody watches, nothing gets lost or late and the camera is not deleted, the answer
\* "ok" means that it has taken every setting, a specific field before the preset.
Applied ==
  \A h \in Callers :
    Quiet /\ stage[h] = "idle" /\ reply[h].ok /\ ~reply[h].timeout /\ body[h] # Absent =>
      \A s \in Settings : Meant(body[h], s) \in {Absent, camera[s]}

\* No body gives the size twice, or has a field that is found bad after the size is set.
OneSize ==
  \A b \in scenario.bodies :
    /\ b.preset = "custom" \/ b.streamMode = ""
    /\ "bad" \notin {b.audioStream, b.control, b.alarm, b.system}

\* Then, if a body gives one size at most, the camera is off or has the size of the
\* configuration between requests, even if it refused some of the commands or the
\* size could not be saved.
SizeFits ==
  Quiet /\ OneSize /\ (\A h \in Callers : stage[h] = "idle" /\ ~reply[h].timeout) =>
    camera["video"] \in {Off, config}

\* The stream mode of the camera is selected from the configuration, for good, as
\* long as somebody watches (a nudge stops the video for a moment) and the camera is
\* not removed, however commands of requests, of refreshes and of nudges overtake one
\* another or get lost.  What selects it is the runtime's copy of the configuration.
\* With one handler, that is another for good only if a size, or that the camera is
\* deleted, could not be saved.
StreamFromConfig ==
  scenario.watched =>
    \/ <>[]Removed
    \/ /\ <>[](camera["video"] \in {Off, profile}) /\ []<>(camera["video"] = profile)
       /\ <>[](profile = config \/ entry # "kept")
=============================================================================
