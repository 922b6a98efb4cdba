--------------------------- MODULE MCDeviceConfig --------------------------
(* Bodies of requests for TLC. *)
EXTENDS DeviceConfig

CONSTANT h1

Nothing == [preset |-> "custom", streamMode |-> "", audioStream |-> "", enableAudioNow |-> FALSE,
            bitrateKbps |-> Absent, bitrate |-> Absent, control |-> "", alarm |-> "", system |-> "",
            disablePushUpload |-> FALSE]

\* Everything that can be asked of the stream, alone and together, and the rest of
\* the fields with a preset.
StreamBodies ==
  {[Nothing EXCEPT !.preset = p, !.streamMode = m, !.audioStream = a] :
     p \in {"stable320", "quality640", "stop", "custom", "bad"},
     m \in {"", "qvga", "vga", "stop", "bad"}, a \in AudioModes}

RateBodies ==
  {[Nothing EXCEPT !.preset = p, !.bitrateKbps = k, !.bitrate = r, !.control = c] :
     p \in {"stable320", "custom"}, k \in {Absent, 50, 3200}, r \in {Absent, 64}, c \in Given}

OtherBodies ==
  {[Nothing EXCEPT !.preset = "quality640", !.enableAudioNow = e, !.alarm = a, !.system = s,
                   !.disablePushUpload = p] :
     e \in BOOLEAN, a \in Given, s \in Given, p \in BOOLEAN}

\* A size by the preset or by the stream mode, not by both, and nothing bad after it.
SizeBodies ==
  {b \in StreamBodies : (b.preset = "custom" \/ b.streamMode = "") /\ b.audioStream # "bad"}

\* Several commands each.
LossyBodies ==
  {[Nothing EXCEPT !.preset = "stable320", !.alarm = "set", !.disablePushUpload = p] : p \in BOOLEAN}

\* Requests that change the size; nudges stop the video.
LiveBodies == {[Nothing EXCEPT !.streamMode = m] : m \in {"qvga", "vga"}}

Settled == [bodies |-> StreamBodies \cup RateBodies \cup OtherBodies,
            sizes |-> {Qvga}, refused |-> {<<"alarm", 1>>, <<"audio", 0>>},
            lossy |-> FALSE, late |-> FALSE, readable |-> TRUE, watched |-> FALSE]

\* Every setting, a camera that refuses a size, a bad network, and somebody who
\* watches over a bad network.  Cameras start with the small size: a first request
\* leaves the second with either.
MCScenarios ==
  {Settled,
   [Settled EXCEPT !.bodies = SizeBodies, !.refused = {<<"video", Vga>>}, !.readable = FALSE],
   [Settled EXCEPT !.bodies = LossyBodies, !.lossy = TRUE],
   [bodies |-> LiveBodies, sizes |-> {Qvga}, refused |-> {}, lossy |-> TRUE, late |-> TRUE,
    readable |-> FALSE, watched |-> TRUE]}
=============================================================================
