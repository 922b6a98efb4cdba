# Formal models of the BKCam gateway

TLA+ models of `bkcam-go/main.go`, the Go server that keeps PPPP sessions to
BK7252N/A9 cameras and serves their video and audio over HTTP, with TLC runs on
small instances and TLAPS proofs for every instance.

Reading order: a component's module, then its `MC` module and `.cfg` file, then
the module with its proofs: its own `Proofs` module, or that of a neighbour
(`SessionProofs` has `PeerHandshake` and `WireFormat`, `CameraConfigStoreProofs`
also `CameraProfile`, `CommandWaitersProofs` also `DeviceConfig`,
`AudioChannelProofs` also `AdpcmDecoder`). Start with `CameraRuntime` (section 3),
`VideoAssembly` (4), `ConfigStore` and `CameraConfigStore` (5), then
`CommandCalls` and `CommandWaiters` (6), `MediaFeed` and `FanOut` (7),
`Watchdog` (8), `PeerHandshake` (9), `AudioChannel` and `AdpcmDecoder` (10),
`DeviceConfig` (11), `WireFormat` (12), `CameraProfile` (13). `PROJECT.json`
maps every definition to source lines and lists the runs, the mutants that show
that each property can fail, the hazards and the theorems.

    tlc -workers 2 -config CameraRuntime.cfg MCCameraRuntime
    tlapm CameraRuntimeProofs.tla

## 1. Inventory

`bkcam-go/main.go` is one program. Other directories hold the backend it
replaces (`bkcam-server`), the JavaScript, C and Python clients it was derived
from (`PPPP`, `a9serv`, `aiopppp`), a Wireshark dissector and research notes.
None of them is linked into the program; none is modelled.

| Component | State | Operations | Hard behaviour |
|---|---|---|---|
| **App** (configuration store, API) | `config`, its file, `runtimes`, `App.mu` | load, save; POST, PATCH, DELETE, provisioning, profile size | reads under one lock, writes under a later one; a save that fails after the change in memory; an 18 s wait in the middle of provisioning; rename as commit point |
| **CameraRuntime** (life cycle) | `cfg`, `pppp`, `connectedAt`, `peerAddress`, `startedAt`, `lastRestartAt`, restart timers | Start, Stop, restart, UpdateConfig, WaitForSession, healthLoop, streamLoop | a session has four goroutines; any of them, a timer, a viewer or the API may stop or replace it; Stop has an unlocked half; restart is throttled |
| **PPPP session** (transport) | socket, context, `closed`, `remote`, `isConnected`, `punchCount`, `outIndex` | Run, discoveryLoop, Close, handlePacket, SendCommand | Close before the socket exists; handshake packets repeated or from another peer |
| **Video assembly** | `videoFrame` | handleVideo, buildVideoFrame | loss, duplication, reordering; 16-bit indices that wrap; frames without a trustworthy length |
| **Wire format, cipher** | key, 16-bit `outIndex` | keyFromPSK, sendDRWPacket, sendDRWAck, encrypt, decrypt, parsePacket | a cipher that feeds back on its own output; lengths and indices of two bytes |
| **Audio channel** | ADPCM predictor, `lastAudioMediaIndex` | handleDRW, parseAudioFrames, Decode | 32-bit index that wraps; a camera that starts to count again |
| **Device configuration** | the camera's settings, sizes in `config` and `cfg` | ApplyDeviceConfig, RefreshDeviceConfig, setCameraProfileSize | several commands per request, any of which may be refused or lost, beside a loop that sends the same command |
| **Camera profile** | one `CameraConfig` | normalizeCamera, accessors, publicConfig, the form, provisionCamera | defaults that are stored, fields that are filled from one another |
| **Command waiters** | `commandWaiters`, waiting handlers | commandWithResponse, removeCommandWaiter, OnCommand | answers carry a command number only; a timeout races with the answer |
| **Fan-out** | `latestFrame`, `latestOutputFrame`, `videoOutputCh`, client queues | enqueueVideoOutput, videoOutputLoop, sendDropOld, ServeVideo, ServeAudio, ServeSnapshot | drop-oldest queues with a racing consumer; clients that UpdateConfig forgets |
| **Media watchdog, health** | `lastVideoAt`, `lastAudioAt`, `lastTraffic`, request times | nudgeStreams, requestStreams, healthLocked | several clocks and cooldowns whose windows must fit together |
| **Pages, overlays** | none | HTML, JPEG decoding, overlay text | no protocol state; not modelled |

Interaction. `App.mu` serialises configuration changes and is held while a
runtime is stopped, changed and started. A runtime calls its session directly
(`Close`, `SendCommand`); a session calls the runtime back through `OnPacket`,
`OnConnected` (in a goroutine of its own), `OnVideo`, `OnAudio`, `OnCommand` and
`OnClose`. The callbacks close over the runtime, not over the session: a session
that has been replaced still calls into the runtime that runs its successor.
HTTP handlers look a runtime up under the read lock and use it after releasing
the lock, possibly after the runtime was removed.

What makes each part correct:

* life cycle: no session leaks or is closed twice; the current session is always
  watched; a restart that was begun leads to a new session; a session that can
  receive nothing is replaced;
* video: a frame that reaches viewers is one frame of the camera, whole and in
  order; on a good network none is left out;
* configuration: memory, file and runtimes agree once a request is done, and a
  deleted camera stays deleted;
* waiters: an answer goes to the requests that wait for it; a request ends;
* fan-out: viewers see frames in order, and the newest at the end;
* watchdog: a stream that flows is not interrupted; a dead one is replaced in
  time; video comes back;
* handshake: a session binds to the camera it is configured for, once, and the
  two find each other again after either has lost the other;
* audio: sound is played in order, once, and from the decoder state it was
  encoded from;
* device configuration: "ok" means every command; the camera ends with the size
  of the configuration;
* wire format: the peer reads what was sent;
* profile: a request changes what it is about, and nothing else.

## 2. Plan

Every module of the original plan is written: `CameraRuntime`, `VideoAssembly`,
`CameraConfigStore` over `ConfigStore`, `CommandWaiters` over `CommandCalls`,
`FanOut` over `MediaFeed`, `Watchdog`, `PeerHandshake`, `AudioChannel` with
`AdpcmDecoder`, `WireFormat`; `DeviceConfig` and `CameraProfile` were added when
the inventory showed hazards there that the others leave out.

Composition is by abstraction, as the state of all parts together is beyond
TLC: each module has the steps of its neighbours that it can observe
(`SessionChanges` and `UpdateConfig` in `CommandWaiters`, `Restart` in
`PeerHandshake`, `TooLate` and `Restart` in `Watchdog`), and the abstract
specifications are what a neighbour may rely on.

One configuration per component asks all of its properties of one instance.
Where a property needs better circumstances than the others, the module says in
a history variable or a rigid variable whether they hold (`fifo`, `ordered`,
`mixed`, `scenario`), and the property asks for them: the same run covers both.

Every safety property that a run checks is proved too, for all values of the
constants (section 15 has the premises); the runs show each of them on an instance
and, with a mutant, that it can fail. Types, and invariants that are
steps of a proof, are not repeated by the runs of `CameraRuntime`, `VideoAssembly`,
`CameraConfigStore`, `CommandWaiters` and `WireFormat`; in the other modules `Inv` is
the type invariant together with one safety invariant, and the run checks `Inv`.
Where a module's proofs stand in that of a neighbour its `Init`, `Next` and types
have names of their own (`WireSpec`, `ProfileSpec`, `DeviceSpec`).

What is left: the hazard without a property (`PROJECT.json`), should the code come to
promise something about it.

## 3. Session life cycle: `CameraRuntime`

One runtime, its sessions and everything that acts on them. A goroutine is a
pair such as `<<"run", s>>` or `<<"health", s>>`, `<<"client", c>>` for an HTTP
handler, `App` for the API handler that holds `App.mu`; `pc` says where it is.

| Model | Code |
|---|---|
| `StartLocked`; `Launch` | the critical section of `Start`; its callbacks and `go` statements |
| `Listen`, `RunEnds`, `SocketFails` | `Run` up to `go p.discoveryLoop()`; its return after Close; its error returns and that of `discoveryLoop`, which call `OnClose`, that is restart |
| `Resolve`, `P2PReady`, `OnConnected` | the probe, the first P2P_RDY, the goroutine it spawns |
| `LoopExits`, `Timeout` | ticks of `healthLoop` and `streamLoop` that return, or call restart |
| `RestartThrottled`, `RestartBegins`, `StopTake`, `RestartCloses`, `TimerFires` | `restart`: its cooldown test, the two halves of `Stop`, the 1.5 s timer |
| `ClientLooksUp` ... `ClientLeaves` | handlers that hold the runtime: Start, restart |
| `UpdateConfig`, `Remove`, `AppCloses`, `SetConfig`, `AppStarts` | `upsertRuntimeLocked`, `UpdateConfig`, `removeRuntimeLocked`, step by step |

An action is one critical section of `rt.mu` or one step that others can
observe. `holds[g]` is the local variable `pp` of `Stop` in goroutine `g`.

Abstractions. Time: a timeout may be found at any tick where it can be, and
`cooldown` stands for "less than 5 s since `lastRestartAt`". `Prompt` says that
no goroutine or timer is 5 s late, so that the cooldown outlasts the restart
that set it; the proofs do without it. `p.conn` is
written by `Run` and read by `Close` without a lock: Close sees it set or not,
according to whether `Listen` came first. Ticks that only send packets are
left out, as they change nothing here; `UpdateConfig`'s resets of frame and
clock fields belong to later modules.

Runs.

* `runtime`: two sessions, the health loop, a viewer, and one failure, update or
  removal. Two sessions suffice for every pair of "old session disturbs new one";
  one armed timer is all that `Prompt` allows. The two loops differ only in what
  they look at; `runtime_peer` has both.
* `runtime_peer` expects a violation: see Findings.

Properties. `Ownership` (every session is current, held by exactly one Stop, or
closed), `Watched` (the loops of the current session do not return),
`StartCommitted` (an enabled runtime without a session has a Start on its way),
`ZombiesUnopened` (a socket survives Close only if it was not open yet), and the
liveness properties `SessionComesBack`, `DeadSessionReplaced`,
`ClosedSessionEnds`. Deadlock is not checked: a removed or disabled runtime
stops, and the set of sessions is bounded.

Fairness is weak, for each step that the Go scheduler, the timers and the clock
take by themselves: launching, listening, resolving, OnConnected, restart once
entered, ticks that return, the timer, the expiry of the cooldown. A watchdog
must restart only where its clock cannot be refreshed (`SilentTimeout`: no Run
reads packets). A Run must return after Close only if its socket was closed;
one whose socket outlived Close reads on for as long as packets arrive, so the
liveness properties exempt such zombies by name. Nothing is assumed of the
camera, of viewers, or of API calls.

Proofs (`CameraRuntimeProofs`), for all constants that satisfy the assumptions
of the module, `Prompt` or not. `IInv` is the inductive invariant: types,
`Ownership`, `LoopsLive`, `DiscAfterRun` and `StartCommitted`. `Watched` is not
inductive: it must be known that a loop that is past the locked half of its own
Stop, or has returned, does not belong to the current session (`LoopsLive`),
and for that, that Stop has exclusive hold of what it took (`Ownership`).
`DiscAfterRun` is needed because `Listen` launches discoveryLoop and may not
disturb one that already runs a restart. The step lemma has one case per action.
`ZombiesUnopened` is a property of single steps and needs no invariant: Close takes
the socket away if there is one, so only a Run that opens its socket after Close
makes a zombie, and of its own session.

## 4. Video frames: `VideoAssembly`

`handleVideo` for a stream whose chunks are numbered 0, 1, 2, ...; a packet
carries the number modulo `IndexSpace` (2^16 in the code). Each chunk either
starts a frame, with an announced length, or continues one, and may hold the end
of the JPEG. `HandleVideo` has one action per way through the function:
unusable start, start, stray chunk, out of the window, in the window.

Abstractions. Lengths are counted in chunks, not bytes: a frame of announced
length n is complete with its first n chunks; cutting the last chunk to size and
the byte position of markers are left out. The start-of-image marker is in the
first chunk. `videoMu` makes a call atomic. `Receive` is the network: any chunk
within `Reach` of the newest one received, again and again or never; `fifo`
says that so far it has been each chunk once, in order. The assumption
`2 * Reach + Window < IndexSpace` (with 128 and 65536: a packet may be late or
ahead by some 32000) is what makes wire indices unambiguous.

Run `video`: 61 chunks over an index space of 16, so indices wrap more than three
times; window 5, reach 5 (the assumption is tight: 15 < 16). Streams repeat one of
four patterns: frames as announced, announced too long, announced too short with a
bad header between, longer than the window.

`NoMixing` (what OnVideo gets is a run of consecutive chunks of one frame from
its start on), `FrameWhole` (it has the announced length or ends with an end of
image), and as long as `fifo` holds `InOrderOnce` and `NothingLeftOut`. On a
network that reorders, the code may show an old frame again after a newer one,
when the packets of the old frame come twice; the properties do not claim more.

Proofs (`VideoAssemblyProofs`): the four properties and `TypeOK`, for every index
space, window, reach and set of streams. The invariant says that the
assembly holds chunks of one frame whose start is `Near` the newest packet: since
a packet beyond the window ends the assembly, an open assembly never falls
further behind than the window or the reach, and a wire distance within the
window is then the true distance (`TrueDistance`, by arithmetic modulo
`IndexSpace`). `buildVideoFrame` hands on a prefix of such an assembly, `Cut`
where it was announced to end or where an image ends.

For a network that keeps order `InOrder` is added: an open assembly then has all
chunks from its start to the newest one (`Open`), nothing from its start on has been
shown and nothing before it is still to be shown (`AllShown`). So when the next frame
starts, an assembly from which nothing can be made is one that could not be shown
(`PreviousShown`), and one that has outgrown the window could not either (`TooLong`).
A frame has an end (`FrameEnds`) because a set of numbers has a least one (`FirstOf`).

## 5. Configuration: `CameraConfigStore` implements `ConfigStore`

`ConfigStore` is the promise: a table of cameras in memory that changes one
camera at a time, and a copy on disk that is at every moment a whole table,
replaced by the one in memory (`Save`) or put back by a restart.

`CameraConfigStore` is `App` of the code: `memory` is `a.config.Cameras`, `disk`
and `tmp` the file and the temporary file, `running` the `rt.cfg` of the runtimes
in `a.runtimes`, `lock` the holder of `App.mu`. API handlers are processes with a
program counter.

| Model | Code |
|---|---|
| `Post` | POST: look, change and save under one lock |
| `LookUp`, `Gone`, `Refused`, `PatchOrDelete` | PATCH and DELETE: the lookup, what happens without the lock, the second lock |
| `ChangeSize`, `SizeIsRight`, `Resize` | `setCameraProfileSize`; `SetProfileSize` after the unlock |
| `ProvisionReads`, `ProvisionConnects`, `ProvisionFails`, `ProvisionStrays`, `ProvisionChanges` | `provisionCamera` around its waits for the camera, and its exits: nothing heard or a command failed (restores or removes the runtime), no profile for the new network (leaves it), done (saves) |
| `OpenTmp`, `FillTmp`, `SaveFails`, `Commit` | `saveConfigLocked`, then what its callers do to the runtime |
| `Crash` | the program is killed; `loadConfig` and `main` start it again |

Abstractions. A profile is its stream size and the rest of it; two values of the
rest stand for what provisioning fills in. A PATCH may write any profile, so
that a lost update of single fields is in the model and no property denies it.
`Upsert` and `RemoveRuntime` change the runtime at once: `CameraRuntime` has the
steps. `made` numbers the runtimes of a camera: a handler of `SetProfileSize`
may hold one that has since been removed. Reads do not change anything and are
left out; profiles written by hand are in `CameraProfile`.

Run `config`: any three overlapping requests for two cameras by two handlers, with
saves that fail and a restart at any step. Two handlers suffice for an overlap;
RWMutex lets no more than one change at a time, and the third request meets what
the first two have left. `MaxRequests` and `MaxCrashes` bound requests and
restarts. Deadlock is not checked: the requests end.

Properties. `SavedUnlessFailed`: while `App.mu` is free, memory and file differ
only for cameras with a failed save (`stale`). `RuntimesFollow`: the runtime has
the configured profile once nobody is about to change it. It holds for
overlapping POST, PATCH and DELETE, but for device-config and provisioning only
as long as they meet no other request for their camera (`mixed`):
`ProvisionFails` puts the profile it read up to 18 s earlier back into the runtime,
over any PATCH in between, and `setCameraProfileSize` tells the runtime after it
has released `App.mu`, so that of two sizes the runtime may keep the one that the
configuration does not have.
Of the exits of provisioning with an error, the one at `main.go:1391-1394` (an empty
`finalDiscovery` without `finalIp`) comes after the runtime got the setup profile and
the camera the Wi-Fi settings, and neither restores nor removes anything. `astray` are the
cameras that one has left so, by one request and without any overlap; for them
`RuntimesFollow` says that the runtime has the setup profile, whether the camera is
configured or not. That lasts until a request for the camera saves or another
provisioning fails earlier. If the camera is not configured only a POST or another
provisioning can do it, as PATCH and DELETE answer 404.
`DeletedStaysDeleted`: only POST and provisioning bring a deleted camera back, no
PATCH that was under way, no later save and no restart.

Proofs (`CameraConfigStoreProofs`): `TypeOK` (the file is never torn),
`SavedUnlessFailed`, `DeletedStaysDeleted`, `RuntimesFollow` and the refinement
`Spec => Store!Spec`. The invariant
`Locking` says that the handler that holds `App.mu` is the one that saves, that
the temporary file equals memory when it is renamed, and that every difference
between memory and file is a failed save or the one being saved. It is needed
because `Commit` writes what was put into the temporary file two steps before.
Changes of memory map to `Change`, `Commit` to `Save`, `Crash` to `Restart`, all
other steps stutter.

`RuntimesFollow` speaks of a moment when nobody is about to change a runtime, so it
is not inductive. `Following` says what holds meanwhile: on a camera that is not
`mixed` a device-config or provisioning request has no other beside it (`Alone`);
while a change is saved, memory has what the runtime will get (`Written`); and memory
and runtime differ only by what a request past its change still has to write
(`Agree`), where provisioning remembers the profile that is still configured and a
runtime is `Behind` by a size only; a runtime that is `astray` has the setup profile
instead, and a size that reaches it leaves it that. A camera leaves all of that once it
is mixed or a save of it failed (`stale`).

## 6. Command waiters: `CommandWaiters` implements `CommandCalls`

`CommandCalls` is what `commandWithResponse` promises: an answer goes, at one
point in time, to every call that is open for its command number and to no other;
a call ends with the answer it has been offered, a timeout or an error.

`CommandWaiters` is the code: a handler makes a channel with one place and
registers it (`Register`), sends (`Send`), and selects between channel and timer
(`Receive`, `Expire`); `Withdraw` is `removeCommandWaiter`, a separate critical
section. `OnCommand` takes all channels of a number under `rt.mu` (`Take`) and
serves them one by one without it (`Deliver`), in the goroutine of a session
(`Loops`; two of them may overlap after a restart). `SessionChanges` and
`UpdateConfig` are what the rest of the runtime does meanwhile; `UpdateConfig`
throws away the map, and so the channels in it (`forgotten`). What an answer
says is a model value.

Run `waiters`: two handlers with two calls each, two loops, two commands, two
answers, one update. Two of each are the least that lets an answer race with a
timeout, two answers with one another and an old channel with a new call. Handlers,
loops, commands and answers are symmetric. That a call returns needs no run: a call
that waits has its own timer, and no other step can stop it.

Properties: `IInv`, which joins `NoWaiterLeft` (waiters do not pile up),
`RoomForAnswer` (two answers are never on their way to one channel, so the send
that does not wait loses nothing) and `Reachable` (a timeout of one call does not
take the channel of another with it); and `RefinesCalls`.

Proofs (`CommandWaitersProofs`), for any number of handlers, loops, commands and
calls: all of these, each by its name. `IInv` adds to them that a registered
channel is empty and not forgotten, and that no loop holds a channel of a call
yet to come (`HeldMade`): else `Register` could make a call whose channel is
about to be filled with an older answer. The refinement maps `Register` to
`Open`, `Take` to `Arrive`, `Receive` and `Withdraw` to `Close`, `UpdateConfig`
to `Deafen`; `Deliver` stutters, as `offer` counts an answer from the moment it
was taken.

## 7. Fan-out: `FanOut` implements `MediaFeed`

`MediaFeed` is what a viewer is promised: an increasing subsequence of the
stream; only the first thing shown may be a preview, newer than what the
pipeline hands out next.

`FanOut` is `OnVideo`, `enqueueVideoOutput`, `videoOutputLoop`, `OnAudio`,
`sendDropOld`, `ServeVideo` and `ServeAudio`. A producer that finds a channel
full tries, drops the oldest entry, and tries again: three actions, which the
reader of the channel races with (`EnqueueSend`/`EnqueueDrop`,
`SendTry`/`SendDrop`/`SendAgain`). `TakeJob`, `Rendered`, `RenderFails` are
`videoOutputLoop`; `Broken` are frames that do not decode. `UpdateConfig` makes
new maps of clients while goroutines hold copies of the old ones. Ages are
abstract: `recent` stands for "less than 75 s", the idle timer may fire whenever
the channel is empty. Repeats of the last frame to a viewer are left out, as
they show nothing new.

Run `fanout`: two sessions that may deliver at the same time, as after a restart,
three frames or packets of sound, a viewer or a listener, queues of two, a frame
that does not decode, one update. Three pieces overfill a queue of two, and two the
place for output.

Properties. `Inv`: types and `NewestKept`, that dropping never costs a client its
newest piece. `RefinesFeeds`: frames and sound are `MediaFeed`s, in order until two
sessions deliver at once (`ordered`; `Disorder` in `MediaFeed`), when frames may
come out of order. `CaughtUp`: a frame reaches everyone who watches unless a newer
one comes. `ForgottenLeave`: clients that `UpdateConfig` has forgotten end.
Fairness is weak: goroutines run, a write to a client returns or fails (by the
timeouts of TCP), and a client that nobody sends to idles out. It is not assumed
for the idle timer of a client that is still registered.

Proofs (`FanOutProofs`), for any number of sessions, clients, pieces and places:
`Inv` and `RefinesFeeds`. For `NewestKept` to be inductive it must be known that only
`videoOutputLoop` fills the channels of viewers (`Sends`) and one frame at a time,
so that the place it has made by dropping is there when it tries again, and that
a client it still has to serve waits for this frame and no other (`Output`); and
that nobody is sent to before arriving, as `ServeVideo` puts a frame into the
channel of a viewer itself. This invariant holds in any order of frames.

The refinement adds `Order`. Its core, `Line`, holds until two sessions deliver at
once: a frame on its way from `OnVideo` over the pipeline and the sender to a viewer
has all before it that was rendered earlier (`Passed`), and each entry of a channel is
above the one before it, but for the frame a viewer is shown first (`InLine`). A
sender that drops the oldest entry keeps that. Writes to clients map to steps of the
feed, the step that makes two sessions deliver at once to `Disorder`, everything else
stutters.

## 8. Clocks: `Watchdog`

`streamLoop`, `healthLoop`, `nudgeStreams`, `requestStreams`,
`requestAudioOnly`, `restart`, `recoverVideoForClient`, `ServeSnapshot` and
`healthLocked`, in discrete time. `age[c]` is how long ago the time stamp `c` was
set, `Never` if it is zero; an age saturates where every comparison has been
decided. `Tick` needs everything that is due to be done (`Urgent`): the 200 ms
before streams are requested and the 180 ms inside a nudge are shorter than a
step, while their steps still interleave with all others. The camera is external:
it can be cut off and come back with or without the session (`SwitchedOff`,
`SwitchedOn`), get stuck or lose its sound (`Stalls`); `video 0` may or may not
free it. A good camera connects within `Reconnect` and sends its first frame
within `FirstFrame`.

The windows are parameters. `WindowsAssumption` states the order in which the
constants of `main.go:56-67` stand, and TLC evaluates it; runs use small numbers
in that order, with the throttle (5 s) between the audio and the video window, so
that every pair of comparisons is decided in each way that the code's numbers
allow. A unit is some 2 to 4 seconds.

Run `watchdog`: a viewer comes and goes while one of four things happens, as `left`
says: the camera is switched off or cut off, with or without the session; it gets
stuck twice; a listener comes and the sound stops; it gets stuck once beside a
forced snapshot.

Properties. `DeadIsReplaced`: with a viewer, no session lives longer without
video than the window and the tick that finds it; throttle and nudges are not in
the way. `FlowIsKept`: silence on the audio channel, or another handler, does not
cost a viewer a stream that flows. `Inv`: types and `OffIsNotOnline`, that the state
shown is not "online" for long without a camera. `VideoComesBack`, under weak
fairness of the goroutines, of time and of a camera that answers in time; viewers,
outages and stalls are free, and the property asks for the case that from some
time on the camera is on and somebody watches.

Proofs (`WatchdogProofs`): `Inv`, `DeadIsReplaced` and `FlowIsKept`, for all windows
that stand in the order of `WindowsAssumption`, so for those of the code, and for any
number of outages, stalls, listeners and snapshots. The clocks are tied to one another:
what a camera out of reach has sent is older than its switching off (`Silent`, from
which `OffIsNotOnline` follows); a frame is traffic (`FramesAreTraffic`); a session
connected after the throttle of the restart before it or after that restart
(`Linked`); and a session which somebody watches, and whose loop has ticked, is not
dead (`NotDead`). `Linked` and the order of the windows give that a dead session has
been connected for longer than the throttle lasts: restart does not refuse.

## 9. Handshake: `PeerHandshake`

One session at a time, known by its local port, over a network that is a set of
packets: any packet may be lost, delivered, or delivered and kept. Packets from
and to earlier sessions stay in the network. `Searches` is `discoveryLoop`,
`ReadsPunch`, `ReadsReady`, `ReadsData`, `ReadsClosed` are `Run` with
`handlePacket` for the packet types that matter; `AcceptsPeer` is the filter
before them. `Restart` is Close, which sends CLOSE to the peer, and the next
session. A camera (external, from what the code answers to) takes part in one
session at a time, forgets it (`Forgets`), or boots and has another port
(`Reboots`).

Abstractions. `remote` and `isConnected` are one variable, as `setRemote` writes
both under one lock. ALIVE is only kept as the answer to CLOSE. Timeouts
are possible where the condition for them has come to hold: `ConnectTimeout` when
no more PUNCH will be echoed, `TrafficTimeout` when the peer does not know the
session. Session numbers are used again: `Restart` removes what could be confused.

Run `peer`: two cameras, one of them configured, two sessions at a time, and two of
reboots, forgotten sessions and needless restarts; two packets in the network at a
time, which may be lost, late or repeated. Without a configured address either
camera may become the peer: the proofs cover that.

Properties: `RightCamera`, `Pinned`, `Inv` (types and `NotifiedOnce`, that a
session reports its peer once); `LinksAgain` (whatever is lost and whoever
reboots, gateway and camera find each other) and `Acknowledged`.
Fairness: the loops run, timeouts fire, a camera repeats what is not acknowledged
(weak), and what is sent again and again arrives at last (strong, for packets of
the current session only).

Proofs (`SessionProofs`): the three safety properties, for any number of
cameras, sessions, ports and packets. The invariant joins them with the types. That
packets carry a real address suffices, as the filter looks at where a packet
comes from. `Held` says of the network that it is finite: without that the bound on
its size, a cardinality, would say nothing. Most actions do not touch the gateway
(`Beside`), so one lemma covers them.

## 10. Sound: `AudioChannel`, `AdpcmDecoder`

`AudioChannel` is channel 2 of `handleDRW` with `parseAudioFrames` and
`mediaIndexAfter`. A packet has one or two media frames with an index, one frame
with a header but no index, or raw data. Frames are known by their true number,
the code sees it modulo `IndexSpace` (2^32). As in section 4, packets are lost,
repeated and reordered within `Reach`, and the assumption
`8 * Reach < IndexSpace` says when indices are unambiguous.

Run `audio`: 61 packets over an index space of 32, five streams; indices wrap at
least once and up to four times. `InOrderOnce`: sound is played in order and no
frame twice. `Inv`: types and `DecodedFromReset`, that a media frame is decoded
from the state it was encoded from, whatever got lost before it. `NothingLeftOut`
as long as the network keeps order. A camera that starts to count again within a
session is not in the streams: the code then drops its sound, by design of the
filter.

`AdpcmDecoder` is `ADPCMDecoder.Decode` nibble by nibble; `Decode` of
`AudioChannel` runs every frame through it. One of the streams is loud sound
without headers, which takes sample and index to their limits (the types in `Inv`).
The index moves before the step is taken (main.go:4423-4432), where IMA ADPCM scales a
nibble with the step selected before (`PPPP/adpcm.js:51`): sound differs by a step, and no property depends on it.

Proofs (`AudioChannelProofs`): the three properties, for every stream whose packets
are as `Numbered` says, every index space, reach and step table, and data of any
length. `Numbered` is what a camera does that numbers its frames: it may repeat the
last frame of the packet before and may send frames without numbers between, but
does not start again. `DecoderInRange` is about one nibble. The loop over the data of
a frame is a function over positions; that it exists (`LoopRuns`) and stays in range
(`LoopKeeps`) is proved by induction, for which a set of naturals will do
(`SetInduction`): the least one it does not have would follow one that it has. The
invariant of the channel is `Heard`: the filter has the index of the newest frame
decoded, which came in a packet received before. `Handled` is the same inside a
packet, after each of its frames. Two frames within reach are less than half the
indices apart, so that the signed difference of indices tells which is newer
(`IndexTells`).

## 11. Device configuration: `DeviceConfig`

A request becomes a sequence of commands (`Commands`, in the order of
`ApplyDeviceConfig`; a bad field is a `BadRequest` in its place, as commands
before it have been sent by then), which a handler sends and awaits one by one;
then it may change the size in the configuration and afterwards in the runtime
(`SaveSize`, `SetProfileSize`), unless the camera has been deleted meanwhile (`Gone`,
404) or the size cannot be saved (`SaveFails`, 500). A DELETE comes at any step
(`Deletes`), takes the runtime away unless it cannot be saved, and is for good: that
POST and provisioning can bring the camera back is in `CameraConfigStore`. Beside it `streamLoop` asks for the mode that the
runtime's profile gives. An answer belongs to everyone who waits for its command,
which is `CommandCalls`, here in one step. Fields that go into one command of one
kind are one field (`control`, `alarm`, `system`: set, bad or not given).
The camera (external) executes or refuses, and keeps what it took.

Run `deviceconfig`: two requests in each of four scenarios. Every setting: 169
bodies (every combination of preset, mode and audio, rates at both ends, every
combination of the rest) and device-refresh, for a camera that refuses two
settings. Sizes: a camera that refuses 640x480. A bad network: losses, errors,
readbacks. A viewer: two sizes, streamLoop and nudges, and anything is lost or late.
In each of them a save may fail and the camera may be deleted; it starts with the small
size, as a first request leaves the second with either. One handler suffices, as
overlapping requests are in `CommandWaiters` and `CameraConfigStore`; the loop is the
second sender of stream commands.

Properties. `Inv`: types and `OkMeansAll`, that "ok" stands for every command;
`Applied` (nobody watching, nothing lost, no DELETE: "ok" means the camera has every setting,
a specific field before the preset); `SizeFits`;
`StreamFromConfig`. `SizeFits` is stated for bodies that give the size once and
have no field that is found bad after it (`OneSize`): a 400 does not take back what
was sent before it, and with a preset as well as a stream mode `streamCommandOK`
looks at the first stream command and `targetStreamSize` at the second, so that a
camera that takes the one and refuses the other leaves the configuration with a
size it does not have. `StreamFromConfig`: while somebody watches and the runtime is
there, the camera ends with the mode of the runtime's profile, for good except for the
moments of a nudge; and that profile ends with the configured size unless something could
not be saved. The exception is what the code does at `main.go:1196-1199`: the
configuration keeps in memory the size that could not be saved, the request fails, and
`SetProfileSize` is not called, so that `streamLoop` asks for the old mode for good, or
until a later size reaches the runtime. Asking for the same size again is enough
for that: it is right in the configuration by then, and the runtime is told without a
save. `SizeFits` holds all the same where nobody watches, as the camera took the size and
the configuration has it. Fairness: the loop repeats its request, no packet stays on
its way for ever, and a stream command that is sent again and again arrives.

Proofs (`CommandWaitersProofs`), for every body there is, every camera and any values
of `Scenarios`: `Inv`, for any number of handlers (`OkForAll`); `Applied` and
`SizeFits` if there is one (`Alone`: of two that post at the same time one may undo
what the other set, and "ok" cannot speak for it).
For `Inv`, `DeviceIInv` says that what a handler has sent and what it has to send are
together what it was asked for (`InProgress`), and that of a reading that timed out
the failure stays on record (`TimedOut`): an answer to somebody else's command of the
same number cannot turn it into a success. `QuietInv` says how far the camera is: each
result says whether the camera refused, and for each setting the last command it
executed counts (`InStep`). `Means` is about the body alone: its last command for a
setting gives it the value the body means, which rests on the order of
`ApplyDeviceConfig`. `SizeInv` allows the camera to be ahead of the configuration by
the size of the request under way, which is the first command of the body and the
only one about video (`SizeFirst`), so that `streamCommandOK` speaks of it. `OneSize`
names every field that may be found bad after the size, the audio stream among them.

## 12. Packets and cipher: `WireFormat`

`keyFromPSK`, `sendDRWPacket`, `sendDRWAck`, `encrypt`, `decryptInto` and
`parsePacket`, one byte per step, for bytes of `W` values, any key table and any
`Xor` that undoes itself. `outIndex` is a word and wraps; an index that could not
be sent is used up (`SendFails`). `wire` runs bytes of three bits, so all
64 indices, with two keys and five payloads, whose bytes are the smallest and
largest.

`RoundTrip`: the peer parses type, size, channel, index and data as sent. It
rests on `Deciphered` (decryption gives back what was encrypted; both sides feed back
the ciphertext, so a slip on one side spoils everything after it).
`SessionProofs` proves both and the types for every width that is a multiple
of four, every key and table, and payloads of any length that fits its field.
The invariants say that the ciphertext so far is the encryption of the packet
byte by byte, and that the packet in flight is the one `sent` describes.

## 13. Profiles: `CameraProfile`

What POST, PATCH, the form of the web interface, provisioning and
`setCameraProfileSize` make of one profile, field by field. `Effective` are the
accessors of `CameraConfig`, `NormalizeCamera` is the function with its fallbacks
and clamps, `Form` is `publicConfig` as `renderCameraConfigForm` shows it and
`readForm` sends it back, which leaves out the fields of a details section that is
closed (`Expert`). Requests name some fields; one that cannot be read
counts as not given. Locks, saves and the runtime are in `CameraConfigStore`;
`verbose` stands for the overlay switches too, `asked` is a history variable.

Run `profile`: any sequence of 15 bodies, four edits of the form with that section open or closed, four
provisionings and two sizes, from a full profile, a bare one, an empty one or
none. `OnlyWhatIsAsked`: nothing in effect changes that a request is not about,
although defaults are stored and fields filled from one another; a change of the
IP counts as a change of the discovery address only where that was never given.
That is why a camera that was added with its IP alone goes on searching at the old
address after a change of the IP, while `expectedAddress` follows: the default of
`discovery` has been stored by then.

Proofs (`CameraConfigStoreProofs`): `ProfileTypeOK`, that numbers stay in range, and
`OnlyWhatIsAsked`, for all bodies, edits of the form, setups, sizes and files there
are. Every request ends in `NormalizeCamera`, so both rest on what it does to a field:
one that is not in the body is taken from what is in effect (`Taken`), and what is in
effect goes through defaults and limits unchanged (`Idempotent`); a number that is
stored has been brought within its range.

## 14. Findings

`runtime_peer`: `OnConnected` does not ask whether its session is still
current. If a Stop comes between the P2P_RDY packet and the goroutine it
spawned, `connectedAt`, `peerAddress` and `peerPort` belong to a session that is
gone, where the API documentation (`bkcam-server/README.md:119`) promises the
peer of the current session.

Other behaviour that the models led to, and that the properties are stated around:
overlapping device-config or provisioning requests may leave a runtime with another
profile than the configuration, and provisioning that fails at its end leaves it the setup
profile without any overlap (section 5); a size that cannot be saved is configured but not
streamed (section 11); a preset beside a stream mode, and a
bad field after a size, may leave the camera with another size (section 11); the
discovery address that stays behind a changed IP (section 13); and `restart` keeps
`lastVideoAt` while `streamLoop` measures a dead stream from the last frame, so
that after a stall a camera that needs longer than the throttle to connect and send
a frame is restarted for ever, although one that never sent a frame gets the full
window (section 8: with `Reconnect` and `FirstFrame` raised to 2, a camera that gets
stuck once makes `VideoComesBack` fail).

## 15. What is only model-checked, and what is missing

Liveness under fairness is beyond the proof system and only checked:
`SessionComesBack`, `DeadSessionReplaced`, `ClosedSessionEnds`, `CaughtUp`,
`ForgottenLeave`, `VideoComesBack`, `LinksAgain`, `Acknowledged` and
`StreamFromConfig`. All other properties of the passing runs are proved as well.

What the proofs assume of the constants is stated where a module declares them
(`ASSUME`), and TLC evaluates it on every run. `Applied` and `SizeFits` are proved under `Alone`
and the circumstances they name themselves. Nothing else is taken on trust.

Not modelled:

* pages, translations, overlays, JPEG validation and decoding, metrics: they
  format or render what the modelled state gives and hold no protocol state;
* `AudioProcessor`, the filter after the decoder: floating-point arithmetic on
  samples, without control that anything else depends on;
* the legacy Node backend (`bkcam-server`), `PPPP`, `a9serv`, `aiopppp` and the
  dissector: not part of the program. Their documents are quoted where they say
  what the program or the protocol is to do.

What no property covers of a hazard is in its note in `PROJECT.json`, with the reason: in
most of these cases the code allows what might be called a fault, and no line of the
repository says otherwise.

Deadlock is not checked where the modelled system may stop: a removed or disabled
runtime, requests and streams that have ended (`CHECK_DEADLOCK FALSE` in the
configurations concerned). Bounds: `Sessions`, `MaxTimers`, `MaxEvents`,
`LastChunk`, `LastPacket`, `MaxRequests`, `MaxCrashes`, `MaxCalls`,
`MaxAnswers`, `MaxUpdates`, `MaxPieces`, `MaxServed`, `Bounds`, `MaxPorts`,
`MaxPunch`, `MaxNet`; each is named where its module declares it.
