--------------------------- MODULE CameraRuntime ---------------------------
(***************************************************************************)
(* The life cycle of the PPPP sessions of one CameraRuntime                *)
(* (bkcam-go/main.go).  A runtime keeps at most one current session in     *)
(* rt.pppp.  Start installs a session and launches its goroutines (Run,    *)
(* healthLoop, streamLoop; Run launches discoveryLoop), Stop takes it out  *)
(* and closes it, restart is Stop followed by a timer that calls Start.    *)
(* Everything else calls these three from goroutines of its own: socket    *)
(* errors, the two watchdog loops, HTTP handlers, and the API handlers     *)
(* that change or delete the profile under App.mu.                         *)
(*                                                                         *)
(* One action is one critical section of rt.mu, or one step that other     *)
(* goroutines can observe (a socket opened, a goroutine launched).  Time   *)
(* is abstract: a timeout may be seen at any tick that its guard allows,   *)
(* the cooldown of restart is a flag that an action of its own clears.     *)
(***************************************************************************)
EXTENDS Naturals, FiniteSets

CONSTANTS
  Sessions,     \* identities of PPPP values, one per NewPPPP call
  NoSession,    \* the nil *PPPP
  Cfgs,         \* camera profiles
  EnabledCfgs,  \* those with enabled() = true
  Loops,        \* the watchdogs of a session: healthLoop and streamLoop
  Clients,      \* HTTP handler goroutines that work on this runtime
  MaxTimers,    \* bound: restart timers pending at once
  MaxEvents,    \* bound: socket failures and HTTP requests together
  Prompt        \* no goroutine or timer is more than restartCooldown (5s) late

ASSUME SessionsAssumption == NoSession \notin Sessions
ASSUME CfgsAssumption == EnabledCfgs \subseteq Cfgs
ASSUME LoopsAssumption == Loops \subseteq {"health", "stream"}
ASSUME BoundsAssumption == MaxTimers \in Nat /\ MaxEvents \in Nat
ASSUME PromptAssumption == Prompt \in BOOLEAN

SessionKinds == Loops \cup {"run", "disc"}
App == <<"app", NoSession>>       \* the API handler that holds App.mu, or main
Goroutines == (SessionKinds \X Sessions) \cup ({"client"} \X Clients) \cup {App}

\* Where a goroutine is.  "restart" is the entry of restart, "stop" and
\* "close" are the two halves of Stop; "has" is a handler that holds rt.
Phases == {"none", "launched", "loop", "done", "exited", "idle", "has",
           "restart", "stop", "close", "setcfg", "start"}

VARIABLES
  cfg,        \* rt.cfg
  pppp,       \* rt.pppp
  peer,       \* the session whose OnConnected wrote connectedAt, peerAddress
              \* and peerPort; NoSession when they are zero
  cooldown,   \* lastRestartAt lies within restartCooldown
  armed,      \* time.AfterFunc(1500ms, rt.Start) timers that have not fired
  removed,    \* the runtime has been taken out of App.runtimes
  events,     \* socket failures and HTTP requests so far, for the bound
  nextCfg,    \* the argument of the UpdateConfig call in progress
  pc,         \* phase of every goroutine
  holds,      \* local pp of Stop: the session a goroutine is about to close
  used,       \* sessions that NewPPPP has returned
  sock,       \* sessions whose UDP socket is open
  closed,     \* sessions on which Close has run (p.closed, p.ctx cancelled)
  handshake   \* isConnected of a session and the OnConnected goroutine

rtVars   == <<cfg, pppp, peer, cooldown, armed, removed, events, nextCfg>>
sessVars == <<used, sock, closed, handshake>>
vars     == <<rtVars, pc, holds, sessVars>>

\* The runtime, its goroutines and its sessions keep their types: in particular the
\* number of armed timers never falls below 0.
TypeOK ==
  /\ cfg \in Cfgs /\ nextCfg \in Cfgs
  /\ pppp \in Sessions \cup {NoSession}
  /\ peer \in Sessions \cup {NoSession}
  /\ cooldown \in BOOLEAN /\ removed \in BOOLEAN
  /\ armed \in Nat /\ events \in Nat
  /\ pc \in [Goroutines -> Phases]
  /\ holds \in [Goroutines -> Sessions \cup {NoSession}]
  /\ used \subseteq Sessions /\ sock \subseteq Sessions /\ closed \subseteq Sessions
  /\ handshake \in [Sessions -> {"none", "spawned", "done"}]

Enabled == cfg \in EnabledCfgs

\* main or upsertRuntimeLocked has made the runtime and calls Start if enabled.
Init ==
  /\ cfg \in Cfgs /\ nextCfg = cfg
  /\ pppp = NoSession /\ peer = NoSession
  /\ cooldown = FALSE /\ armed = 0 /\ removed = FALSE /\ events = 0
  /\ pc = [g \in Goroutines |->
             IF g = App THEN "start" ELSE IF g[1] = "client" THEN "idle" ELSE "none"]
  /\ holds = [g \in Goroutines |-> NoSession]
  /\ used = {} /\ sock = {} /\ closed = {}
  /\ handshake = [s \in Sessions |-> "none"]

Event == events < MaxEvents /\ events' = events + 1

Goto(g, from, to) ==
  /\ pc[g] = from
  /\ pc' = [pc EXCEPT ![g] = to]

-----------------------------------------------------------------------------
(* Start.                                                                  *)

\* (Bug...: a plausible slip in the definition that follows, which the
\* properties must find; no specification uses one.)

BugStartLocked ==
  \/ ~Enabled /\ UNCHANGED <<pppp, used>>
  \/ /\ Enabled
     /\ \E s \in Sessions \ used : pppp' = s /\ used' = used \cup {s}

\* The critical section of Start: a no-op while a session is installed or the
\* profile is disabled, otherwise NewPPPP makes the current session.
StartLocked ==
  \/ /\ pppp # NoSession \/ ~Enabled
     /\ UNCHANGED <<pppp, used>>
  \/ /\ pppp = NoSession /\ Enabled
     /\ \E s \in Sessions \ used :
          /\ pppp' = s
          /\ used' = used \cup {s}

\* The rest of Start: set the callbacks, then go Run, healthLoop, streamLoop.
Launch(s) ==
  /\ s \in used
  /\ pc[<<"run", s>>] = "none"
  /\ pc' = [g \in Goroutines |->
              IF g = <<"run", s>> THEN "launched"
              ELSE IF g[1] \in Loops /\ g[2] = s THEN "loop" ELSE pc[g]]
  /\ UNCHANGED <<rtVars, holds, sessVars>>

\* The timer of restart fires: rt.Start() in a goroutine of its own.
TimerFires ==
  /\ armed > 0
  /\ armed' = armed - 1
  /\ StartLocked
  /\ UNCHANGED <<cfg, peer, cooldown, removed, events, nextCfg, pc, holds, sock, closed, handshake>>

-----------------------------------------------------------------------------
(* Run, discoveryLoop and the packets they exchange.                       *)

\* ListenUDP succeeds, p.conn is set and discoveryLoop launched.  Run looks at
\* neither p.closed nor p.ctx here.
Listen(s) ==
  /\ pc[<<"run", s>>] = "launched"
  /\ pc' = [pc EXCEPT ![<<"run", s>>] = "loop", ![<<"disc", s>>] = "launched"]
  /\ sock' = sock \cup {s}
  /\ UNCHANGED <<rtVars, holds, used, closed, handshake>>

\* discoveryLoop resolves its destination and sends the first probe.
Resolve(s) ==
  /\ Goto(<<"disc", s>>, "launched", "loop")
  /\ UNCHANGED <<rtVars, holds, sessVars>>

\* The socket fails: ListenUDP, a read whose context is not cancelled, or the
\* resolver of discoveryLoop, while Run goes on reading.  OnClose calls restart,
\* for whichever session is current by then.
SocketFails(s) ==
  /\ Event
  /\ \/ Goto(<<"run", s>>, "launched", "restart")
     \/ s \notin closed /\ Goto(<<"run", s>>, "loop", "restart")
     \/ Goto(<<"disc", s>>, "launched", "restart")
  /\ UNCHANGED <<cfg, pppp, peer, cooldown, armed, removed, nextCfg, holds, sessVars>>

\* The first P2P_RDY of the camera a probe has reached: setRemote, OnConnected
\* in a goroutine of its own, and discoveryLoop stops probing.  (It also stops
\* when the session is closed; nothing depends on that.)
P2PReady(s) ==
  /\ pc[<<"run", s>>] = "loop" /\ s \in sock
  /\ Goto(<<"disc", s>>, "loop", "done")
  /\ handshake' = [handshake EXCEPT ![s] = "spawned"]
  /\ UNCHANGED <<rtVars, holds, used, sock, closed>>

\* OnConnected writes connectedAt, peerAddress and peerPort of the runtime;
\* it does not ask whether its session is still the current one.
OnConnected(s) ==
  /\ handshake[s] = "spawned"
  /\ handshake' = [handshake EXCEPT ![s] = "done"]
  /\ peer' = s
  /\ UNCHANGED <<cfg, pppp, cooldown, armed, removed, events, nextCfg, pc, holds,
                 used, sock, closed>>

BugRunEnds(s) ==
  /\ s \in closed /\ pppp = NoSession
  /\ Goto(<<"run", s>>, "loop", "exited")
  /\ sock' = sock \ {s}
  /\ UNCHANGED <<rtVars, holds, used, closed, handshake>>

\* A read fails, by the closed socket or the one-second deadline, with the
\* context cancelled: Run returns and its deferred Close closes the socket.
RunEnds(s) ==
  /\ s \in closed
  /\ Goto(<<"run", s>>, "loop", "exited")
  /\ sock' = sock \ {s}
  /\ UNCHANGED <<rtVars, holds, used, closed, handshake>>

-----------------------------------------------------------------------------
(* The watchdog loops.  A tick reads rt.pppp and the times under RLock.    *)

BugLoopExits(k, s) ==
  /\ peer = NoSession
  /\ Goto(<<k, s>>, "loop", "exited")
  /\ UNCHANGED <<rtVars, holds, sessVars>>

\* The tick finds no session and the loop returns.
LoopExits(k, s) ==
  /\ pppp = NoSession
  /\ Goto(<<k, s>>, "loop", "exited")
  /\ UNCHANGED <<rtVars, holds, sessVars>>

\* healthLoop finds the connect timeout (not connected) or the traffic timeout
\* (connected); streamLoop finds dead media of a connected session.  The loop
\* watches whichever session is current, not the one it was launched with.
Timeout(k, s) ==
  /\ pppp # NoSession
  /\ k = "health" \/ peer # NoSession
  /\ Goto(<<k, s>>, "loop", "restart")
  /\ UNCHANGED <<rtVars, holds, sessVars>>

-----------------------------------------------------------------------------
(* restart and Stop, whoever calls them.                                   *)

BugAfter(g, restarted) == IF g[1] = "client" THEN "idle" ELSE "exited"

\* Where a caller of restart goes when restart returns: a loop goes on after
\* "throttled" and returns after a restart; Run and discoveryLoop return
\* either way; a handler is done.
After(g, restarted) ==
  CASE g[1] \in Loops            -> IF restarted THEN "exited" ELSE "loop"
    [] g[1] \in {"run", "disc"}  -> "exited"
    [] OTHER                     -> "idle"

\* The deferred conn.Close of Run when Run is the caller that returns.
SockAfter(g, open) == IF g[1] = "run" THEN open \ {g[2]} ELSE open

RestartThrottled(g) ==
  /\ cooldown
  /\ Goto(g, "restart", After(g, FALSE))
  /\ sock' = SockAfter(g, sock)
  /\ UNCHANGED <<rtVars, holds, used, closed, handshake>>

RestartBegins(g) ==
  /\ ~cooldown
  /\ armed < MaxTimers
  /\ Goto(g, "restart", "stop")
  /\ cooldown' = TRUE
  /\ UNCHANGED <<cfg, pppp, peer, armed, removed, events, nextCfg, holds, sessVars>>

\* The critical section of Stop.
StopTake(g) ==
  /\ Goto(g, "stop", "close")
  /\ holds' = [holds EXCEPT ![g] = pppp]
  /\ pppp' = NoSession
  /\ peer' = NoSession
  /\ UNCHANGED <<cfg, cooldown, armed, removed, events, nextCfg, sessVars>>

BugCloseTaken(g) ==
  /\ closed' = closed \cup ({holds[g]} \ {NoSession})
  /\ sock' = SockAfter(g, sock)
  /\ holds' = [holds EXCEPT ![g] = NoSession]

\* The rest of Stop, pp.Close(): it cancels the context and closes the socket
\* if Run has opened it by now, else the socket that Run opens later stays open.
CloseTaken(g) ==
  /\ closed' = closed \cup ({holds[g]} \ {NoSession})
  /\ sock' = SockAfter(g, sock \ {holds[g]})
  /\ holds' = [holds EXCEPT ![g] = NoSession]

BugRestartCloses(g) ==
  /\ g # App
  /\ Goto(g, "close", After(g, TRUE))
  /\ CloseTaken(g)
  /\ UNCHANGED <<cfg, pppp, peer, cooldown, armed, removed, events, nextCfg, used, handshake>>

\* restart goes on after Stop: it arms the timer and returns true.
RestartCloses(g) ==
  /\ g # App
  /\ Goto(g, "close", After(g, TRUE))
  /\ CloseTaken(g)
  /\ armed' = armed + 1
  /\ UNCHANGED <<cfg, pppp, peer, cooldown, removed, events, nextCfg, used, handshake>>

\* restartCooldown has passed since lastRestartAt: if nobody is late, the
\* restart that set it has closed the session and its 1.5s timer has fired.
CooldownExpires ==
  /\ cooldown
  /\ Prompt => armed = 0 /\ \A g \in Goroutines \ {App} : pc[g] \notin {"stop", "close"}
  /\ cooldown' = FALSE
  /\ UNCHANGED <<cfg, pppp, peer, armed, removed, events, nextCfg, pc, holds, sessVars>>

-----------------------------------------------------------------------------
(* HTTP handlers that have looked the runtime up (App.runtime, under the   *)
(* read lock of App.mu) and use it after the lock is released.             *)

ClientLooksUp(c) ==
  /\ ~removed /\ pc[App] = "idle"
  /\ Event
  /\ Goto(<<"client", c>>, "idle", "has")
  /\ UNCHANGED <<cfg, pppp, peer, cooldown, armed, removed, nextCfg, holds, sessVars>>

\* ServeVideo, ServeAudio, ServeSnapshot and WaitForSession call Start.
ClientStarts(c) ==
  /\ pc[<<"client", c>>] = "has"
  /\ StartLocked
  /\ UNCHANGED <<cfg, peer, cooldown, armed, removed, events, nextCfg, pc, holds,
                 sock, closed, handshake>>

\* POST restart, or recoverVideoForClient of a viewer that sees no video.
ClientRestarts(c) ==
  /\ Goto(<<"client", c>>, "has", "restart")
  /\ UNCHANGED <<rtVars, holds, sessVars>>

ClientLeaves(c) ==
  /\ Goto(<<"client", c>>, "has", "idle")
  /\ UNCHANGED <<rtVars, holds, sessVars>>

-----------------------------------------------------------------------------
(* POST, PATCH, DELETE and provisioning, under App.mu.                     *)

\* upsertRuntimeLocked of an existing runtime: UpdateConfig(c) calls Stop.
UpdateConfig(c) ==
  /\ ~removed
  /\ Event
  /\ Goto(App, "idle", "stop")
  /\ nextCfg' = c
  /\ UNCHANGED <<cfg, pppp, peer, cooldown, armed, removed, holds, sessVars>>

\* removeRuntimeLocked: Stop, and the runtime leaves the map.
Remove ==
  /\ ~removed
  /\ Event
  /\ Goto(App, "idle", "stop")
  /\ removed' = TRUE
  /\ UNCHANGED <<cfg, pppp, peer, cooldown, armed, nextCfg, holds, sessVars>>

AppCloses ==
  /\ Goto(App, "close", IF removed THEN "idle" ELSE "setcfg")
  /\ CloseTaken(App)
  /\ UNCHANGED <<rtVars, used, handshake>>

BugSetConfig ==
  /\ Goto(App, "setcfg", IF Enabled THEN "start" ELSE "idle")
  /\ cfg' = nextCfg
  /\ peer' = NoSession
  /\ UNCHANGED <<pppp, cooldown, armed, removed, events, nextCfg, holds, sessVars>>

\* The critical section of UpdateConfig: the profile, and everything the old
\* session left behind, a stale connectedAt and peer among it.
SetConfig ==
  /\ Goto(App, "setcfg", "start")
  /\ cfg' = nextCfg
  /\ peer' = NoSession
  /\ UNCHANGED <<pppp, cooldown, armed, removed, events, nextCfg, holds, sessVars>>

\* UpdateConfig, upsertRuntimeLocked or main calls Start.
AppStarts ==
  /\ Goto(App, "start", "idle")
  /\ StartLocked
  /\ UNCHANGED <<cfg, peer, cooldown, armed, removed, events, nextCfg, holds,
                 sock, closed, handshake>>

-----------------------------------------------------------------------------
SessionStep(s) ==
  \/ Launch(s)
  \/ Listen(s) \/ SocketFails(s) \/ RunEnds(s)
  \/ Resolve(s) \/ P2PReady(s) \/ OnConnected(s)
  \/ \E k \in Loops : LoopExits(k, s) \/ Timeout(k, s)

RestartStep(g) ==
  RestartThrottled(g) \/ RestartBegins(g) \/ StopTake(g) \/ RestartCloses(g)

ClientStep(c) ==
  ClientLooksUp(c) \/ ClientStarts(c) \/ ClientRestarts(c) \/ ClientLeaves(c)

AppStep ==
  (\E c \in Cfgs : UpdateConfig(c)) \/ Remove \/ AppCloses \/ SetConfig \/ AppStarts

Next ==
  \/ \E s \in Sessions : SessionStep(s)
  \/ \E g \in Goroutines : RestartStep(g)
  \/ \E c \in Clients : ClientStep(c)
  \/ AppStep
  \/ TimerFires
  \/ CooldownExpires

Spec == Init /\ [][Next]_vars

\* With no Run reading, nothing refreshes lastTraffic and the tick after the
\* timeout must see it; as long as one reads, the camera decides.
SilentTimeout(s) ==
  /\ \A z \in Sessions : pc[<<"run", z>>] # "loop"
  /\ Timeout("health", s)

\* The Go scheduler runs every goroutine that can take a step, timers fire and
\* the clock moves on.  A closed socket fails the pending read; a Run whose
\* socket outlived Close stops only if the camera happens to be silent for a
\* second, which nothing guarantees.  Nothing is assumed of the camera, of
\* clients, or of API calls that have not begun.
FairSession(s) ==
  /\ WF_vars(Launch(s))
  /\ WF_vars(Listen(s))
  /\ WF_vars(s \notin sock /\ RunEnds(s))
  /\ WF_vars(Resolve(s))
  /\ WF_vars(OnConnected(s))
  /\ \A k \in Loops : WF_vars(LoopExits(k, s))
  /\ WF_vars(SilentTimeout(s))

Fairness ==
  /\ \A s \in Sessions : FairSession(s)
  /\ \A g \in Goroutines : WF_vars(RestartStep(g))
  /\ WF_vars(AppCloses) /\ WF_vars(SetConfig) /\ WF_vars(AppStarts)
  /\ WF_vars(TimerFires)
  /\ WF_vars(CooldownExpires)

FairSpec == Spec /\ Fairness
-----------------------------------------------------------------------------
(* Safety.                                                                 *)

\* Ownership of sessions.  Every session NewPPPP returned is the current one,
\* in the hands of exactly one Stop that will close it, or closed: no open
\* session is forgotten, none is closed twice or while it is still current.
\* This is what the split of Stop into a locked and an unlocked half risks.
Ownership ==
  /\ closed \subseteq used
  /\ pppp # NoSession => pppp \in used \ closed
  /\ \A g \in Goroutines : holds[g] # NoSession =>
       holds[g] \in used \ closed /\ holds[g] # pppp /\ pc[g] = "close"
  /\ \A g, h \in Goroutines : holds[g] = holds[h] /\ g # h => holds[g] = NoSession
  /\ \A s \in used \ closed : pppp = s \/ \E g \in Goroutines : holds[g] = s

\* The current session is watched: its goroutines are still to be launched, or
\* both its loops run and will look at rt.pppp again, unless their own restart
\* is about to take it out.  A loop never returns while its session is current,
\* although it tests rt.pppp and not its own session.
Watched ==
  pppp # NoSession =>
    \/ pc[<<"run", pppp>>] = "none"
    \/ \A k \in Loops : pc[<<k, pppp>>] \in {"loop", "restart", "stop"}

\* What Watched rests on: the loops of a session are launched with its Run, and
\* one that has returned, or is past the locked half of Stop, left another
\* session current or none.
LoopsLive ==
  \A s \in Sessions, k \in Loops :
    /\ pc[<<"run", s>>] = "none" => pc[<<k, s>>] = "none"
    /\ pc[<<"run", s>>] # "none" =>
         s \in used /\ pc[<<k, s>>] \in {"loop", "restart", "stop", "close", "exited"}
    /\ pc[<<k, s>>] \in {"close", "exited"} => pppp # s

\* A restart is never forgotten: while an enabled runtime has no session, a
\* timer is armed, a restart is about to arm one, or the API handler that
\* stopped it is about to start it.
StartCommitted ==
  pppp = NoSession /\ Enabled /\ ~removed =>
    \/ armed > 0
    \/ \E g \in Goroutines \ {App} : pc[g] = "close"
    \/ pc[App] \in {"close", "setcfg", "start"}

\* discoveryLoop is launched by a Run that has opened its socket.
DiscAfterRun ==
  \A s \in Sessions :
    pc[<<"run", s>>] \in {"none", "launched"} => pc[<<"disc", s>>] = "none"

\* The inductive invariant of the proofs.
IInv == TypeOK /\ Ownership /\ LoopsLive /\ DiscAfterRun /\ StartCommitted

\* Sessions whose socket outlived their Close.
Zombies == {s \in closed : s \in sock}

\* A closed session keeps a socket only if Close ran before Run had opened it:
\* a Close that finds the socket always closes it for good.
ZombiesUnopened ==
  [][\A s \in Zombies' \ Zombies : pc[<<"run", s>>] = "launched"]_vars

\* The peer that Status reports is the peer of the current session.
PeerIsCurrent == peer # NoSession => peer = pppp

-----------------------------------------------------------------------------
(* Liveness.                                                               *)

\* An enabled runtime without a session gets one, whatever stopped it, unless
\* the camera is removed or disabled first (or the bound on sessions is met).
SessionComesBack ==
  (pppp = NoSession /\ Enabled /\ ~removed)
    ~> (pppp # NoSession \/ removed \/ ~Enabled \/ used = Sessions)

\* A session whose Run has returned, so that no packet of it is read any more,
\* does not stay current, although OnClose gives up when restart is throttled:
\* the health loop replaces it.  The exception is a zombie session, whose
\* packets keep the runtime looking alive.
DeadSessionReplaced ==
  \A s \in Sessions :
    (pppp = s /\ pc[<<"run", s>>] = "exited") ~> (pppp # s \/ Zombies # {})

\* Every session that is closed stops reading, zombies apart.
ClosedSessionEnds ==
  \A s \in Sessions :
    (s \in closed) ~> (pc[<<"run", s>>] = "exited" \/ s \in Zombies)
=============================================================================
