------------------------ MODULE CameraRuntimeProofs ------------------------
(***************************************************************************)
(* Proofs about CameraRuntime for any number of sessions, profiles,        *)
(* handlers and pending timers, prompt or not.                             *)
(***************************************************************************)
EXTENDS CameraRuntime, TLAPS

\* The goroutines of every kind are goroutines, and no two of them coincide.
LEMMA GoroutineKinds ==
  /\ App \in Goroutines
  /\ \A s \in Sessions : <<"run", s>> \in Goroutines /\ <<"disc", s>> \in Goroutines
  /\ \A k \in Loops, s \in Sessions : <<k, s>> \in Goroutines
  /\ \A c \in Clients : <<"client", c>> \in Goroutines
  /\ \A s \in Sessions : <<"run", s>> # App /\ <<"disc", s>> # App
  /\ \A k \in Loops, s \in Sessions : <<k, s>> # App /\ <<k, s>> # <<"run", s>>
  /\ \A s \in Sessions : <<"run", s>> \notin Loops \X Sessions
                         /\ <<"disc", s>> \notin Loops \X Sessions
  /\ \A c \in Clients : <<"client", c>> \notin Loops \X Sessions /\ <<"client", c>> # App
  /\ App \notin Loops \X Sessions
  /\ \A k \in Loops : k # "run" /\ k # "disc" /\ k # "client" /\ k # "app"
BY LoopsAssumption DEF Goroutines, SessionKinds, App

\* restart returns a goroutine to one of three phases.
LEMMA AfterPhases ==
  ASSUME NEW g, NEW b \in BOOLEAN
  PROVE  After(g, b) \in {"exited", "loop", "idle"}
BY DEF After

LEMMA AfterLoop ==
  ASSUME NEW k \in Loops, NEW s \in Sessions
  PROVE  After(<<k, s>>, FALSE) = "loop" /\ After(<<k, s>>, TRUE) = "exited"
BY GoroutineKinds DEF After

LEMMA StartLockedTyped ==
  ASSUME TypeOK, StartLocked
  PROVE  pppp' \in Sessions \cup {NoSession} /\ used' \subseteq Sessions
BY DEF TypeOK, StartLocked

LEMMA CloseTakenTyped ==
  ASSUME TypeOK, NEW g \in Goroutines, CloseTaken(g)
  PROVE  /\ closed' \subseteq Sessions /\ sock' \subseteq Sessions
         /\ holds' \in [Goroutines -> Sessions \cup {NoSession}]
BY DEF TypeOK, CloseTaken, SockAfter

-----------------------------------------------------------------------------
LEMMA InitTyped == Init => TypeOK
<1>1. Init => pc \in [Goroutines -> Phases]
  BY DEF Init, Phases
<1>2. Init => holds \in [Goroutines -> Sessions \cup {NoSession}]
  BY DEF Init
<1>3. Init => handshake \in [Sessions -> {"none", "spawned", "done"}]
  BY DEF Init
<1>4. Init => /\ cfg \in Cfgs /\ nextCfg \in Cfgs
              /\ pppp = NoSession /\ peer = NoSession
              /\ cooldown \in BOOLEAN /\ removed \in BOOLEAN
              /\ armed = 0 /\ events = 0
  BY DEF Init
<1>5. Init => used = {} /\ sock = {} /\ closed = {}
  BY DEF Init
<1> QED BY <1>1, <1>2, <1>3, <1>4, <1>5 DEF TypeOK

LEMMA StepTyped ==
  ASSUME TypeOK, [Next]_vars
  PROVE  TypeOK'
<1> USE GoroutineKinds
<1>1. ASSUME NEW s \in Sessions, SessionStep(s) PROVE TypeOK'
  <2>1. CASE Launch(s)
    BY <2>1 DEF Launch, TypeOK, Phases, rtVars, sessVars
  <2>2. CASE Listen(s)
    BY <2>2 DEF Listen, TypeOK, Phases, rtVars
  <2>3. CASE SocketFails(s)
    BY <2>3 DEF SocketFails, Event, Goto, TypeOK, Phases, sessVars
  <2>4. CASE RunEnds(s)
    BY <2>4 DEF RunEnds, Goto, TypeOK, Phases, rtVars
  <2>5. CASE Resolve(s)
    BY <2>5 DEF Resolve, Goto, TypeOK, Phases, rtVars, sessVars
  <2>6. CASE P2PReady(s)
    BY <2>6 DEF P2PReady, Goto, TypeOK, Phases, rtVars
  <2>7. CASE OnConnected(s)
    BY <2>7 DEF OnConnected, TypeOK
  <2>8. ASSUME NEW k \in Loops, LoopExits(k, s) \/ Timeout(k, s) PROVE TypeOK'
    BY <2>8 DEF LoopExits, Timeout, Goto, TypeOK, Phases, rtVars, sessVars
  <2> QED BY <1>1, <2>1, <2>2, <2>3, <2>4, <2>5, <2>6, <2>7, <2>8 DEF SessionStep
<1>2. ASSUME NEW g \in Goroutines, RestartStep(g) PROVE TypeOK'
  <2>1. CASE RestartThrottled(g)
    <3>1. After(g, FALSE) \in Phases
      BY AfterPhases DEF Phases
    <3> QED BY <2>1, <3>1 DEF RestartThrottled, Goto, SockAfter, TypeOK, rtVars
  <2>2. CASE RestartBegins(g)
    BY <2>2 DEF RestartBegins, Goto, TypeOK, Phases, sessVars
  <2>3. CASE StopTake(g)
    BY <2>3 DEF StopTake, Goto, TypeOK, Phases, sessVars
  <2>4. CASE RestartCloses(g)
    <3>1. After(g, TRUE) \in Phases
      BY AfterPhases DEF Phases
    <3>2. /\ closed' \subseteq Sessions /\ sock' \subseteq Sessions
          /\ holds' \in [Goroutines -> Sessions \cup {NoSession}]
      BY <2>4, CloseTakenTyped DEF RestartCloses
    <3>3. pc' \in [Goroutines -> Phases]
      BY <2>4, <3>1 DEF RestartCloses, Goto, TypeOK
    <3>4. armed' \in Nat
      BY <2>4 DEF RestartCloses, TypeOK
    <3> QED BY <2>4, <3>2, <3>3, <3>4 DEF RestartCloses, TypeOK
  <2> QED BY <1>2, <2>1, <2>2, <2>3, <2>4 DEF RestartStep
<1>3. ASSUME NEW c \in Clients, ClientStep(c) PROVE TypeOK'
  <2>1. CASE ClientLooksUp(c)
    BY <2>1 DEF ClientLooksUp, Event, Goto, TypeOK, Phases, sessVars
  <2>2. CASE ClientStarts(c)
    BY <2>2, StartLockedTyped DEF ClientStarts, TypeOK
  <2>3. CASE ClientRestarts(c) \/ ClientLeaves(c)
    BY <2>3 DEF ClientRestarts, ClientLeaves, Goto, TypeOK, Phases, rtVars, sessVars
  <2> QED BY <1>3, <2>1, <2>2, <2>3 DEF ClientStep
<1>4. CASE AppStep
  <2>1. ASSUME NEW c \in Cfgs, UpdateConfig(c) PROVE TypeOK'
    BY <2>1 DEF UpdateConfig, Event, Goto, TypeOK, Phases, sessVars
  <2>2. CASE Remove
    BY <2>2 DEF Remove, Event, Goto, TypeOK, Phases, sessVars
  <2>3. CASE AppCloses
    BY <2>3, CloseTakenTyped DEF AppCloses, Goto, TypeOK, Phases, rtVars
  <2>4. CASE SetConfig
    BY <2>4 DEF SetConfig, Goto, TypeOK, Phases, sessVars
  <2>5. CASE AppStarts
    BY <2>5, StartLockedTyped DEF AppStarts, Goto, TypeOK, Phases
  <2> QED BY <1>4, <2>1, <2>2, <2>3, <2>4, <2>5 DEF AppStep
<1>5. CASE TimerFires
  BY <1>5, StartLockedTyped DEF TimerFires, TypeOK
<1>6. CASE CooldownExpires
  BY <1>6 DEF CooldownExpires, TypeOK, sessVars
<1>7. CASE UNCHANGED vars
  BY <1>7 DEF vars, rtVars, sessVars, TypeOK
<1> QED BY <1>1, <1>2, <1>3, <1>4, <1>5, <1>6, <1>7 DEF Next

\* Every variable keeps its type through every step of every goroutine.
THEOREM TypeCorrect == Spec => []TypeOK
BY InitTyped, StepTyped, PTL DEF Spec

-----------------------------------------------------------------------------
\* A step that leaves alone what Ownership speaks of, except that goroutines
\* outside "close" may move, preserves it.
LEMMA OwnershipFrame ==
  ASSUME Ownership, TypeOK, UNCHANGED <<used, closed, pppp, holds>>,
         \A g \in Goroutines : pc[g] = "close" => pc'[g] = "close"
  PROVE  Ownership'
BY DEF Ownership, TypeOK

\* Start makes at most one new session, and only when there is none.
LEMMA OwnershipStart ==
  ASSUME Ownership, TypeOK, StartLocked, UNCHANGED <<closed, holds>>,
         \A g \in Goroutines : pc[g] = "close" => pc'[g] = "close"
  PROVE  Ownership'
<1>1. CASE UNCHANGED <<pppp, used>>
  BY <1>1, OwnershipFrame
<1>2. CASE /\ pppp = NoSession
           /\ \E s \in Sessions \ used : pppp' = s /\ used' = used \cup {s}
  BY <1>2, SessionsAssumption DEF Ownership, TypeOK
<1> QED BY <1>1, <1>2 DEF StartLocked

\* The locked half of Stop moves the current session into the caller's hands.
LEMMA OwnershipTake ==
  ASSUME Ownership, TypeOK, NEW g \in Goroutines, StopTake(g)
  PROVE  Ownership'
<1>1. holds[g] = NoSession
  BY DEF Ownership, StopTake, Goto
<1>2. /\ holds' = [holds EXCEPT ![g] = pppp] /\ pppp' = NoSession
      /\ pc' = [pc EXCEPT ![g] = "close"] /\ used' = used /\ closed' = closed
  BY DEF StopTake, Goto, sessVars
<1>3. \A h \in Goroutines :
        /\ holds'[h] = IF h = g THEN pppp ELSE holds[h]
        /\ pc'[h] = IF h = g THEN "close" ELSE pc[h]
  BY <1>2 DEF TypeOK
<1>4. \A s \in used' \ closed' : pppp' = s \/ \E h \in Goroutines : holds'[h] = s
  <2> SUFFICES ASSUME NEW s \in used \ closed
               PROVE  \E h \in Goroutines : holds'[h] = s
    BY <1>2
  <2>1. CASE pppp = s
    BY <2>1, <1>3
  <2>2. CASE pppp # s
    <3>1. PICK h \in Goroutines : holds[h] = s
      BY <2>2 DEF Ownership
    <3>2. s # NoSession
      BY SessionsAssumption DEF TypeOK
    <3> QED BY <3>1, <3>2, <1>1, <1>3
  <2> QED BY <2>1, <2>2
<1> QED BY <1>1, <1>2, <1>3, <1>4 DEF Ownership, TypeOK

\* The other half closes what the caller holds, if anything.
LEMMA OwnershipClose ==
  ASSUME Ownership, TypeOK, NEW g \in Goroutines, CloseTaken(g), pc[g] = "close",
         UNCHANGED <<used, pppp>>,
         \A h \in Goroutines : h # g => pc'[h] = pc[h]
  PROVE  Ownership'
<1>1. \A h \in Goroutines : holds'[h] = IF h = g THEN NoSession ELSE holds[h]
  BY DEF CloseTaken, TypeOK
<1>2. closed' = closed \cup ({holds[g]} \ {NoSession})
  BY DEF CloseTaken
<1>3. \A s \in used' \ closed' : pppp' = s \/ \E h \in Goroutines : holds'[h] = s
  <2> SUFFICES ASSUME NEW s \in used \ closed, s # holds[g], pppp # s
               PROVE  \E h \in Goroutines : holds'[h] = s
    BY <1>2, SessionsAssumption DEF TypeOK
  <2>1. PICK h \in Goroutines : holds[h] = s
    BY DEF Ownership
  <2> QED BY <2>1, <1>1
<1> QED BY <1>1, <1>2, <1>3 DEF Ownership

-----------------------------------------------------------------------------
\* A step of a goroutine that is no loop, and that neither launches a session
\* nor makes one current, leaves the loops as they were.
LEMMA LoopsFrame ==
  ASSUME LoopsLive, TypeOK, used \subseteq used', pppp' \in {pppp, NoSession},
         \A s \in Sessions : /\ pc'[<<"run", s>>] = "none" <=> pc[<<"run", s>>] = "none"
                             /\ \A k \in Loops : pc'[<<k, s>>] = pc[<<k, s>>]
  PROVE  LoopsLive'
BY SessionsAssumption DEF LoopsLive

\* Start makes a session current whose loops are not launched yet.
LEMMA LoopsStart ==
  ASSUME LoopsLive, TypeOK, StartLocked,
         \A s \in Sessions : /\ pc'[<<"run", s>>] = pc[<<"run", s>>]
                             /\ \A k \in Loops : pc'[<<k, s>>] = pc[<<k, s>>]
  PROVE  LoopsLive'
<1>1. CASE UNCHANGED <<pppp, used>>
  BY <1>1 DEF LoopsLive
<1>2. CASE \E s \in Sessions \ used : pppp' = s /\ used' = used \cup {s}
  BY <1>2 DEF LoopsLive
<1> QED BY <1>1, <1>2 DEF StartLocked

\* A goroutine moves from one phase to another while no session is made
\* current: what is required of the move if the goroutine is a loop.
LEMMA LoopsGoto ==
  ASSUME LoopsLive, TypeOK, NEW g \in Goroutines, NEW to,
         pc' = [pc EXCEPT ![g] = to], used' = used, pppp' \in {pppp, NoSession},
         pc[g] # "none", to # "none",
         \A k \in Loops, s \in Sessions : g = <<k, s>> =>
           /\ to \in {"loop", "restart", "stop", "close", "exited"}
           /\ to \in {"close", "exited"} => pppp' # s
  PROVE  LoopsLive'
<1> SUFFICES ASSUME NEW s \in Sessions, NEW k \in Loops
             PROVE  /\ pc'[<<"run", s>>] = "none" => pc'[<<k, s>>] = "none"
                    /\ pc'[<<"run", s>>] # "none" =>
                         /\ s \in used'
                         /\ pc'[<<k, s>>] \in {"loop", "restart", "stop", "close", "exited"}
                    /\ pc'[<<k, s>>] \in {"close", "exited"} => pppp' # s
  BY DEF LoopsLive
<1> DEFINE R == <<"run", s>>
           L == <<k, s>>
<1>1. R \in Goroutines /\ L \in Goroutines
  BY GoroutineKinds
<1>2. /\ pc'[R] = IF g = R THEN to ELSE pc[R]
      /\ pc'[L] = IF g = L THEN to ELSE pc[L]
  BY <1>1 DEF TypeOK
<1>3. /\ pc[R] = "none" => pc[L] = "none"
      /\ pc[R] # "none" =>
           s \in used /\ pc[L] \in {"loop", "restart", "stop", "close", "exited"}
      /\ pc[L] \in {"close", "exited"} => pppp # s
  BY DEF LoopsLive
<1>4. g = L => /\ to \in {"loop", "restart", "stop", "close", "exited"}
               /\ to \in {"close", "exited"} => pppp' # s
  OBVIOUS
<1>5. pppp' = pppp \/ pppp' # s
  BY SessionsAssumption
<1> HIDE DEF R, L
<1>6. (pc'[R] = "none" <=> pc[R] = "none") /\ (g = L => pc[R] # "none")
  BY <1>2, <1>3
<1>7. pc'[R] = "none" => pc'[L] = "none"
  BY <1>2, <1>3, <1>6
<1>8. pc'[R] # "none" =>
        s \in used' /\ pc'[L] \in {"loop", "restart", "stop", "close", "exited"}
  BY <1>2, <1>3, <1>4, <1>6
<1>9. pc'[L] \in {"close", "exited"} => pppp' # s
  BY <1>2, <1>3, <1>4, <1>5
<1> QED BY <1>7, <1>8, <1>9 DEF R, L

-----------------------------------------------------------------------------
\* A step that leaves the runtime without a session no more than before, and
\* withdraws neither a timer nor a restart nor the handler that will start it.
LEMMA StartFrame ==
  ASSUME StartCommitted, TypeOK, TypeOK',
         pppp' = NoSession /\ Enabled' /\ ~removed' =>
           pppp = NoSession /\ Enabled /\ ~removed,
         armed' >= armed,
         \A g \in Goroutines : pc[g] = "close" => pc'[g] = "close",
         pc[App] \in {"close", "setcfg", "start"} => pc'[App] = pc[App]
  PROVE  StartCommitted'
BY GoroutineKinds DEF StartCommitted, TypeOK

\* Start, wherever it is called, leaves a session or a disabled profile.
LEMMA StartStarts ==
  ASSUME StartLocked, TypeOK, cfg' = cfg
  PROVE  StartCommitted'
BY SessionsAssumption DEF StartLocked, StartCommitted, Enabled, TypeOK

-----------------------------------------------------------------------------
Kept == Ownership' /\ LoopsLive' /\ DiscAfterRun' /\ StartCommitted'

\* A goroutine moves on between phases in which it holds nothing.
LEMMA MoveKeeps ==
  ASSUME IInv, TypeOK', NEW g \in Goroutines, NEW to,
         pc' = [pc EXCEPT ![g] = to],
         pc[g] \notin {"none", "close"}, to \notin {"none", "launched"},
         g = App => pc[g] \notin {"setcfg", "start"},
         UNCHANGED <<used, closed, pppp, holds, armed, cfg>>, removed => removed',
         g[1] \in Loops => \/ to \in {"loop", "restart", "stop"}
                           \/ to \in {"close", "exited"} /\ pppp # g[2]
  PROVE  Kept
<1> USE DEF IInv
<1>1. \A h \in Goroutines : pc'[h] = IF h = g THEN to ELSE pc[h]
  BY DEF TypeOK
<1>2. Ownership'
  BY <1>1, OwnershipFrame
<1>3. LoopsLive'
  <2>1. \A k \in Loops, s \in Sessions : g = <<k, s>> =>
          /\ to \in {"loop", "restart", "stop", "close", "exited"}
          /\ to \in {"close", "exited"} => pppp' # s
    OBVIOUS
  <2>2. used' = used /\ pppp' \in {pppp, NoSession} /\ pc[g] # "none" /\ to # "none"
    OBVIOUS
  <2> QED BY <2>1, <2>2, LoopsGoto
<1>4. DiscAfterRun'
  BY <1>1, GoroutineKinds DEF DiscAfterRun
<1>5. StartCommitted'
  <2>1. armed' >= armed
    BY DEF TypeOK
  <2>2. \A h \in Goroutines : pc[h] = "close" => pc'[h] = "close"
    BY <1>1
  <2>3. pc[App] \in {"close", "setcfg", "start"} => pc'[App] = pc[App]
    BY <1>1, GoroutineKinds
  <2> QED BY <2>1, <2>2, <2>3, StartFrame DEF Enabled
<1> QED BY <1>2, <1>3, <1>4, <1>5 DEF Kept

\* The same for the goroutines that are no loops, in the form the actions have.
LEMMA GotoKeeps ==
  ASSUME IInv, TypeOK', NEW g \in Goroutines, NEW from, NEW to, Goto(g, from, to),
         g \notin Loops \X Sessions,
         from \notin {"none", "close"}, to \notin {"none", "launched"},
         g = App => from \notin {"setcfg", "start"},
         UNCHANGED <<used, closed, pppp, holds, armed, cfg>>, removed => removed'
  PROVE  Kept
<1>1. g[1] \notin Loops
  <2>1. CASE \E k \in SessionKinds, s \in Sessions : g = <<k, s>>
    BY <2>1
  <2>2. CASE \E c \in Clients : g = <<"client", c>>
    BY <2>2, GoroutineKinds
  <2>3. CASE g = App
    BY <2>3, GoroutineKinds DEF App
  <2> QED BY <2>1, <2>2, <2>3 DEF Goroutines
<1> QED BY <1>1, MoveKeeps DEF Goto

\* And for loops.
LEMMA LoopGotoKeeps ==
  ASSUME IInv, TypeOK', NEW k \in Loops, NEW s \in Sessions, NEW from, NEW to,
         Goto(<<k, s>>, from, to),
         from \notin {"none", "close"},
         \/ to \in {"loop", "restart", "stop"}
         \/ to \in {"close", "exited"} /\ pppp # s,
         UNCHANGED <<used, closed, pppp, holds, armed, cfg>>, removed => removed'
  PROVE  Kept
<1> DEFINE L == <<k, s>>
<1>1. L \in Goroutines /\ L # App /\ L[1] = k /\ L[2] = s
  BY GoroutineKinds
<1>2. pc' = [pc EXCEPT ![L] = to] /\ pc[L] = from
  BY DEF Goto
<1> HIDE DEF L
<1> QED BY <1>1, <1>2, MoveKeeps

\* A step that moves no goroutine and touches neither sessions nor timers.
LEMMA UnmovedKeeps ==
  ASSUME IInv, UNCHANGED <<pc, used, closed, pppp, holds, armed, cfg, removed>>
  PROVE  Kept
BY DEF IInv, Kept, Ownership, LoopsLive, DiscAfterRun, StartCommitted, Enabled

\* Start is called by a goroutine that is then done with the runtime.
LEMMA StartKeeps ==
  ASSUME IInv, TypeOK', StartLocked, UNCHANGED <<closed, holds, cfg>>,
         \A g \in Goroutines \ {App} : pc'[g] = pc[g],
         pc[App] # "close" \/ pc'[App] = pc[App]
  PROVE  Kept
<1> USE DEF IInv
<1>1. Ownership'
  <2>1. \A g \in Goroutines : pc[g] = "close" => pc'[g] = "close"
    OBVIOUS
  <2> QED BY <2>1, OwnershipStart
<1>2. \A s \in Sessions : /\ pc'[<<"run", s>>] = pc[<<"run", s>>]
                          /\ pc'[<<"disc", s>>] = pc[<<"disc", s>>]
                          /\ \A k \in Loops : pc'[<<k, s>>] = pc[<<k, s>>]
  BY GoroutineKinds
<1>3. LoopsLive'
  BY <1>2, LoopsStart
<1>4. DiscAfterRun'
  BY <1>2 DEF DiscAfterRun
<1>5. StartCommitted'
  BY StartStarts
<1> QED BY <1>1, <1>3, <1>4, <1>5 DEF Kept

-----------------------------------------------------------------------------
(* One lemma per group of actions: the invariant is kept.                  *)

LEMMA SessionKeeps ==
  ASSUME IInv, TypeOK', NEW s \in Sessions, SessionStep(s)
  PROVE  Kept
<1>0. \A x \in {"run", "disc"} : /\ <<x, s>> \in Goroutines /\ <<x, s>> # App
                                  /\ <<x, s>> \notin Loops \X Sessions
  BY GoroutineKinds
<1>1. CASE Launch(s)
  <2>1. \A g \in Goroutines : pc[g] = "close" => pc'[g] = "close"
    BY <1>1, GoroutineKinds DEF IInv, Launch, LoopsLive, Goroutines, App
  <2>2. pc[App] = pc'[App]
    BY <1>1, GoroutineKinds DEF IInv, Launch, App
  <2>3. Ownership'
    BY <1>1, <2>1, OwnershipFrame DEF IInv, Launch, rtVars, sessVars
  <2>4. StartCommitted'
    BY <1>1, <2>1, <2>2, GoroutineKinds, StartFrame DEF IInv, Launch, rtVars, Enabled, TypeOK
  <2>5. LoopsLive'
    <3> SUFFICES ASSUME NEW z \in Sessions, NEW k \in Loops
                 PROVE  /\ pc'[<<"run", z>>] = "none" => pc'[<<k, z>>] = "none"
                        /\ pc'[<<"run", z>>] # "none" =>
                             /\ z \in used'
                             /\ pc'[<<k, z>>] \in {"loop", "restart", "stop", "close", "exited"}
                        /\ pc'[<<k, z>>] \in {"close", "exited"} => pppp' # z
      BY DEF IInv, LoopsLive
    <3>1. pc'[<<"run", z>>] = IF z = s THEN "launched" ELSE pc[<<"run", z>>]
      BY <1>1, GoroutineKinds DEF IInv, Launch
    <3>2. pc'[<<k, z>>] = IF z = s THEN "loop" ELSE pc[<<k, z>>]
      BY <1>1, GoroutineKinds DEF IInv, Launch
    <3> QED BY <1>1, <3>1, <3>2, GoroutineKinds DEF IInv, Launch, LoopsLive, rtVars, sessVars
  <2>6. DiscAfterRun'
    BY <1>1, GoroutineKinds DEF IInv, Launch, DiscAfterRun
  <2> QED BY <2>3, <2>4, <2>5, <2>6 DEF Kept
<1>2. CASE Listen(s)
  <2>1. pc' = [pc EXCEPT ![<<"run", s>>] = "loop", ![<<"disc", s>>] = "launched"]
    BY <1>2 DEF Listen
  <2>2. /\ \A k \in Loops, z \in Sessions : pc'[<<k, z>>] = pc[<<k, z>>]
        /\ \A z \in Sessions : pc'[<<"run", z>>] = "none" <=> pc[<<"run", z>>] = "none"
    BY <1>2, <2>1, GoroutineKinds DEF IInv, Listen, TypeOK
  <2>3. pc'[App] = pc[App]
    BY <2>1, GoroutineKinds DEF IInv, TypeOK
  <2>4. \A g \in Goroutines : pc[g] = "close" => pc'[g] = "close"
    <3>1. pc[<<"run", s>>] = "launched" /\ pc[<<"disc", s>>] = "none"
      BY <1>2 DEF IInv, Listen, DiscAfterRun
    <3>2. \A g \in Goroutines \ {<<"run", s>>, <<"disc", s>>} : pc'[g] = pc[g]
      BY <2>1, GoroutineKinds DEF IInv, TypeOK
    <3> QED BY <3>1, <3>2
  <2>5. /\ UNCHANGED <<used, closed, pppp, holds, armed, cfg, removed>>
        /\ pppp' \in {pppp, NoSession} /\ used \subseteq used' /\ armed' >= armed
    BY <1>2 DEF IInv, Listen, rtVars, TypeOK
  <2>6. Ownership'
    BY <2>4, <2>5, OwnershipFrame DEF IInv
  <2>7. LoopsLive'
    BY <2>2, <2>5, LoopsFrame DEF IInv
  <2>8. StartCommitted'
    BY <2>3, <2>4, <2>5, GoroutineKinds, StartFrame DEF IInv, Enabled
  <2>9. DiscAfterRun'
    BY <1>2, <2>1, GoroutineKinds DEF IInv, DiscAfterRun, TypeOK
  <2> QED BY <2>6, <2>7, <2>8, <2>9 DEF Kept
<1>3. CASE SocketFails(s)
  <2>1. \/ Goto(<<"run", s>>, "launched", "restart")
        \/ Goto(<<"run", s>>, "loop", "restart")
        \/ Goto(<<"disc", s>>, "launched", "restart")
    BY <1>3 DEF SocketFails
  <2>2. UNCHANGED <<used, closed, pppp, holds, armed, cfg>> /\ (removed => removed')
    BY <1>3 DEF SocketFails, sessVars
  <2> QED BY <1>0, <2>1, <2>2, GotoKeeps
<1>4. CASE RunEnds(s)
  <2>1. Goto(<<"run", s>>, "loop", "exited")
    BY <1>4 DEF RunEnds
  <2>2. UNCHANGED <<used, closed, pppp, holds, armed, cfg>> /\ (removed => removed')
    BY <1>4 DEF RunEnds, rtVars
  <2> QED BY <1>0, <2>1, <2>2, GotoKeeps
<1>5. CASE Resolve(s)
  <2>1. Goto(<<"disc", s>>, "launched", "loop")
    BY <1>5 DEF Resolve
  <2>2. UNCHANGED <<used, closed, pppp, holds, armed, cfg>> /\ (removed => removed')
    BY <1>5 DEF Resolve, rtVars, sessVars
  <2> QED BY <1>0, <2>1, <2>2, GotoKeeps
<1>6. CASE P2PReady(s)
  BY <1>6, <1>0, GotoKeeps DEF P2PReady, rtVars
<1>7. CASE OnConnected(s)
  BY <1>7, UnmovedKeeps DEF OnConnected
<1>8. ASSUME NEW k \in Loops, LoopExits(k, s) PROVE Kept
  BY <1>8, LoopGotoKeeps, SessionsAssumption DEF LoopExits, rtVars, sessVars
<1>9. ASSUME NEW k \in Loops, Timeout(k, s) PROVE Kept
  BY <1>9, LoopGotoKeeps DEF Timeout, rtVars, sessVars
<1> QED BY <1>1, <1>2, <1>3, <1>4, <1>5, <1>6, <1>7, <1>8, <1>9 DEF SessionStep

LEMMA RestartKeeps ==
  ASSUME IInv, TypeOK', NEW g \in Goroutines, RestartStep(g)
  PROVE  Kept
<1>1. CASE RestartThrottled(g)
  <2>1. Goto(g, "restart", After(g, FALSE))
    BY <1>1 DEF RestartThrottled
  <2>2. UNCHANGED <<used, closed, pppp, holds, armed, cfg>> /\ (removed => removed')
    BY <1>1 DEF RestartThrottled, rtVars
  <2>3. CASE g \in Loops \X Sessions
    <3>1. PICK k \in Loops, s \in Sessions : g = <<k, s>>
      BY <2>3
    <3>2. Goto(<<k, s>>, "restart", "loop")
      BY <2>1, <3>1, AfterLoop
    <3> QED BY <2>2, <3>2, LoopGotoKeeps
  <2>4. CASE g \notin Loops \X Sessions
    <3> DEFINE to == After(g, FALSE)
    <3>1. to \notin {"none", "launched"}
      BY AfterPhases
    <3>2. Goto(g, "restart", to)
      BY <2>1
    <3> HIDE DEF to
    <3> QED BY <2>2, <2>4, <3>1, <3>2, GotoKeeps
  <2> QED BY <2>3, <2>4
<1>2. CASE RestartBegins(g)
  <2>1. Goto(g, "restart", "stop")
    BY <1>2 DEF RestartBegins
  <2>2. UNCHANGED <<used, closed, pppp, holds, armed, cfg>> /\ (removed => removed')
    BY <1>2 DEF RestartBegins, sessVars
  <2>3. CASE g \in Loops \X Sessions
    <3>1. PICK k \in Loops, s \in Sessions : g = <<k, s>>
      BY <2>3
    <3> QED BY <2>1, <2>2, <3>1, LoopGotoKeeps
  <2>4. CASE g \notin Loops \X Sessions
    BY <2>1, <2>2, <2>4, GotoKeeps
  <2> QED BY <2>3, <2>4
<1>3. CASE StopTake(g)
  <2>1. /\ pc[g] = "stop" /\ pc' = [pc EXCEPT ![g] = "close"]
        /\ pppp' = NoSession /\ UNCHANGED <<used, cfg, armed, removed>>
    BY <1>3 DEF StopTake, Goto, sessVars
  <2>2. Ownership'
    BY <1>3, OwnershipTake DEF IInv
  <2>3. LoopsLive'
    <3>1. \A k \in Loops, s \in Sessions : pppp' # s
      BY <2>1, SessionsAssumption
    <3> QED BY <2>1, <3>1, LoopsGoto DEF IInv
  <2>4. \A h \in Goroutines : pc'[h] = IF h = g THEN "close" ELSE pc[h]
    BY <2>1 DEF IInv, TypeOK
  <2>5. DiscAfterRun'
    BY <2>1, <2>4 DEF DiscAfterRun, IInv
  <2>6. StartCommitted'
    <3>1. CASE g = App
      BY <2>4, <3>1 DEF StartCommitted
    <3>2. CASE g # App
      BY <2>4, <3>2 DEF StartCommitted
    <3> QED BY <3>1, <3>2
  <2> QED BY <2>2, <2>3, <2>5, <2>6 DEF Kept
<1>4. CASE RestartCloses(g)
  <2>1. /\ g # App /\ CloseTaken(g) /\ armed' = armed + 1
        /\ UNCHANGED <<used, pppp, cfg, removed>>
    BY <1>4 DEF RestartCloses
  <2>2. pc[g] = "close" /\ pc' = [pc EXCEPT ![g] = After(g, TRUE)]
    BY <1>4 DEF RestartCloses, Goto
  <2>3. \A h \in Goroutines : pc'[h] = IF h = g THEN After(g, TRUE) ELSE pc[h]
    BY <2>2 DEF IInv, TypeOK
  <2>4. Ownership'
    BY <2>1, <2>2, <2>3, OwnershipClose DEF IInv
  <2>5. LoopsLive'
    <3>1. \A k \in Loops, s \in Sessions : g = <<k, s>> =>
            After(g, TRUE) = "exited" /\ pppp' # s
      <4>1. \A k \in Loops, s \in Sessions : g = <<k, s>> => pppp' # s
        BY <2>1, <2>2 DEF IInv, LoopsLive
      <4>2. \A k \in Loops, s \in Sessions : g = <<k, s>> => After(g, TRUE) = "exited"
        BY AfterLoop
      <4> QED BY <4>1, <4>2
    <3>2. After(g, TRUE) # "none"
      BY AfterPhases
    <3> DEFINE to == After(g, TRUE)
    <3>3. /\ pc' = [pc EXCEPT ![g] = to] /\ to # "none"
          /\ \A k \in Loops, s \in Sessions : g = <<k, s>> =>
               /\ to \in {"loop", "restart", "stop", "close", "exited"}
               /\ to \in {"close", "exited"} => pppp' # s
      BY <2>2, <3>1, <3>2
    <3>4. /\ used' = used /\ pppp' \in {pppp, NoSession} /\ pc[g] # "none"
          /\ LoopsLive /\ TypeOK
      BY <2>1, <2>2 DEF IInv
    <3> HIDE DEF to
    <3> QED BY <3>3, <3>4, LoopsGoto
  <2>6. DiscAfterRun'
    <3> DEFINE to == After(g, TRUE)
    <3>1. to \notin {"none", "launched"}
      BY AfterPhases
    <3>2. \A h \in Goroutines : pc'[h] = IF h = g THEN to ELSE pc[h]
      BY <2>3
    <3> HIDE DEF to
    <3> QED BY <2>2, <3>1, <3>2, GoroutineKinds DEF DiscAfterRun, IInv
  <2>7. StartCommitted'
    BY <2>1 DEF StartCommitted, IInv, TypeOK
  <2> QED BY <2>4, <2>5, <2>6, <2>7 DEF Kept
<1> QED BY <1>1, <1>2, <1>3, <1>4 DEF RestartStep

LEMMA ClientKeeps ==
  ASSUME IInv, TypeOK', NEW c \in Clients, ClientStep(c)
  PROVE  Kept
<1>0. /\ <<"client", c>> \in Goroutines /\ <<"client", c>> # App
      /\ <<"client", c>> \notin Loops \X Sessions
  BY GoroutineKinds
<1>1. CASE ClientStarts(c)
  BY <1>1, StartKeeps DEF ClientStarts
<1>2. CASE ~ClientStarts(c)
  <2>1. \/ Goto(<<"client", c>>, "idle", "has")
        \/ Goto(<<"client", c>>, "has", "restart")
        \/ Goto(<<"client", c>>, "has", "idle")
    BY <1>2 DEF ClientStep, ClientLooksUp, ClientRestarts, ClientLeaves
  <2>2. UNCHANGED <<used, closed, pppp, holds, armed, cfg>> /\ (removed => removed')
    BY <1>2 DEF ClientStep, ClientLooksUp, ClientRestarts, ClientLeaves, rtVars, sessVars
  <2> QED BY <1>0, <2>1, <2>2, GotoKeeps
<1> QED BY <1>1, <1>2

LEMMA AppKeeps ==
  ASSUME IInv, TypeOK', AppStep
  PROVE  Kept
<1> USE GoroutineKinds
<1>1. CASE (\E c \in Cfgs : UpdateConfig(c)) \/ Remove
  <2>1. Goto(App, "idle", "stop")
    BY <1>1 DEF UpdateConfig, Remove
  <2>2. UNCHANGED <<used, closed, pppp, holds, armed, cfg>>
    BY <1>1 DEF UpdateConfig, Remove, sessVars
  <2>3. removed => removed'
    BY <1>1 DEF UpdateConfig, Remove
  <2> QED BY <2>1, <2>2, <2>3, GotoKeeps
<1>2. CASE AppCloses
  <2>1. /\ pc[App] = "close" /\ CloseTaken(App)
        /\ pc' = [pc EXCEPT ![App] = IF removed THEN "idle" ELSE "setcfg"]
        /\ UNCHANGED <<used, pppp, cfg, removed, armed>>
    BY <1>2 DEF AppCloses, Goto, rtVars
  <2>2. \A h \in Goroutines :
          pc'[h] = IF h = App THEN (IF removed THEN "idle" ELSE "setcfg") ELSE pc[h]
    BY <2>1 DEF IInv, TypeOK
  <2>3. Ownership'
    BY <2>1, <2>2, OwnershipClose DEF IInv
  <2>4. \A s \in Sessions : /\ pc'[<<"run", s>>] = pc[<<"run", s>>]
                            /\ pc'[<<"disc", s>>] = pc[<<"disc", s>>]
                            /\ \A k \in Loops : pc'[<<k, s>>] = pc[<<k, s>>]
    BY <2>2
  <2>5. LoopsLive'
    BY <2>1, <2>4, LoopsFrame DEF IInv
  <2>6. DiscAfterRun'
    BY <2>4 DEF DiscAfterRun, IInv
  <2>7. StartCommitted'
    BY <2>1, <2>2 DEF StartCommitted
  <2> QED BY <2>3, <2>5, <2>6, <2>7 DEF Kept
<1>3. CASE SetConfig
  <2>1. /\ pc[App] = "setcfg" /\ pc' = [pc EXCEPT ![App] = "start"]
        /\ UNCHANGED <<used, closed, pppp, holds, armed>>
    BY <1>3 DEF SetConfig, Goto, sessVars
  <2>2. \A h \in Goroutines : pc'[h] = IF h = App THEN "start" ELSE pc[h]
    BY <2>1 DEF IInv, TypeOK
  <2>3. Ownership'
    BY <2>1, <2>2, OwnershipFrame DEF IInv
  <2>4. \A s \in Sessions : /\ pc'[<<"run", s>>] = pc[<<"run", s>>]
                            /\ pc'[<<"disc", s>>] = pc[<<"disc", s>>]
                            /\ \A k \in Loops : pc'[<<k, s>>] = pc[<<k, s>>]
    BY <2>2
  <2>5. LoopsLive'
    BY <2>1, <2>4, LoopsFrame DEF IInv
  <2>6. DiscAfterRun'
    BY <2>4 DEF DiscAfterRun, IInv
  <2>7. StartCommitted'
    BY <2>2 DEF StartCommitted
  <2> QED BY <2>3, <2>5, <2>6, <2>7 DEF Kept
<1>4. CASE AppStarts
  <2>1. pc[App] = "start" /\ \A g \in Goroutines \ {App} : pc'[g] = pc[g]
    BY <1>4 DEF AppStarts, Goto, IInv, TypeOK
  <2> QED BY <1>4, <2>1, StartKeeps DEF AppStarts
<1> QED BY <1>1, <1>2, <1>3, <1>4 DEF AppStep

-----------------------------------------------------------------------------
LEMMA InitInv == Init => IInv
<1> SUFFICES ASSUME Init PROVE IInv
  OBVIOUS
<1>1. TypeOK
  BY InitTyped
<1>2. \A g \in Goroutines : holds[g] = NoSession
  BY DEF Init
<1>3. pc[App] = "start"
  BY GoroutineKinds DEF Init
<1>4. \A s \in Sessions : pc[<<"run", s>>] = "none" /\ pc[<<"disc", s>>] = "none"
  BY GoroutineKinds DEF Init
<1>5. \A s \in Sessions, k \in Loops : pc[<<k, s>>] = "none"
  BY GoroutineKinds DEF Init
<1>6. pppp = NoSession /\ used = {} /\ closed = {}
  BY DEF Init
<1>7. Ownership
  BY <1>2, <1>6 DEF Ownership
<1>8. LoopsLive /\ DiscAfterRun /\ StartCommitted
  BY <1>3, <1>4, <1>5 DEF LoopsLive, DiscAfterRun, StartCommitted
<1> QED BY <1>1, <1>7, <1>8 DEF IInv

LEMMA StepInv ==
  ASSUME IInv, [Next]_vars
  PROVE  IInv'
<1>1. TypeOK'
  BY StepTyped DEF IInv
<1>2. Kept
  <2>1. ASSUME NEW s \in Sessions, SessionStep(s) PROVE Kept
    BY <1>1, <2>1, SessionKeeps
  <2>2. ASSUME NEW g \in Goroutines, RestartStep(g) PROVE Kept
    BY <1>1, <2>2, RestartKeeps
  <2>3. ASSUME NEW c \in Clients, ClientStep(c) PROVE Kept
    BY <1>1, <2>3, ClientKeeps
  <2>4. CASE AppStep
    BY <1>1, <2>4, AppKeeps
  <2>5. CASE TimerFires
    BY <1>1, <2>5, StartKeeps DEF TimerFires
  <2>6. CASE CooldownExpires
    BY <2>6, UnmovedKeeps DEF CooldownExpires, sessVars
  <2>7. CASE UNCHANGED vars
    BY <2>7, UnmovedKeeps DEF vars, rtVars, sessVars
  <2> QED BY <2>1, <2>2, <2>3, <2>4, <2>5, <2>6, <2>7 DEF Next
<1> QED BY <1>1, <1>2 DEF IInv, Kept

\* The inductive invariant holds in every reachable state.
THEOREM Invariant == Spec => []IInv
BY InitInv, StepInv, PTL DEF Spec

\* No session of a runtime is forgotten, closed twice, or closed while current,
\* however Stop, restart, timers and handlers interleave.
THEOREM SessionsOwned == Spec => []Ownership
<1>1. IInv => Ownership
  BY DEF IInv
<1> QED BY <1>1, Invariant, PTL

\* The current session always has both its watchdog loops, or is about to.
THEOREM SessionWatched == Spec => []Watched
<1>1. IInv => Watched
  BY DEF IInv, LoopsLive, Watched, TypeOK
<1> QED BY <1>1, Invariant, PTL

\* The start that a restart or an update owes an enabled runtime is never lost.
THEOREM StartNeverLost == Spec => []StartCommitted
<1>1. IInv => StartCommitted
  BY DEF IInv
<1> QED BY <1>1, Invariant, PTL
-----------------------------------------------------------------------------
(* Sockets: what makes a zombie.                                           *)

\* A socket that is open after a step over a session then closed was so before.
NoNewZombie == \A s \in closed' : s \in sock' => s \in closed /\ s \in sock

\* Stop closes the socket of the session it took, so what it closes is no zombie.
LEMMA CloseMakesNone ==
  ASSUME NEW g, CloseTaken(g)
  PROVE  NoNewZombie
<1>1. sock' \subseteq sock \ {holds[g]}
  BY DEF CloseTaken, SockAfter
<1>2. closed' \subseteq closed \cup {holds[g]}
  BY DEF CloseTaken
<1> QED BY <1>1, <1>2 DEF NoNewZombie

\* A step that closes no session and opens no socket makes no zombie.
LEMMA ShutMakesNone ==
  ASSUME closed' = closed, sock' \subseteq sock
  PROVE  NoNewZombie
BY DEF NoNewZombie

\* Only a Run that opens its socket makes a zombie, and of its own session.
LEMMA ZombieStep ==
  ASSUME [Next]_vars
  PROVE  NoNewZombie \/ \E s \in Sessions : Listen(s)
<1> USE ShutMakesNone
<1>1. ASSUME NEW s \in Sessions, SessionStep(s) PROVE NoNewZombie \/ Listen(s)
  <2>1. CASE Launch(s)
    BY <2>1 DEF Launch, sessVars
  <2>2. CASE SocketFails(s)
    BY <2>2 DEF SocketFails, sessVars
  <2>3. CASE RunEnds(s)
    BY <2>3 DEF RunEnds
  <2>4. CASE Resolve(s)
    BY <2>4 DEF Resolve, sessVars
  <2>5. CASE P2PReady(s)
    BY <2>5 DEF P2PReady
  <2>6. CASE OnConnected(s)
    BY <2>6 DEF OnConnected
  <2>7. ASSUME NEW k \in Loops, LoopExits(k, s) \/ Timeout(k, s) PROVE NoNewZombie
    BY <2>7 DEF LoopExits, Timeout, sessVars
  <2> QED BY <1>1, <2>1, <2>2, <2>3, <2>4, <2>5, <2>6, <2>7 DEF SessionStep
<1>2. ASSUME NEW g \in Goroutines, RestartStep(g) PROVE NoNewZombie
  <2>1. CASE RestartThrottled(g)
    BY <2>1 DEF RestartThrottled, SockAfter
  <2>2. CASE RestartBegins(g)
    BY <2>2 DEF RestartBegins, sessVars
  <2>3. CASE StopTake(g)
    BY <2>3 DEF StopTake, sessVars
  <2>4. CASE RestartCloses(g)
    BY <2>4, CloseMakesNone DEF RestartCloses
  <2> QED BY <1>2, <2>1, <2>2, <2>3, <2>4 DEF RestartStep
<1>3. ASSUME NEW c \in Clients, ClientStep(c) PROVE NoNewZombie
  BY <1>3 DEF ClientStep, ClientLooksUp, ClientStarts, ClientRestarts, ClientLeaves, sessVars
<1>4. CASE AppStep
  <2>1. CASE AppCloses
    BY <2>1, CloseMakesNone DEF AppCloses
  <2>2. CASE SetConfig \/ AppStarts \/ Remove
    BY <2>2 DEF SetConfig, AppStarts, Remove, sessVars
  <2>3. ASSUME NEW c \in Cfgs, UpdateConfig(c) PROVE NoNewZombie
    BY <2>3 DEF UpdateConfig, sessVars
  <2> QED BY <1>4, <2>1, <2>2, <2>3 DEF AppStep
<1>5. CASE TimerFires
  BY <1>5 DEF TimerFires
<1>6. CASE CooldownExpires
  BY <1>6 DEF CooldownExpires, sessVars
<1>7. CASE UNCHANGED vars
  BY <1>7 DEF vars, sessVars
<1> QED BY <1>1, <1>2, <1>3, <1>4, <1>5, <1>6, <1>7 DEF Next

\* A Close that finds the socket of its session closes it for good: a closed
\* session has a socket only if its Run opened one after Close was done.
THEOREM ZombiesOnlyUnopened == Spec => ZombiesUnopened
<1>1. [Next]_vars => [\A s \in Zombies' \ Zombies : pc[<<"run", s>>] = "launched"]_vars
  <2> SUFFICES ASSUME [Next]_vars, NEW s \in Zombies' \ Zombies
               PROVE  pc[<<"run", s>>] = "launched"
    OBVIOUS
  <2>1. ~NoNewZombie
    BY DEF NoNewZombie, Zombies
  <2>2. PICK t \in Sessions : Listen(t)
    BY <2>1, ZombieStep
  <2>3. s = t
    BY <2>2 DEF Listen, Zombies
  <2> QED BY <2>2, <2>3 DEF Listen
<1> QED BY <1>1, PTL DEF Spec, ZombiesUnopened
=============================================================================
