------------------------ MODULE CommandWaitersProofs ------------------------
(***************************************************************************)
(* Proofs about CommandWaiters for any number of handlers, loops, calls,   *)
(* answers and updates: the inductive invariant IInv and the refinement of *)
(* CommandCalls.  Then about DeviceConfig, the requests that are made of   *)
(* such commands: what "ok" stands for, and what it says of the camera.    *)
(***************************************************************************)
EXTENDS CommandWaiters, DeviceConfig, TLAPS

\* A channel is a pair of a handler and the number of its call.
LEMMA ChannelIsPair ==
  ASSUME NEW w \in Channels
  PROVE  w[1] \in Handlers /\ w[2] \in Nat /\ w = <<w[1], w[2]>>
BY DEF Channels

LEMMA InitIInv == Init => IInv
BY NoneAssumption DEF Init, IInv, TypeOK, NoWaiterLeft, RoomForAnswer, Reachable, Registered,
                      HeldMade, Locations, InCall, Channels

\* Steps that touch no channel: an open call stays open, or was none before.
LEMMA PlainStep ==
  ASSUME IInv, NEW h \in Handlers,
         (\E c \in Cmds : Call(h, c)) \/ NotConnected(h) \/ Send(h) \/ Expire(h)
  PROVE  IInv'
<1>1. TypeOK'
  BY DEF IInv, TypeOK, Locations, Call, NotConnected, Send, Expire, Goto,
         Returns
<1>2. /\ UNCHANGED <<serial, box, waiters, held, answer, forgotten>>
      /\ \A k \in Handlers : InCall(k)' <=> InCall(k)
      /\ \A k \in Handlers : InCall(k) => cmd'[k] = cmd[k]
  BY DEF IInv, TypeOK, Call, NotConnected, Send, Expire, Goto, InCall
<1>3. \A k \in Handlers : Channel(k)' = Channel(k)
  BY <1>2 DEF Channel
<1>4. NoWaiterLeft'
  <2> SUFFICES ASSUME NEW c \in Cmds, NEW w \in waiters[c]
               PROVE  w = Channel(w[1]) /\ InCall(w[1])' /\ cmd'[w[1]] = c
    BY <1>2, <1>3, ChannelIsPair DEF NoWaiterLeft, IInv, TypeOK, Channel
  <2>1. w[1] \in Handlers
    BY ChannelIsPair DEF IInv, TypeOK
  <2> QED BY <1>2, <2>1 DEF IInv, NoWaiterLeft
<1>5. RoomForAnswer'
  BY <1>2, <1>3 DEF IInv, RoomForAnswer
<1>6. Reachable'
  BY <1>2, <1>3 DEF IInv, Reachable
<1>7. Registered' /\ HeldMade'
  BY <1>2 DEF IInv, Registered, HeldMade
<1> QED BY <1>1, <1>4, <1>5, <1>6, <1>7 DEF IInv

LEMMA SessionStep == ASSUME IInv, SessionChanges PROVE IInv'
<1>1. UNCHANGED <<pc, cmd, serial, box, waiters, held, answer, forgotten, result, arrived,
                  updates>> /\ connected' \in BOOLEAN
  BY DEF SessionChanges, IInv, TypeOK
<1> QED BY <1>1 DEF IInv, TypeOK, NoWaiterLeft, RoomForAnswer, Reachable, Registered,
                    HeldMade, Channel, InCall

\* The channel of a new call is not held, nor registered yet.
LEMMA RegisterStep ==
  ASSUME IInv, NEW h \in Handlers, Register(h)
  PROVE  IInv'
<1> DEFINE ch == <<h, serial[h] + 1>>
<1>0. /\ serial[h] \in Nat /\ cmd[h] \in Cmds /\ ~InCall(h)
      /\ ch \in Channels /\ ch[1] = h
  BY DEF IInv, TypeOK, Register, Goto, InCall, Channels
<1>1. TypeOK'
  BY <1>0 DEF IInv, TypeOK, Locations, Register, Goto
<1>2. /\ Channel(h)' = ch /\ InCall(h)' /\ box'[h] = None /\ cmd' = cmd /\ held' = held
      /\ h \notin forgotten'
      /\ \A k \in Handlers \ {h} :
           /\ Channel(k)' = Channel(k) /\ box'[k] = box[k] /\ serial'[k] = serial[k]
           /\ (InCall(k)' <=> InCall(k)) /\ (k \in forgotten' <=> k \in forgotten)
  BY <1>0 DEF IInv, TypeOK, Register, Goto, InCall, Channel
<1>3. \A c \in Cmds : waiters'[c] = IF c = cmd[h] THEN waiters[c] \cup {ch} ELSE waiters[c]
  BY <1>0 DEF IInv, TypeOK, Register
<1>4. \A c \in Cmds : \A w \in waiters[c] : w[1] \in Handlers \ {h} /\ w = Channel(w[1])
  BY <1>0, ChannelIsPair DEF IInv, TypeOK, NoWaiterLeft
<1>5. \A l \in Loops : \A w \in held[l] :
        w \in Channels /\ w[1] \in Handlers /\ w # ch /\ w[2] <= serial[w[1]]
  BY <1>0, ChannelIsPair DEF IInv, TypeOK, HeldMade
<1>6. NoWaiterLeft'
  <2> SUFFICES ASSUME NEW c \in Cmds, NEW w \in waiters'[c]
               PROVE  (w = Channel(w[1]) /\ InCall(w[1]) /\ cmd[w[1]] = c)'
    BY DEF NoWaiterLeft
  <2>1. CASE w = ch
    <3>1. c = cmd[h]
      BY <1>0, <1>3, <1>4, <2>1
    <3> QED BY <1>2, <2>1, <3>1
  <2>2. CASE w \in waiters[c]
    BY <1>2, <1>4, <2>2 DEF IInv, NoWaiterLeft, Channel
  <2> QED BY <1>3, <2>1, <2>2
<1>7. Registered'
  <2> SUFFICES ASSUME NEW c \in Cmds, NEW w \in waiters'[c]
               PROVE  box'[w[1]] = None /\ w[1] \notin forgotten'
    BY DEF Registered
  <2>1. CASE w = ch
    BY <1>2, <2>1
  <2>2. CASE w \in waiters[c]
    BY <1>2, <1>4, <2>2 DEF IInv, Registered
  <2> QED BY <1>3, <2>1, <2>2
<1>8. RoomForAnswer'
  <2> SUFFICES ASSUME NEW l \in Loops, NEW k \in Handlers, (Channel(k) \in held[l])'
               PROVE  (/\ box[k] = None
                       /\ \A j \in Loops \ {l} : Channel(k) \notin held[j]
                       /\ \A c \in Cmds : Channel(k) \notin waiters[c])'
    BY DEF RoomForAnswer
  <2>1. k # h
    BY <1>2, <1>5
  <2>2. Channel(k) # ch /\ Channel(k)' = Channel(k) /\ box'[k] = box[k]
    BY <1>0, <1>2, <2>1 DEF Channel
  <2>3. Channel(k) \in held[l]
    BY <1>2, <2>2
  <2>4. /\ box[k] = None
        /\ \A j \in Loops \ {l} : Channel(k) \notin held[j]
        /\ \A c \in Cmds : Channel(k) \notin waiters[c]
    BY <2>3 DEF IInv, RoomForAnswer
  <2>5. \A c \in Cmds : Channel(k) \notin waiters'[c]
    BY <1>3, <2>2, <2>4
  <2> QED BY <1>2, <2>2, <2>4, <2>5
<1>9. Reachable'
  <2> SUFFICES ASSUME NEW k \in Handlers, InCall(k)'
               PROVE  (\/ Channel(k) \in waiters[cmd[k]]
                       \/ \E l \in Loops : Channel(k) \in held[l]
                       \/ box[k] # None
                       \/ k \in forgotten)'
    BY DEF Reachable
  <2>1. CASE k = h
    BY <1>0, <1>2, <1>3, <2>1
  <2>2. CASE k # h
    <3>1. cmd[k] \in Cmds
      BY <1>2, <2>2 DEF IInv, TypeOK, InCall
    <3> QED BY <1>2, <1>3, <2>2, <3>1 DEF IInv, Reachable
  <2> QED BY <2>1, <2>2
<1>10. HeldMade'
  <2>1. \A k \in Handlers : serial[k] \in Nat /\ serial'[k] >= serial[k]
    BY <1>0 DEF IInv, TypeOK, Register
  <2>2. \A l \in Loops : \A w \in held[l] : w[2] \in Nat
    BY ChannelIsPair DEF IInv, TypeOK
  <2>3. \A l \in Loops : \A w \in held[l] : serial'[w[1]] \in Nat
    BY <1>1, <1>5 DEF TypeOK
  <2> QED BY <1>2, <1>5, <2>1, <2>2, <2>3 DEF HeldMade
<1> QED BY <1>1, <1>6, <1>7, <1>8, <1>9, <1>10 DEF IInv

\* A call that ends takes no channel but its own with it.
LEMMA EndStep ==
  ASSUME IInv, NEW h \in Handlers, Receive(h) \/ Withdraw(h)
  PROVE  IInv'
<1>1. TypeOK'
  <2>1. cmd[h] \in Cmds
    BY DEF IInv, TypeOK, Receive, Withdraw, Goto
  <2>2. Outcome(h) \in {"timeout", "error"}
    BY DEF Outcome
  <2> QED BY <2>1, <2>2 DEF IInv, TypeOK, Locations, Receive, Withdraw, Goto, Returns, Channels
<1>2. /\ UNCHANGED <<serial, box, held, answer, forgotten, cmd>>
      /\ ~InCall(h)' /\ cmd[h] \in Cmds
      /\ \A k \in Handlers \ {h} : InCall(k)' <=> InCall(k)
      /\ \A k \in Handlers : Channel(k)' = Channel(k)
  BY DEF IInv, TypeOK, Receive, Withdraw, Goto, InCall, Channel
<1>3. \A c \in Cmds : waiters'[c] = waiters[c] \/ waiters'[c] = waiters[c] \ {Channel(h)}
  BY DEF IInv, TypeOK, Receive, Withdraw
<1>4. \A c \in Cmds : Channel(h) \notin waiters'[c]
  <2>1. ASSUME Receive(h), NEW c \in Cmds PROVE Channel(h) \notin waiters'[c]
    BY <2>1 DEF Receive, IInv, Registered, Channel
  <2>2. ASSUME Withdraw(h), NEW c \in Cmds PROVE Channel(h) \notin waiters'[c]
    BY <2>2 DEF Withdraw, IInv, TypeOK, NoWaiterLeft, Channel
  <2> QED BY <2>1, <2>2
<1>5. \A c \in Cmds : \A w \in waiters'[c] :
        w \in waiters[c] /\ w[1] \in Handlers /\ w[1] # h
  <2> TAKE c \in Cmds
  <2> TAKE w \in waiters'[c]
  <2>1. w \in waiters[c]
    BY <1>3
  <2>2. w[1] \in Handlers /\ w = Channel(w[1])
    BY <2>1, ChannelIsPair DEF IInv, TypeOK, NoWaiterLeft
  <2> QED BY <1>4, <2>1, <2>2
<1>6. NoWaiterLeft'
  BY <1>2, <1>5 DEF IInv, NoWaiterLeft
<1>7. Registered'
  BY <1>2, <1>5 DEF IInv, Registered
<1>8. RoomForAnswer'
  BY <1>2, <1>5 DEF IInv, RoomForAnswer
<1>9. Reachable'
  <2> SUFFICES ASSUME NEW k \in Handlers, InCall(k)'
               PROVE  (\/ Channel(k) \in waiters[cmd[k]]
                       \/ \E l \in Loops : Channel(k) \in held[l]
                       \/ box[k] # None
                       \/ k \in forgotten)'
    BY DEF Reachable
  <2>1. k # h /\ InCall(k) /\ cmd[k] \in Cmds
    BY <1>2 DEF IInv, TypeOK, InCall
  <2>2. Channel(k) # Channel(h)
    BY <2>1 DEF Channel
  <2> QED BY <1>2, <1>3, <2>1, <2>2 DEF IInv, Reachable
<1>10. HeldMade'
  BY <1>2 DEF IInv, HeldMade
<1> QED BY <1>1, <1>6, <1>7, <1>8, <1>9, <1>10 DEF IInv

\* An answer takes the channels of open calls, all of them empty.
LEMMA TakeStep ==
  ASSUME IInv, NEW l \in Loops, NEW c \in Cmds, NEW a \in Answers, Take(l, c, a)
  PROVE  IInv'
<1>1. TypeOK'
  BY DEF IInv, TypeOK, Take
<1>2. /\ UNCHANGED <<serial, box, pc, cmd, forgotten>>
      /\ held[l] = {} /\ held'[l] = waiters[c]
      /\ \A k \in Loops \ {l} : held'[k] = held[k]
      /\ waiters'[c] = {}
      /\ \A d \in Cmds \ {c} : waiters'[d] = waiters[d]
      /\ \A h \in Handlers : Channel(h)' = Channel(h) /\ (InCall(h)' <=> InCall(h))
  BY DEF IInv, TypeOK, Take, Channel, InCall
<1>3. \A h \in Handlers : Channel(h)[1] = h
  BY DEF Channel
<1>4. NoWaiterLeft'
  <2> SUFFICES ASSUME NEW d \in Cmds, NEW w \in waiters'[d]
               PROVE  (w = Channel(w[1]) /\ InCall(w[1]) /\ cmd[w[1]] = d)'
    BY DEF NoWaiterLeft
  <2>1. w \in waiters[d]
    BY <1>2
  <2>2. w[1] \in Handlers
    BY <2>1, ChannelIsPair DEF IInv, TypeOK
  <2> QED BY <1>2, <2>1, <2>2 DEF IInv, NoWaiterLeft
<1>5. Registered'
  BY <1>2 DEF IInv, Registered
<1>6. RoomForAnswer'
  <2> SUFFICES ASSUME NEW k \in Loops, NEW h \in Handlers, (Channel(h) \in held[k])'
               PROVE  (/\ box[h] = None
                       /\ \A j \in Loops \ {k} : Channel(h) \notin held[j]
                       /\ \A d \in Cmds : Channel(h) \notin waiters[d])'
    BY DEF RoomForAnswer
  <2>1. CASE k = l
    <3>1. Channel(h) \in waiters[c] /\ cmd[h] = c /\ box[h] = None
      BY <1>2, <1>3, <2>1 DEF IInv, NoWaiterLeft, Registered
    <3>2. \A d \in Cmds \ {c} : Channel(h) \notin waiters[d]
      BY <1>3, <3>1 DEF IInv, NoWaiterLeft
    <3>3. \A j \in Loops : Channel(h) \notin held[j]
      BY <3>1 DEF IInv, RoomForAnswer
    <3> QED BY <1>2, <2>1, <3>1, <3>2, <3>3
  <2>2. CASE k # l
    BY <1>2, <2>2 DEF IInv, RoomForAnswer
  <2> QED BY <2>1, <2>2
<1>7. Reachable'
  <2> SUFFICES ASSUME NEW h \in Handlers, InCall(h)
               PROVE  (\/ Channel(h) \in waiters[cmd[h]]
                       \/ \E k \in Loops : Channel(h) \in held[k]
                       \/ box[h] # None
                       \/ h \in forgotten)'
    BY <1>2 DEF Reachable
  <2>1. cmd[h] \in Cmds
    BY DEF IInv, TypeOK, InCall
  <2>2. \A k \in Loops : held[k] \subseteq held'[k]
    BY <1>2
  <2>3. CASE cmd[h] = c
    BY <1>2, <2>2, <2>3 DEF IInv, Reachable
  <2>4. CASE cmd[h] # c
    BY <1>2, <2>1, <2>2, <2>4 DEF IInv, Reachable
  <2> QED BY <2>3, <2>4
<1>8. HeldMade'
  <2> SUFFICES ASSUME NEW k \in Loops, NEW w \in held'[k]
               PROVE  w[2] <= serial[w[1]]
    BY <1>2 DEF HeldMade
  <2>1. CASE k = l
    <3>1. w[1] \in Handlers /\ w = Channel(w[1])
      BY <1>2, <2>1, ChannelIsPair DEF IInv, TypeOK, NoWaiterLeft
    <3>2. w[2] = serial[w[1]] /\ serial[w[1]] \in Nat
      BY <3>1 DEF Channel, IInv, TypeOK
    <3> QED BY <3>2
  <2>2. CASE k # l
    BY <1>2, <2>2 DEF IInv, HeldMade
  <2> QED BY <2>1, <2>2
<1> QED BY <1>1, <1>4, <1>5, <1>6, <1>7, <1>8 DEF IInv

\* A channel that is sent to has room; a channel of an earlier call is nobody's.
LEMMA DeliverStep ==
  ASSUME IInv, NEW l \in Loops, NEW h \in Handlers, NEW n \in Nat, Deliver(l, h, n)
  PROVE  IInv'
<1>1. TypeOK'
  BY DEF IInv, TypeOK, Deliver, Channels
<1>2. /\ UNCHANGED <<serial, waiters, pc, cmd, forgotten>>
      /\ <<h, n>> \in held[l] /\ held'[l] = held[l] \ {<<h, n>>}
      /\ \A k \in Loops \ {l} : held'[k] = held[k]
      /\ \A k \in Handlers : Channel(k)' = Channel(k) /\ (InCall(k)' <=> InCall(k))
      /\ answer[l] # None
  BY NoneAssumption DEF IInv, TypeOK, Deliver, Channel, InCall
<1>3. \A k \in Handlers : Channel(k) # <<h, n>> => box'[k] = box[k]
  BY DEF IInv, TypeOK, Deliver, Channel
<1>4. Channel(h) = <<h, n>> => box'[h] = answer[l]
  BY <1>2 DEF IInv, TypeOK, Deliver, Channel, RoomForAnswer
<1>5. \A k \in Handlers : Channel(k) = <<h, n>> => k = h
  BY DEF Channel
<1>6. NoWaiterLeft'
  <2> SUFFICES ASSUME NEW c \in Cmds, NEW w \in waiters[c]
               PROVE  (w = Channel(w[1]) /\ InCall(w[1]) /\ cmd[w[1]] = c)'
    BY <1>2 DEF NoWaiterLeft
  <2>1. w[1] \in Handlers
    BY ChannelIsPair DEF IInv, TypeOK
  <2> QED BY <1>2, <2>1 DEF IInv, NoWaiterLeft
<1>7. Registered'
  <2> SUFFICES ASSUME NEW c \in Cmds, NEW w \in waiters[c]
               PROVE  box'[w[1]] = None /\ w[1] \notin forgotten
    BY <1>2 DEF Registered
  <2>1. w[1] \in Handlers /\ w = Channel(w[1])
    BY ChannelIsPair DEF IInv, TypeOK, NoWaiterLeft
  <2>2. w # <<h, n>>
    BY <1>2, <2>1 DEF IInv, RoomForAnswer
  <2> QED BY <1>3, <2>1, <2>2 DEF IInv, Registered
<1>8. RoomForAnswer'
  <2> SUFFICES ASSUME NEW j \in Loops, NEW k \in Handlers, Channel(k) \in held'[j]
               PROVE  /\ box'[k] = None
                      /\ \A i \in Loops \ {j} : Channel(k) \notin held'[i]
                      /\ \A c \in Cmds : Channel(k) \notin waiters[c]
    BY <1>2 DEF RoomForAnswer
  <2>1. Channel(k) \in held[j]
    BY <1>2
  <2>2. /\ box[k] = None
        /\ \A i \in Loops \ {j} : Channel(k) \notin held[i]
        /\ \A c \in Cmds : Channel(k) \notin waiters[c]
    BY <2>1 DEF IInv, RoomForAnswer
  <2>3. Channel(k) # <<h, n>>
    BY <1>2, <2>2
  <2>4. \A i \in Loops \ {j} : Channel(k) \notin held'[i]
    BY <1>2, <2>2
  <2> QED BY <1>3, <2>2, <2>3, <2>4
<1>9. Reachable'
  <2> SUFFICES ASSUME NEW k \in Handlers, InCall(k)
               PROVE  \/ Channel(k) \in waiters[cmd[k]]
                      \/ \E j \in Loops : Channel(k) \in held'[j]
                      \/ box'[k] # None
                      \/ k \in forgotten
    BY <1>2 DEF Reachable
  <2>1. CASE Channel(k) = <<h, n>>
    BY <1>2, <1>4, <1>5, <2>1
  <2>2. CASE Channel(k) # <<h, n>>
    <3>1. \A j \in Loops : Channel(k) \in held[j] => Channel(k) \in held'[j]
      BY <1>2, <2>2
    <3> QED BY <1>3, <2>2, <3>1 DEF IInv, Reachable
  <2> QED BY <2>1, <2>2
<1>10. HeldMade'
  <2>1. \A k \in Loops : held'[k] \subseteq held[k]
    BY <1>2
  <2> QED BY <1>2, <2>1 DEF IInv, HeldMade
<1> QED BY <1>1, <1>6, <1>7, <1>8, <1>9, <1>10 DEF IInv

\* A new map: the calls whose channels were in the old one are forgotten.
LEMMA UpdateStep ==
  ASSUME IInv, UpdateConfig
  PROVE  IInv'
<1>1. TypeOK'
  <2>1. waiters' \in [Cmds -> SUBSET Channels]
    BY DEF UpdateConfig
  <2>2. forgotten' \subseteq Handlers
    <3>1. forgotten \subseteq Handlers
      BY DEF IInv, TypeOK
    <3>2. \A h \in forgotten' : h \in forgotten \/ h \in Handlers
      BY DEF UpdateConfig
    <3> QED BY <3>1, <3>2
  <2>3. updates \in Nat /\ updates' = updates + 1 /\ connected' = FALSE
    BY DEF IInv, TypeOK, UpdateConfig
  <2>4. UNCHANGED <<pc, cmd, serial, box, held, answer, result, arrived>>
    BY DEF UpdateConfig
  <2>5. updates' \in Nat
    BY <2>3
  <2>6. connected' \in BOOLEAN
    BY <2>3
  <2> QED BY <2>1, <2>2, <2>4, <2>5, <2>6 DEF IInv, TypeOK
<1>2. /\ UNCHANGED <<serial, box, held, pc, cmd>>
      /\ \A c \in Cmds : waiters'[c] = {}
      /\ \A k \in Handlers : Channel(k)' = Channel(k) /\ (InCall(k)' <=> InCall(k))
  BY DEF UpdateConfig, Channel, InCall
<1>3. NoWaiterLeft' /\ Registered'
  BY <1>2 DEF NoWaiterLeft, Registered
<1>4. RoomForAnswer'
  BY <1>2 DEF IInv, RoomForAnswer
<1>5. Reachable'
  <2> SUFFICES ASSUME NEW k \in Handlers, InCall(k)
               PROVE  \/ \E j \in Loops : Channel(k) \in held[j]
                      \/ box[k] # None
                      \/ k \in forgotten'
    BY <1>2 DEF Reachable
  <2>1. cmd[k] \in Cmds
    BY DEF IInv, TypeOK, InCall
  <2> QED BY <2>1 DEF IInv, Reachable, UpdateConfig
<1>6. HeldMade'
  BY <1>2 DEF IInv, HeldMade
<1> QED BY <1>1, <1>3, <1>4, <1>5, <1>6 DEF IInv

LEMMA StutterStep == ASSUME IInv, UNCHANGED vars PROVE IInv'
BY DEF vars, IInv, TypeOK, NoWaiterLeft, RoomForAnswer, Reachable, Registered, HeldMade,
       Channel, InCall

LEMMA NextStep ==
  ASSUME IInv, [Next]_vars
  PROVE  IInv'
<1>1. ASSUME NEW h \in Handlers, HandlerStep(h) PROVE IInv'
  BY <1>1, PlainStep, RegisterStep, EndStep DEF HandlerStep
<1>2. ASSUME NEW l \in Loops, LoopStep(l) PROVE IInv'
  <2>1. 1 .. MaxCalls \subseteq Nat
    BY BoundsAssumption
  <2> QED BY <1>2, <2>1, TakeStep, DeliverStep DEF LoopStep
<1>3. CASE SessionChanges
  BY <1>3, SessionStep
<1>4. CASE UpdateConfig
  BY <1>4, UpdateStep
<1>5. CASE UNCHANGED vars
  BY <1>5, StutterStep
<1> QED BY <1>1, <1>2, <1>3, <1>4, <1>5 DEF Next

-----------------------------------------------------------------------------
\* The channels of commandWithResponse and OnCommand stay consistent, whatever
\* calls, answers, timeouts and updates interleave.
THEOREM Invariant == Spec => []IInv
BY InitIInv, NextStep, PTL DEF Spec

\* Type correctness of the calls and their channels.
THEOREM TypeCorrect == Spec => []TypeOK
<1>1. IInv => TypeOK BY DEF IInv
<1> QED BY <1>1, Invariant, PTL

\* A channel in rt.commandWaiters is that of a call in progress.
THEOREM NoneLeft == Spec => []NoWaiterLeft
<1>1. IInv => NoWaiterLeft BY DEF IInv
<1> QED BY <1>1, Invariant, PTL

\* The send of OnCommand that does not wait never finds a channel full.
THEOREM Room == Spec => []RoomForAnswer
<1>1. IInv => RoomForAnswer BY DEF IInv
<1> QED BY <1>1, Invariant, PTL

\* A call in progress can be answered unless UpdateConfig threw its channel away.
THEOREM CanBeAnswered == Spec => []Reachable
<1>1. IInv => Reachable BY DEF IInv
<1> QED BY <1>1, Invariant, PTL

-----------------------------------------------------------------------------
(* The channels implement CommandCalls.  An answer that OnCommand has taken  *)
(* for a call counts as offered, though its channel is still empty.          *)

LEMMA HolderOf ==
  ASSUME IInv, NEW h \in Handlers, NEW l \in Loops, Channel(h) \in held[l]
  PROVE  Holder(h) = l
BY DEF IInv, RoomForAnswer, Holder

LEMMA OfferedIs ==
  ASSUME IInv, NEW h \in Handlers, InCall(h)
  PROVE  /\ \A l \in Loops : Channel(h) \in held[l] => Offered(h) = answer[l]
         /\ (\A l \in Loops : Channel(h) \notin held[l]) => Offered(h) = box[h]
BY HolderOf DEF Offered

\* No answer is offered to a registered channel.
LEMMA OpenCall ==
  ASSUME IInv, NEW h \in Handlers, InCall(h)
  PROVE  Offered(h) = None <=> Channel(h) \in waiters[cmd[h]] \/
                               (h \in forgotten /\ Offered(h) = None)
<1>1. cmd[h] \in Cmds
  BY DEF IInv, TypeOK, InCall
<1>2. ASSUME Channel(h) \in waiters[cmd[h]] PROVE Offered(h) = None
  <2>1. box[h] = None
    BY <1>1, <1>2 DEF IInv, Registered, Channel
  <2>2. \A l \in Loops : Channel(h) \notin held[l]
    BY <1>1, <1>2 DEF IInv, RoomForAnswer
  <2> QED BY <2>1, <2>2, OfferedIs
<1>3. ASSUME Offered(h) = None
      PROVE  Channel(h) \in waiters[cmd[h]] \/ h \in forgotten
  <2>1. ASSUME NEW l \in Loops, Channel(h) \in held[l] PROVE FALSE
    BY <1>3, <2>1, OfferedIs, NoneAssumption DEF IInv, TypeOK
  <2> QED BY <1>3, <2>1, OfferedIs DEF IInv, Reachable
<1> QED BY <1>2, <1>3

\* A step that leaves the channels of all open calls alone.
LEMMA OffersKept ==
  ASSUME UNCHANGED <<serial, held, answer, box>>, NEW k \in Handlers, InCall(k)' <=> InCall(k)
  PROVE  Offered(k)' = Offered(k)
BY DEF Offered, Holder, Channel

abstract == <<[h \in Handlers |-> Wanted(h)], [h \in Handlers |-> Offered(h)], forgotten, result>>

LEMMA PlainMaps ==
  ASSUME IInv, NEW h \in Handlers,
         (\E c \in Cmds : Call(h, c)) \/ Send(h) \/ Expire(h)
  PROVE  UNCHANGED abstract
<1>1. /\ UNCHANGED <<serial, held, answer, box, forgotten, result>>
      /\ \A k \in Handlers : InCall(k)' <=> InCall(k)
      /\ \A k \in Handlers : InCall(k) => cmd'[k] = cmd[k]
  BY DEF IInv, TypeOK, Call, Send, Expire, Goto, InCall
<1>2. \A k \in Handlers : Wanted(k)' = Wanted(k) /\ Offered(k)' = Offered(k)
  BY <1>1, OffersKept DEF Wanted
<1> QED BY <1>1, <1>2 DEF abstract

LEMMA RefuseMaps ==
  ASSUME IInv, NEW h \in Handlers, NotConnected(h)
  PROVE  Calls!Refuse(h)
<1>1. \A k \in Handlers : Wanted(k)' = Wanted(k) /\ Offered(k)' = Offered(k)
  BY OffersKept DEF NotConnected, Wanted, InCall
<1>2. Wanted(h) = None
  BY DEF NotConnected, Wanted, InCall
<1> QED BY <1>1, <1>2 DEF NotConnected, Returns, Calls!Refuse

LEMMA RegisterMaps ==
  ASSUME IInv, IInv', NEW h \in Handlers, Register(h)
  PROVE  cmd[h] \in Cmds /\ Calls!Open(h, cmd[h])
<1>1. /\ cmd[h] \in Cmds /\ ~InCall(h) /\ InCall(h)' /\ cmd' = cmd /\ serial[h] \in Nat
      /\ UNCHANGED <<held, answer, result>>
      /\ box'[h] = None /\ serial'[h] = serial[h] + 1
      /\ \A k \in Handlers \ {h} :
           /\ InCall(k)' <=> InCall(k)
           /\ serial'[k] = serial[k] /\ box'[k] = box[k]
  BY DEF IInv, TypeOK, Register, Goto, InCall
<1>2. ASSUME NEW k \in Handlers \ {h} PROVE Wanted(k)' = Wanted(k) /\ Offered(k)' = Offered(k)
  BY <1>1, <1>2 DEF Wanted, Offered, Holder, Channel
<1>3. Wanted(h) = None /\ Wanted(h)' = cmd[h] /\ Offered(h) = None
  BY <1>1 DEF Wanted, Offered
<1>4. Offered(h)' = None
  <2>1. ASSUME NEW l \in Loops, Channel(h)' \in held[l] PROVE FALSE
    <3>1. Channel(h)'[1] = h /\ Channel(h)'[2] = serial[h] + 1
      BY <1>1 DEF Channel
    <3> QED BY <1>1, <2>1, <3>1 DEF IInv, HeldMade
  <2> QED BY <1>1, <2>1 DEF Offered
<1> QED BY <1>1, <1>2, <1>3, <1>4 DEF Register, Calls!Open

LEMMA EndMaps ==
  ASSUME IInv, NEW h \in Handlers, Receive(h) \/ Withdraw(h)
  PROVE  Calls!Close(h)
<1>1. /\ cmd[h] \in Cmds /\ InCall(h) /\ ~InCall(h)'
      /\ UNCHANGED <<cmd, serial, box, held, answer, forgotten>>
      /\ \A k \in Handlers \ {h} : InCall(k)' <=> InCall(k)
  BY DEF IInv, TypeOK, Receive, Withdraw, Goto, InCall
<1>2. ASSUME NEW k \in Handlers \ {h} PROVE Wanted(k)' = Wanted(k) /\ Offered(k)' = Offered(k)
  BY <1>1, OffersKept DEF Wanted
<1>3. Wanted(h) # None /\ Wanted(h)' = None /\ Offered(h)' = None
  BY <1>1, NoneAssumption DEF Wanted, Offered
<1>4. \E r \in ({Offered(h)} \ {None}) \cup {"timeout", "error"} : Returns(h, r)
  <2>1. CASE Receive(h)
    <3>1. box[h] # None /\ Returns(h, box[h])
      BY <2>1 DEF Receive
    <3>2. \A l \in Loops : Channel(h) \notin held[l]
      BY <3>1 DEF IInv, RoomForAnswer
    <3> QED BY <1>1, <3>1, <3>2, OfferedIs
  <2>2. CASE Withdraw(h)
    BY <2>2 DEF Withdraw, Outcome
  <2> QED BY <2>1, <2>2
<1> QED BY <1>1, <1>2, <1>3, <1>4 DEF Returns, Calls!Close

LEMMA TakeMaps ==
  ASSUME IInv, IInv', NEW l \in Loops, NEW c \in Cmds, NEW a \in Answers, Take(l, c, a)
  PROVE  Calls!Arrive(c, a)
<1>1. /\ UNCHANGED <<serial, box, pc, cmd, forgotten, result>>
      /\ held[l] = {} /\ held'[l] = waiters[c] /\ answer'[l] = a
      /\ \A k \in Loops \ {l} : held'[k] = held[k] /\ answer'[k] = answer[k]
      /\ \A h \in Handlers :
           Channel(h)' = Channel(h) /\ (InCall(h)' <=> InCall(h)) /\ Wanted(h)' = Wanted(h)
  BY DEF IInv, TypeOK, Take, Channel, InCall, Wanted
<1>2. ASSUME NEW h \in Handlers
      PROVE  Offered(h)' = IF Wanted(h) = c /\ Offered(h) = None /\ h \notin forgotten
                           THEN a ELSE Offered(h)
  <2>1. CASE ~InCall(h)
    BY <1>1, <2>1, NoneAssumption DEF Offered, Wanted
  <2>2. CASE InCall(h) /\ Channel(h) \in waiters[c]
    <3>1. cmd[h] = c /\ h \notin forgotten
      BY <2>2 DEF IInv, NoWaiterLeft, Registered, Channel
    <3>2. Wanted(h) = c /\ Offered(h) = None
      BY <2>2, <3>1, OpenCall DEF Wanted
    <3>3. Offered(h)' = a
      <4>1. Channel(h)' \in held'[l]
        BY <1>1, <2>2
      <4>2. Holder(h)' = l
        BY <4>1 DEF IInv, RoomForAnswer, Holder
      <4> QED BY <1>1, <2>2, <4>1, <4>2 DEF Offered
    <3> QED BY <3>1, <3>2, <3>3
  <2>3. CASE InCall(h) /\ Channel(h) \notin waiters[c]
    <3>1. \A k \in Loops : Channel(h) \in held'[k] <=> Channel(h) \in held[k]
      BY <1>1, <2>3
    <3>2. \A k \in Loops : Channel(h) \in held[k] => answer'[k] = answer[k]
      BY <1>1
    <3>3. Offered(h)' = Offered(h)
      <4>1. CASE \E k \in Loops : Channel(h) \in held[k]
        <5>1. PICK k \in Loops : Channel(h) \in held[k]
          BY <4>1
        <5>2. Holder(h) = k
          BY <5>1, HolderOf
        <5>3. Channel(h)' \in held'[k]
          BY <1>1, <3>1, <5>1
        <5>4. Holder(h)' = k
          BY <5>3 DEF IInv, RoomForAnswer, Holder
        <5> QED BY <1>1, <2>3, <3>2, <5>1, <5>2, <5>3, <5>4 DEF Offered
      <4>2. CASE \A k \in Loops : Channel(h) \notin held[k]
        BY <1>1, <2>3, <3>1, <4>2 DEF Offered
      <4> QED BY <4>1, <4>2
    <3>4. Wanted(h) = c /\ Offered(h) = None => h \in forgotten
      BY <2>3, OpenCall DEF Wanted
    <3> QED BY <3>3, <3>4
  <2> QED BY <2>1, <2>2, <2>3
<1> QED BY <1>1, <1>2 DEF Calls!Arrive

LEMMA DeliverMaps ==
  ASSUME IInv, IInv', NEW l \in Loops, NEW h \in Handlers, NEW n \in Nat, Deliver(l, h, n)
  PROVE  UNCHANGED abstract
<1>1. /\ UNCHANGED <<serial, waiters, pc, cmd, forgotten, answer, result>>
      /\ <<h, n>> \in held[l] /\ held'[l] = held[l] \ {<<h, n>>}
      /\ \A k \in Loops \ {l} : held'[k] = held[k]
      /\ \A k \in Handlers :
           Channel(k)' = Channel(k) /\ (InCall(k)' <=> InCall(k)) /\ Wanted(k)' = Wanted(k)
  BY DEF IInv, TypeOK, Deliver, Channel, InCall, Wanted
<1>2. \A k \in Handlers : Channel(k) # <<h, n>> => box'[k] = box[k]
  BY DEF IInv, TypeOK, Deliver, Channel
<1>3. Channel(h) = <<h, n>> => box'[h] = answer[l]
  BY <1>1 DEF IInv, TypeOK, Deliver, Channel, RoomForAnswer
<1>4. \A k \in Handlers : Channel(k) = <<h, n>> => k = h
  BY DEF Channel
<1>5. ASSUME NEW k \in Handlers PROVE Offered(k)' = Offered(k)
  <2>1. CASE ~InCall(k)
    BY <1>1, <2>1 DEF Offered
  <2>2. CASE InCall(k) /\ Channel(k) = <<h, n>>
    <3>1. Offered(k) = answer[l]
      BY <1>1, <2>2, OfferedIs
    <3>2. \A j \in Loops : Channel(k)' \notin held'[j]
      BY <1>1, <2>2 DEF IInv, RoomForAnswer
    <3>3. Offered(k)' = box'[k]
      BY <1>1, <2>2, <3>2 DEF Offered
    <3> QED BY <1>3, <1>4, <2>2, <3>1, <3>3
  <2>3. CASE InCall(k) /\ Channel(k) # <<h, n>>
    <3>1. \A j \in Loops : Channel(k)' \in held'[j] <=> Channel(k) \in held[j]
      BY <1>1, <2>3
    <3>2. box'[k] = box[k]
      BY <1>2, <2>3
    <3>3. CASE \E j \in Loops : Channel(k) \in held[j]
      <4>1. PICK j \in Loops : Channel(k) \in held[j]
        BY <3>3
      <4>2. Holder(k) = j
        BY <4>1, HolderOf
      <4>3. Holder(k)' = j
        BY <3>1, <4>1 DEF IInv, RoomForAnswer, Holder
      <4> QED BY <1>1, <2>3, <3>1, <4>1, <4>2, <4>3 DEF Offered
    <3>4. CASE \A j \in Loops : Channel(k) \notin held[j]
      BY <1>1, <2>3, <3>1, <3>2, <3>4 DEF Offered
    <3> QED BY <3>3, <3>4
  <2> QED BY <2>1, <2>2, <2>3
<1> QED BY <1>1, <1>5 DEF abstract

LEMMA UpdateMaps ==
  ASSUME IInv, UpdateConfig
  PROVE  Calls!Deafen
<1>1. UNCHANGED <<serial, held, answer, box, cmd, result>>
      /\ \A k \in Handlers : InCall(k)' <=> InCall(k)
  BY DEF UpdateConfig, InCall
<1>2. \A k \in Handlers : Wanted(k)' = Wanted(k) /\ Offered(k)' = Offered(k)
  BY <1>1, OffersKept DEF Wanted
<1>3. ASSUME NEW h \in Handlers
      PROVE  h \in forgotten' <=> h \in forgotten \/ (Wanted(h) # None /\ Offered(h) = None)
  <2>1. h \in forgotten' <=> h \in forgotten \/ \E c \in Cmds : Channel(h) \in waiters[c]
    BY DEF UpdateConfig
  <2>2. ASSUME NEW c \in Cmds, Channel(h) \in waiters[c]
        PROVE  Wanted(h) # None /\ Offered(h) = None
    <3>1. InCall(h) /\ cmd[h] = c
      BY <2>2 DEF IInv, NoWaiterLeft, Channel
    <3> QED BY <2>2, <3>1, OpenCall, NoneAssumption DEF Wanted
  <2>3. ASSUME Wanted(h) # None, Offered(h) = None
        PROVE  h \in forgotten \/ \E c \in Cmds : Channel(h) \in waiters[c]
    <3>1. InCall(h) /\ cmd[h] \in Cmds
      BY <2>3 DEF Wanted, IInv, TypeOK, InCall
    <3> QED BY <2>3, <3>1, OpenCall
  <2> QED BY <2>1, <2>2, <2>3
<1>4. forgotten \subseteq Handlers /\ forgotten' \subseteq Handlers
  BY DEF IInv, TypeOK, UpdateConfig
<1> QED BY <1>1, <1>2, <1>3, <1>4 DEF Calls!Deafen

LEMMA SessionMaps == ASSUME SessionChanges \/ UNCHANGED vars PROVE UNCHANGED abstract
<1>1. UNCHANGED <<pc, cmd, serial, box, held, answer, forgotten, result>>
  BY DEF SessionChanges, vars
<1>2. \A k \in Handlers : InCall(k)' <=> InCall(k)
  BY <1>1 DEF InCall
<1>3. \A k \in Handlers : Wanted(k)' = Wanted(k) /\ Offered(k)' = Offered(k)
  BY <1>1, <1>2, OffersKept DEF Wanted
<1> QED BY <1>1, <1>3 DEF abstract

LEMMA CallsStep ==
  ASSUME IInv, IInv', [Next]_vars
  PROVE  [Calls!Next]_abstract
<1>1. ASSUME NEW h \in Handlers, HandlerStep(h) PROVE [Calls!Next]_abstract
  <2>1. CASE (\E c \in Cmds : Call(h, c)) \/ Send(h) \/ Expire(h)
    BY <2>1, PlainMaps
  <2>2. CASE NotConnected(h)
    BY <2>2, RefuseMaps DEF Calls!Next
  <2>3. CASE Register(h)
    BY <2>3, RegisterMaps DEF Calls!Next
  <2>4. CASE Receive(h) \/ Withdraw(h)
    BY <2>4, EndMaps DEF Calls!Next
  <2> QED BY <1>1, <2>1, <2>2, <2>3, <2>4 DEF HandlerStep
<1>2. ASSUME NEW l \in Loops, LoopStep(l) PROVE [Calls!Next]_abstract
  <2>1. ASSUME NEW c \in Cmds, NEW a \in Answers, Take(l, c, a) PROVE Calls!Next
    BY <2>1, TakeMaps DEF Calls!Next
  <2>2. ASSUME NEW h \in Handlers, NEW n \in 1 .. MaxCalls, Deliver(l, h, n)
        PROVE  UNCHANGED abstract
    <3>1. n \in Nat
      BY BoundsAssumption
    <3> QED BY <2>2, <3>1, DeliverMaps
  <2> QED BY <1>2, <2>1, <2>2 DEF LoopStep
<1>3. CASE UpdateConfig
  BY <1>3, UpdateMaps DEF Calls!Next
<1>4. CASE SessionChanges \/ UNCHANGED vars
  BY <1>4, SessionMaps
<1> QED BY <1>1, <1>2, <1>3, <1>4 DEF Next

\* Refinement: channels, the map of waiters, timeouts and the sends of OnCommand
\* behave as if every answer reached all open calls for its number at once.
THEOREM ImplementsCalls == Spec => RefinesCalls
<1>1. Init => Calls!Init
  BY DEF Init, Calls!Init, Wanted, Offered, InCall
<1>2. IInv /\ IInv' /\ [Next]_vars =>
        [Calls!Next]_<<[h \in Handlers |-> Wanted(h)], [h \in Handlers |-> Offered(h)],
                      forgotten, result>>
  BY CallsStep DEF abstract
<1> QED BY <1>1, <1>2, Invariant, PTL DEF Spec, RefinesCalls, Calls!Spec

-----------------------------------------------------------------------------
(* DeviceConfig: the types of commands.                                      *)

LEMMA IfType ==
  ASSUME NEW S, NEW x \in S, NEW c
  PROVE  If(c, x) \in Seq(S)
BY DEF If

LEMMA BodyFields ==
  ASSUME NEW b \in Body
  PROVE  /\ b.preset \in Presets /\ b.streamMode \in StreamModes /\ b.audioStream \in AudioModes
         /\ b.enableAudioNow \in BOOLEAN /\ b.bitrateKbps \in Kbps /\ b.bitrate \in RateBits
         /\ b.control \in Given /\ b.alarm \in Given /\ b.system \in Given
         /\ b.disablePushUpload \in BOOLEAN
BY DEF Body

LEMMA RateBitType ==
  ASSUME NEW b \in Body
  PROVE  RateBit(b) \in 0 .. 64
<1>1. PresetBitrate(b) \in 0 .. 64
  BY DEF PresetBitrate
<1>2. b.bitrate # Absent => b.bitrate \in 0 .. 64
  BY BodyFields DEF RateBits
<1>3. ASSUME NEW k, k \in 50 .. 3200 PROVE BitrateKbpsToRateBit(k) \in 0 .. 64
  <2>1. (k + 25) \div 50 \in Int
    BY <1>3
  <2>2. PICK v \in Int : v = (k + 25) \div 50
    BY <2>1
  <2>3. BitrateKbpsToRateBit(k) = IF k < 50 \/ v < 1 THEN 1 ELSE IF v > 64 THEN 64 ELSE v
    BY <2>2 DEF BitrateKbpsToRateBit
  <2> QED BY <1>3, <2>3
<1>4. b.bitrateKbps # Absent => b.bitrateKbps \in 50 .. 3200
  BY BodyFields DEF Kbps
<1>5. b.bitrateKbps # Absent => BitrateKbpsToRateBit(b.bitrateKbps) \in 0 .. 64
  BY <1>3, <1>4
<1> QED BY <1>1, <1>2, <1>5 DEF RateBit

\* Commands: the video modes among them are the three there are.
Typed == {c \in Command : c.setting = "video" => c.value \in 0 .. 2}

LEMMA SetsType ==
  ASSUME NEW name \in Names, NEW message \in Messages, NEW setting \in Settings,
         NEW value \in 0 .. 64, setting = "video" => value \in 0 .. 2
  PROVE  Sets(name, message, setting, value) \in Typed
BY DEF Sets, Typed, Command

LEMMA CommandNames ==
  /\ Settings = {"video", "audio", "control", "alarm", "system", "push"}
  /\ {"stream", "dev_control", "set_cyalarm", "set_sysparms", "set_cypush", "bad"}
       \subseteq Messages
  /\ {"preset", "preset.stop", "audio", "loop"} \cup Messages \subseteq Names
  /\ Off = 0 /\ Vga = 1 /\ Qvga = 2
BY DEF Settings, Messages, Names, Off, Vga, Qvga

LEMMA ReadsType == ASSUME NEW name \in Messages PROVE Reads(name) \in Typed
BY CommandNames DEF Reads, Typed, Command

LEMMA ReadbacksType == Readbacks \in Seq(Typed) /\ \A i \in DOMAIN Readbacks : Readbacks[i].reads
<1>1. /\ Reads("get_parms") \in Typed /\ Reads("get_cyalarm") \in Typed
      /\ Reads("get_wifi") \in Typed /\ Reads("get_sysparms") \in Typed
      /\ Reads("get_cloudsupport") \in Typed /\ Reads("get_whiteLight") \in Typed
      /\ Reads("get_sound_light_alarm") \in Typed
  BY ReadsType DEF Messages
<1>2. \A name : Reads(name).reads
  BY DEF Reads
<1> QED BY <1>1, <1>2 DEF Readbacks

LEMMA VideoType ==
  ASSUME NEW name \in Names, NEW mode \in 0 .. 2
  PROVE  Sets(name, "stream", "video", mode) \in Typed
BY SetsType, CommandNames

LEMMA BadType == BadRequest \in Typed
<1>1. "bad" \in Names /\ "bad" \in Messages /\ "video" \in Settings
  BY CommandNames
<1> QED BY <1>1, SetsType DEF BadRequest

\* ApplyDeviceConfig never asks for a value that a setting does not have.
LEMMA EachType ==
  ASSUME NEW b \in Body
  PROVE  /\ Sets("preset", "stream", "video", Qvga) \in Typed
         /\ Sets("preset", "stream", "video", Vga) \in Typed
         /\ Sets("preset.stop", "stream", "video", Off) \in Typed
         /\ Sets("stream", "stream", "video", Qvga) \in Typed
         /\ Sets("stream", "stream", "video", Vga) \in Typed
         /\ Sets("stream", "stream", "video", Off) \in Typed
         /\ Sets("audio", "stream", "audio", 0) \in Typed
         /\ Sets("audio", "stream", "audio", 1) \in Typed
         /\ Sets("dev_control", "dev_control", "control", RateBit(b)) \in Typed
         /\ Sets("set_cyalarm", "set_cyalarm", "alarm", 1) \in Typed
         /\ Sets("set_sysparms", "set_sysparms", "system", 1) \in Typed
         /\ Sets("set_cypush", "set_cypush", "push", 1) \in Typed
<1>1. /\ Sets("preset", "stream", "video", Qvga) \in Typed
      /\ Sets("preset", "stream", "video", Vga) \in Typed
      /\ Sets("preset.stop", "stream", "video", Off) \in Typed
  BY VideoType, CommandNames
<1>2. /\ Sets("stream", "stream", "video", Qvga) \in Typed
      /\ Sets("stream", "stream", "video", Vga) \in Typed
      /\ Sets("stream", "stream", "video", Off) \in Typed
  BY VideoType, CommandNames
<1>3. /\ Sets("audio", "stream", "audio", 0) \in Typed
      /\ Sets("audio", "stream", "audio", 1) \in Typed
  <2>1. "audio" \in Names /\ "stream" \in Messages /\ "audio" \in Settings
    BY CommandNames
  <2> QED BY <2>1, SetsType
<1>4. Sets("dev_control", "dev_control", "control", RateBit(b)) \in Typed
  BY SetsType, RateBitType, CommandNames
<1>5. /\ Sets("set_cyalarm", "set_cyalarm", "alarm", 1) \in Typed
      /\ Sets("set_sysparms", "set_sysparms", "system", 1) \in Typed
      /\ Sets("set_cypush", "set_cypush", "push", 1) \in Typed
  BY SetsType, CommandNames
<1> QED BY <1>1, <1>2, <1>3, <1>4, <1>5

LEMMA PartsType ==
  ASSUME NEW b \in Body
  PROVE  /\ PresetVideo(b) \in Seq(Typed) /\ StreamVideo(b) \in Seq(Typed)
         /\ StreamAudio(b) \in Seq(Typed) /\ DevControl(b) \in Seq(Typed)
         /\ Others(b) \in Seq(Typed)
<1>1. PresetVideo(b) \in Seq(Typed) /\ StreamVideo(b) \in Seq(Typed)
  BY EachType, BadType, IfType DEF PresetVideo, StreamVideo
<1>2. StreamAudio(b) \in Seq(Typed)
  BY EachType, BadType, IfType DEF StreamAudio
<1>3. DevControl(b) \in Seq(Typed)
  BY EachType, BadType, IfType DEF DevControl
<1>4. Others(b) \in Seq(Typed)
  BY EachType, BadType, IfType DEF Others
<1> QED BY <1>1, <1>2, <1>3, <1>4

LEMMA CommandsType == ASSUME NEW b \in Body PROVE Commands(b) \in Seq(Typed)
BY PartsType DEF Commands

-----------------------------------------------------------------------------
(* "ok" stands for all commands of a request.                                *)

OneResult == [command : Typed, ok : BOOLEAN]

Asked(h) == IF body[h] = Absent THEN Readbacks ELSE Commands(body[h])

Sent(rs) == [i \in DOMAIN rs |-> rs[i].command]

\* The types of what the type invariant leaves open.
Detailed ==
  /\ todo \in [Callers -> Seq(Typed)] /\ results \in [Callers -> Seq(OneResult)]
  /\ reply \in [Callers -> [status : Int, ok : BOOLEAN, timeout : BOOLEAN]]
  /\ flight \subseteq Typed

\* A request in progress has sent some of its commands and has the others to send,
\* and it has not answered "ok".
InProgress(h) ==
  /\ stage[h] # "idle" => Sent(results[h]) \o todo[h] = Asked(h) /\ ~reply[h].ok
  /\ stage[h] = "resizes" => todo[h] = <<>> /\ TargetStreamSize(body[h]) # 0

OkIsAll(h) == reply[h].ok => AllOK(results[h]) /\ Sent(results[h]) = Asked(h)

\* A command that was only read, and not answered, has failed for good.
TimedOut(h) ==
  body[h] = Absent /\ reply[h].timeout =>
    \E i \in DOMAIN results[h] :
      ~results[h][i].ok /\ (stage[h] = "waits" => i < Len(results[h]))

DeviceIInv ==
  /\ DeviceTypeOK /\ Detailed
  /\ \A h \in Callers : InProgress(h) /\ OkIsAll(h) /\ TimedOut(h)

LEMMA AskedType ==
  ASSUME DeviceTypeOK, NEW h \in Callers
  PROVE  Asked(h) \in Seq(Typed)
<1>1. body[h] # Absent => body[h] \in Body
  BY ScenariosAssumption DEF DeviceTypeOK
<1> QED BY <1>1, ReadbacksType, CommandsType DEF Asked

LEMMA SentType ==
  ASSUME NEW rs \in Seq(OneResult)
  PROVE  Sent(rs) \in Seq(Typed) /\ Len(Sent(rs)) = Len(rs) /\ DOMAIN Sent(rs) = 1 .. Len(rs)
<1>1. \A i \in 1 .. Len(rs) : rs[i] \in OneResult
  OBVIOUS
<1>2. \A i \in 1 .. Len(rs) : rs[i].command \in Typed
  BY <1>1 DEF OneResult
<1> QED BY <1>2 DEF Sent

\* To send a command moves it from what is to be sent to what was sent.
LEMMA SentAppend ==
  ASSUME NEW rs \in Seq(OneResult), NEW q \in Seq(Typed), q # <<>>, NEW ok \in BOOLEAN
  PROVE  LET r == Append(rs, Result(Head(q), ok)) IN
         /\ r \in Seq(OneResult) /\ Len(r) = Len(rs) + 1 /\ Sent(r) \o Tail(q) = Sent(rs) \o q
         /\ \A i \in 1 .. Len(rs) : r[i] = rs[i]
         /\ r[Len(rs) + 1] = Result(Head(q), ok)
<1>1. PICK r : r = Append(rs, Result(Head(q), ok))
  OBVIOUS
<1>2. Result(Head(q), ok) \in OneResult
  BY DEF Result, OneResult
<1>3. r \in Seq(OneResult) /\ Len(r) = Len(rs) + 1
  BY <1>1, <1>2
<1>4. \A i \in 1 .. Len(r) : Sent(r)[i] = IF i <= Len(rs) THEN Sent(rs)[i] ELSE Head(q)
  BY <1>1, <1>2, <1>3, SentType DEF Sent, Result
<1>5. Sent(r) = Append(Sent(rs), Head(q))
  <2>1. PICK p1 \in Seq(Typed), p2 \in Seq(Typed), c \in Typed, n \in Nat :
          p1 = Sent(rs) /\ p2 = Sent(r) /\ c = Head(q) /\ n = Len(rs)
    BY <1>3, SentType
  <2>2. Len(p1) = n /\ Len(p2) = n + 1 /\ \A i \in 1 .. n + 1 : p2[i] = IF i <= n THEN p1[i] ELSE c
    BY <1>3, <1>4, <2>1, SentType
  <2>3. p2 = Append(p1, c)
    BY <2>2
  <2> QED BY <2>1, <2>3
<1>6. Append(Sent(rs), Head(q)) \o Tail(q) = Sent(rs) \o q
  BY SentType
<1>7. (\A i \in 1 .. Len(rs) : r[i] = rs[i]) /\ r[Len(rs) + 1] = Result(Head(q), ok)
  BY <1>1, <1>2
<1> QED BY <1>1, <1>3, <1>5, <1>6, <1>7

\* The result of the last command, once it is known.
LEMMA WithLastType ==
  ASSUME NEW rs \in Seq(OneResult), rs # <<>>, NEW ok \in BOOLEAN
  PROVE  LET r == WithLast(rs, ok) IN
         /\ r \in Seq(OneResult) /\ Len(r) = Len(rs) /\ Sent(r) = Sent(rs)
         /\ \A i \in 1 .. Len(rs) - 1 : r[i] = rs[i]
         /\ r[Len(rs)].ok = ok
<1>1. PICK r : r = WithLast(rs, ok)
  OBVIOUS
<1>2. PICK n \in Nat : n = Len(rs) /\ n >= 1
  OBVIOUS
<1>3. Last(rs) = rs[n] /\ Front(rs) = SubSeq(rs, 1, n - 1)
  BY <1>2 DEF Last, Front
<1>4. Result(rs[n].command, ok) \in OneResult
  <2>1. rs[n] \in OneResult
    BY <1>2
  <2> QED BY <2>1 DEF Result, OneResult
<1>5. r = SubSeq(rs, 1, n - 1) \o <<Result(rs[n].command, ok)>>
  BY <1>1, <1>3 DEF WithLast
<1>6. SubSeq(rs, 1, n - 1) \in Seq(OneResult) /\ Len(SubSeq(rs, 1, n - 1)) = n - 1
      /\ \A i \in 1 .. n - 1 : SubSeq(rs, 1, n - 1)[i] = rs[i]
  BY <1>2
<1>7. /\ r \in Seq(OneResult) /\ Len(r) = n
      /\ \A i \in 1 .. n - 1 : r[i] = rs[i]
      /\ r[n] = Result(rs[n].command, ok)
  BY <1>2, <1>4, <1>5, <1>6
<1>8. \A i \in 1 .. n : r[i].command = rs[i].command
  BY <1>2, <1>7 DEF Result
<1>9. Sent(r) = Sent(rs)
  BY <1>2, <1>7, <1>8, SentType DEF Sent
<1> QED BY <1>1, <1>2, <1>7, <1>9 DEF Result

\* Nothing about one handler changes.
LEMMA SameCaller ==
  ASSUME NEW h \in Callers, InProgress(h), OkIsAll(h), TimedOut(h),
         stage'[h] = stage[h], body'[h] = body[h], todo'[h] = todo[h],
         results'[h] = results[h], reply'[h] = reply[h]
  PROVE  InProgress(h)' /\ OkIsAll(h)' /\ TimedOut(h)'
<1>1. Asked(h)' = Asked(h)
  BY DEF Asked
<1>2. Sent(results[h])' = Sent(results[h]) /\ AllOK(results[h])' = AllOK(results[h])
  BY DEF Sent, AllOK
<1> QED BY <1>1, <1>2 DEF InProgress, OkIsAll, TimedOut

\* The last command that a reader waits for only reads.
LEMMA ReaderWaits ==
  ASSUME DeviceTypeOK, Detailed, NEW h \in Callers, InProgress(h), stage[h] = "waits",
         body[h] = Absent
  PROVE  Awaited(h).reads
<1>1. PICK rs \in Seq(OneResult), q \in Seq(Typed), n \in Nat :
        rs = results[h] /\ q = todo[h] /\ n = Len(rs) /\ n >= 1
  BY DEF DeviceTypeOK, Detailed
<1>2. Sent(rs) \o q = Readbacks
  BY <1>1 DEF InProgress, Asked
<1>3. n \in DOMAIN Readbacks /\ Readbacks[n] = Sent(rs)[n]
  <2>1. PICK p \in Seq(Typed) : p = Sent(rs) /\ Len(p) = n
    BY <1>1, SentType
  <2>2. Len(q) \in Nat /\ Len(p \o q) = n + Len(q) /\ DOMAIN (p \o q) = 1 .. n + Len(q)
    BY <2>1
  <2>3. \A i \in 1 .. n : i \in DOMAIN (p \o q) /\ (p \o q)[i] = p[i]
    BY <2>1, <2>2
  <2>4. p \o q = Readbacks
    BY <1>2, <2>1
  <2>5. n \in 1 .. n
    BY <1>1
  <2> QED BY <2>1, <2>3, <2>4, <2>5
<1>4. Sent(rs)[n] = Last(rs).command
  BY <1>1, SentType DEF Sent, Last
<1> QED BY <1>1, <1>3, <1>4, ReadbacksType DEF Awaited

\* DeviceIInv holds at the start, and every action keeps it: one lemma for types of
\* what does not depend on a handler, one for handlers.
LEMMA DeviceStart == DeviceInit => DeviceIInv
<1> SUFFICES ASSUME DeviceInit PROVE DeviceIInv
  OBVIOUS
<1>1. DeviceTypeOK
  <2>1. config \in Sizes /\ profile \in Sizes /\ config \in 0 .. 2
    BY ScenariosAssumption DEF DeviceInit, Sizes, Vga, Qvga
  <2>2. camera \in [Settings -> 0 .. 64] /\ camera["video"] \in 0 .. 2
    BY <2>1, CommandNames DEF DeviceInit
  <2>3. loop \in Seq(0 .. 2) /\ Len(loop) <= 2
    BY DEF DeviceInit
  <2>4. requests \in 0 .. MaxRequests
    BY BoundAssumption DEF DeviceInit
  <2> QED BY <2>1, <2>2, <2>3, <2>4 DEF DeviceInit, DeviceTypeOK, Entries
<1>2. Detailed
  BY DEF DeviceInit, Detailed
<1>3. ASSUME NEW h \in Callers PROVE InProgress(h) /\ OkIsAll(h) /\ TimedOut(h)
  BY DEF DeviceInit, InProgress, OkIsAll, TimedOut
<1> QED BY <1>1, <1>2, <1>3 DEF DeviceIInv

\* What a handler has in its variables.
LEMMA CallerType ==
  ASSUME DeviceTypeOK, Detailed, NEW h \in Callers
  PROVE  /\ todo[h] \in Seq(Typed) /\ results[h] \in Seq(OneResult)
         /\ reply[h] \in [status : Int, ok : BOOLEAN, timeout : BOOLEAN]
         /\ stage[h] \in {"idle", "sends", "waits", "resizes"}
         /\ stage[h] = "waits" => results[h] # <<>>
BY DEF DeviceTypeOK, Detailed

LEMMA BeginStep ==
  ASSUME DeviceIInv, NEW h \in Callers, NEW b \in scenario.bodies \cup {Absent},
         Begin(h, b, IF b = Absent THEN Readbacks ELSE Commands(b))
  PROVE  DeviceIInv'
<1>1. PICK q : q = (IF b = Absent THEN Readbacks ELSE Commands(b))
  OBVIOUS
<1>2. q \in Seq(Typed)
  <2>1. b # Absent => b \in Body
    BY ScenariosAssumption DEF DeviceIInv, DeviceTypeOK
  <2> QED BY <1>1, <2>1, ReadbacksType, CommandsType
<1>3. DeviceTypeOK'
  BY BoundAssumption DEF DeviceIInv, DeviceTypeOK, Begin, network
<1>4. Detailed'
  BY <1>1, <1>2 DEF DeviceIInv, Detailed, Begin, network
<1>5. ASSUME NEW g \in Callers PROVE InProgress(g)' /\ OkIsAll(g)' /\ TimedOut(g)'
  <2>1. CASE g = h
    <3>1. /\ stage'[h] = "sends" /\ body'[h] = b /\ todo'[h] = q /\ results'[h] = <<>>
          /\ ~reply'[h].ok /\ ~reply'[h].timeout
      BY <1>1 DEF Begin, DeviceIInv, DeviceTypeOK, Detailed
    <3>2. Asked(h)' = q
      BY <1>1, <3>1 DEF Asked
    <3>3. Sent(results'[h]) \o q = q
      BY <1>2, <3>1 DEF Sent
    <3> QED BY <2>1, <3>1, <3>2, <3>3 DEF InProgress, OkIsAll, TimedOut
  <2>2. CASE g # h
    BY <2>2, SameCaller DEF Begin, DeviceIInv, DeviceTypeOK, Detailed
  <2> QED BY <2>1, <2>2
<1> QED BY <1>3, <1>4, <1>5 DEF DeviceIInv

LEMMA SendStep ==
  ASSUME DeviceIInv, NEW h \in Callers, SendCommand(h) \/ NotSent(h)
  PROVE  DeviceIInv'
<1>1. PICK rs \in Seq(OneResult), q \in Seq(Typed) : rs = results[h] /\ q = todo[h] /\ q # <<>>
  BY CallerType DEF DeviceIInv, SendCommand, NotSent
<1>2. PICK r : r = Append(rs, Result(Head(q), FALSE))
  OBVIOUS
<1>3. /\ r \in Seq(OneResult) /\ Len(r) = Len(rs) + 1 /\ Sent(r) \o Tail(q) = Sent(rs) \o q
      /\ \A i \in 1 .. Len(rs) : r[i] = rs[i]
  BY <1>1, <1>2, SentAppend
<1>4. /\ todo' = [todo EXCEPT ![h] = Tail(q)] /\ results' = [results EXCEPT ![h] = r]
      /\ stage' \in {stage, [stage EXCEPT ![h] = "waits"]} /\ stage[h] = "sends"
      /\ flight' \in {flight, flight \cup {Head(q)}}
      /\ UNCHANGED <<scenario, body, reply, config, entry, profile, loop, camera, answers,
                     requests>>
  BY <1>1, <1>2 DEF SendCommand, NotSent, network
<1>5. DeviceTypeOK'
  <2>1. r # <<>>
    BY <1>1, <1>3
  <2>2. \A g \in Callers : stage'[g] = "waits" => results'[g] # <<>>
    BY <1>4, <2>1 DEF DeviceIInv, DeviceTypeOK, Detailed
  <2> QED BY <1>4, <2>2 DEF DeviceIInv, DeviceTypeOK
<1>6. Detailed'
  <2>1. Head(q) \in Typed /\ Tail(q) \in Seq(Typed)
    BY <1>1
  <2> QED BY <1>3, <1>4, <2>1 DEF DeviceIInv, Detailed
<1>7. ASSUME NEW g \in Callers PROVE InProgress(g)' /\ OkIsAll(g)' /\ TimedOut(g)'
  <2>1. CASE g = h
    <3>1. /\ todo'[h] = Tail(q) /\ results'[h] = r /\ stage'[h] \in {"sends", "waits"}
          /\ body'[h] = body[h] /\ reply'[h] = reply[h] /\ ~reply[h].ok
      BY <1>4 DEF DeviceIInv, DeviceTypeOK, Detailed, InProgress
    <3>2. Asked(h)' = Asked(h)
      BY <3>1 DEF Asked
    <3>3. InProgress(h)'
      BY <1>1, <1>3, <1>4, <3>1, <3>2 DEF DeviceIInv, InProgress
    <3>4. TimedOut(h)'
      <4> SUFFICES ASSUME body[h] = Absent, reply[h].timeout
                   PROVE  \E i \in DOMAIN r : ~r[i].ok /\ i < Len(r)
        BY <3>1 DEF TimedOut
      <4>1. PICK i \in DOMAIN rs : ~rs[i].ok
        BY <1>1 DEF DeviceIInv, TimedOut
      <4>2. i \in 1 .. Len(rs) /\ i \in DOMAIN r /\ i < Len(r)
        BY <1>1, <1>3
      <4> QED BY <1>3, <4>1, <4>2
    <3> QED BY <2>1, <3>1, <3>3, <3>4 DEF OkIsAll
  <2>2. CASE g # h
    BY <1>4, <2>2, SameCaller DEF DeviceIInv, DeviceTypeOK, Detailed
  <2> QED BY <2>1, <2>2
<1> QED BY <1>5, <1>6, <1>7 DEF DeviceIInv

\* An answer, or that none came: for one handler or for several.
LEMMA CallerAnswered ==
  ASSUME DeviceTypeOK, Detailed, NEW h \in Callers, InProgress(h), OkIsAll(h), TimedOut(h),
         stage[h] = "waits", NEW ok \in BOOLEAN, NEW timeout \in BOOLEAN,
         stage'[h] = "sends", body'[h] = body[h], todo'[h] = todo[h],
         results'[h] = WithLast(results[h], ok),
         reply'[h] = IF timeout THEN [reply[h] EXCEPT !.timeout = TRUE] ELSE reply[h],
         timeout => ok = ~Awaited(h).reads
  PROVE  InProgress(h)' /\ OkIsAll(h)' /\ TimedOut(h)'
<1>1. PICK rs \in Seq(OneResult), n \in Nat : rs = results[h] /\ n = Len(rs) /\ n >= 1
  BY CallerType
<1>2. PICK r : r = WithLast(rs, ok)
  OBVIOUS
<1>3. /\ r \in Seq(OneResult) /\ Len(r) = n /\ Sent(r) = Sent(rs)
      /\ \A i \in 1 .. n - 1 : r[i] = rs[i]
      /\ r[n].ok = ok
  BY <1>1, <1>2, WithLastType
<1>4. Asked(h)' = Asked(h)
  BY DEF Asked
<1>5. ~reply[h].ok /\ reply'[h].ok = reply[h].ok
  BY CallerType DEF InProgress
<1>6. InProgress(h)' /\ OkIsAll(h)'
  BY <1>1, <1>2, <1>3, <1>4, <1>5 DEF InProgress, OkIsAll
<1>7. TimedOut(h)'
  <2> SUFFICES ASSUME body[h] = Absent, reply'[h].timeout
               PROVE  \E i \in 1 .. n : ~r[i].ok
    BY <1>1, <1>2, <1>3 DEF TimedOut
  <2>1. CASE timeout
    <3>1. ~r[n].ok
      BY <1>3, <2>1, ReaderWaits
    <3> QED BY <1>1, <3>1
  <2>2. CASE ~timeout
    <3>1. PICK i \in 1 .. n : ~rs[i].ok /\ i < n
      BY <1>1, <2>2 DEF TimedOut
    <3> QED BY <1>1, <1>3, <3>1
  <2> QED BY <2>1, <2>2
<1> QED BY <1>6, <1>7

LEMMA TimeoutStep ==
  ASSUME DeviceIInv, NEW h \in Callers, Timeout(h)
  PROVE  DeviceIInv'
<1>1. PICK rs \in Seq(OneResult) : rs = results[h] /\ rs # <<>>
  BY CallerType DEF DeviceIInv, Timeout
<1>2. PICK ok \in BOOLEAN : ok = ~Awaited(h).reads
  OBVIOUS
<1>3. PICK r : r = WithLast(rs, ok) /\ r \in Seq(OneResult)
  BY <1>1, WithLastType
<1>4. /\ stage[h] = "waits" /\ stage' = [stage EXCEPT ![h] = "sends"]
      /\ results' = [results EXCEPT ![h] = r] /\ reply' = [reply EXCEPT ![h].timeout = TRUE]
      /\ UNCHANGED <<scenario, body, todo, config, entry, profile, loop, camera, network,
                     requests>>
  BY <1>1, <1>2, <1>3 DEF Timeout
<1>5. DeviceTypeOK'
  BY <1>4 DEF DeviceIInv, DeviceTypeOK, network
<1>6. Detailed'
  BY <1>3, <1>4 DEF DeviceIInv, Detailed, network
<1>7. ASSUME NEW g \in Callers PROVE InProgress(g)' /\ OkIsAll(g)' /\ TimedOut(g)'
  <2>1. CASE g = h
    <3>1. /\ stage'[h] = "sends" /\ body'[h] = body[h] /\ todo'[h] = todo[h] /\ results'[h] = r
          /\ reply'[h] = [reply[h] EXCEPT !.timeout = TRUE]
      BY <1>4 DEF DeviceIInv, DeviceTypeOK, Detailed
    <3> QED BY <1>1, <1>2, <1>3, <1>4, <2>1, <3>1, CallerAnswered DEF DeviceIInv
  <2>2. CASE g # h
    BY <1>4, <2>2, SameCaller DEF DeviceIInv, DeviceTypeOK, Detailed
  <2> QED BY <2>1, <2>2
<1> QED BY <1>5, <1>6, <1>7 DEF DeviceIInv

LEMMA AnswerStep ==
  ASSUME DeviceIInv, NEW a \in answers, Answer(a)
  PROVE  DeviceIInv'
<1>1. PICK waiting \in SUBSET Callers :
        waiting = {h \in Callers : stage[h] = "waits" /\ Awaited(h).cmd = a.cmd}
  OBVIOUS
<1>2. /\ answers' = answers \ {a}
      /\ stage' = [h \in Callers |-> IF h \in waiting THEN "sends" ELSE stage[h]]
      /\ results' = [h \in Callers |->
                       IF h \in waiting THEN WithLast(results[h], a.ok) ELSE results[h]]
      /\ UNCHANGED <<scenario, body, todo, reply, config, entry, profile, loop, camera, flight,
                     requests>>
  BY <1>1 DEF Answer
<1>3. a.ok \in BOOLEAN
  <2>1. a \in [cmd : Messages, ok : BOOLEAN]
    BY DEF DeviceIInv, DeviceTypeOK
  <2> QED BY <2>1
<1>4. \A h \in waiting : /\ stage[h] = "waits" /\ results[h] \in Seq(OneResult)
                         /\ results[h] # <<>>
                         /\ WithLast(results[h], a.ok) \in Seq(OneResult)
  BY <1>1, <1>3, CallerType, WithLastType DEF DeviceIInv
<1>5. DeviceTypeOK'
  BY <1>2 DEF DeviceIInv, DeviceTypeOK
<1>6. Detailed'
  BY <1>2, <1>4 DEF DeviceIInv, Detailed
<1>7. ASSUME NEW g \in Callers PROVE InProgress(g)' /\ OkIsAll(g)' /\ TimedOut(g)'
  <2>1. CASE g \in waiting
    <3>1. /\ stage'[g] = "sends" /\ body'[g] = body[g] /\ todo'[g] = todo[g]
          /\ results'[g] = WithLast(results[g], a.ok) /\ reply'[g] = reply[g]
      BY <1>2, <2>1
    <3>2. reply'[g] = IF FALSE THEN [reply[g] EXCEPT !.timeout = TRUE] ELSE reply[g]
      BY <3>1
    <3> QED BY <1>3, <1>4, <2>1, <3>1, <3>2, CallerAnswered DEF DeviceIInv
  <2>2. CASE g \notin waiting
    BY <1>2, <2>2, SameCaller DEF DeviceIInv
  <2> QED BY <2>1, <2>2
<1> QED BY <1>5, <1>6, <1>7 DEF DeviceIInv

LEMMA RespondStep ==
  ASSUME DeviceIInv, NEW h \in Callers, NEW status \in Int, NEW ok \in BOOLEAN,
         stage[h] # "idle", Respond(h, status, ok),
         ok => AllOK(results[h]) /\ todo[h] = <<>>,
         config' \in Sizes, profile' \in Sizes, entry' \in Entries,
         UNCHANGED <<scenario, body, results, loop, camera, network, requests>>
  PROVE  DeviceIInv'
<1>1. /\ stage' = [stage EXCEPT ![h] = "idle"] /\ todo' = [todo EXCEPT ![h] = <<>>]
      /\ reply' = [reply EXCEPT ![h] = [reply[h] EXCEPT !.status = status, !.ok = ok]]
      /\ UNCHANGED <<scenario, body, results, loop, camera, flight, answers, requests>>
  BY CallerType DEF DeviceIInv, Respond, network
<1>2. [reply[h] EXCEPT !.status = status, !.ok = ok]
        \in [status : Int, ok : BOOLEAN, timeout : BOOLEAN]
  BY CallerType DEF DeviceIInv
<1>3. DeviceTypeOK'
  BY <1>1 DEF DeviceIInv, DeviceTypeOK
<1>4. Detailed'
  BY <1>1, <1>2 DEF DeviceIInv, Detailed
<1>5. ASSUME NEW g \in Callers PROVE InProgress(g)' /\ OkIsAll(g)' /\ TimedOut(g)'
  <2>1. CASE g = h
    <3>1. /\ stage'[h] = "idle" /\ body'[h] = body[h] /\ todo'[h] = <<>>
          /\ results'[h] = results[h] /\ reply'[h].ok = ok /\ reply'[h].timeout = reply[h].timeout
      BY <1>1, CallerType DEF DeviceIInv, DeviceTypeOK, Detailed
    <3>2. Asked(h)' = Asked(h)
      BY <3>1 DEF Asked
    <3>3. ok => Sent(results[h]) = Asked(h)
      <4>1. Sent(results[h]) \o todo[h] = Asked(h)
        BY DEF DeviceIInv, InProgress
      <4>2. Sent(results[h]) \in Seq(Typed)
        BY CallerType, SentType DEF DeviceIInv
      <4>3. Sent(results[h]) \o <<>> = Sent(results[h])
        BY <4>2
      <4> QED BY <4>1, <4>3
    <3>4. InProgress(h)' /\ OkIsAll(h)'
      BY <3>1, <3>2, <3>3 DEF InProgress, OkIsAll
    <3>5. TimedOut(h)'
      BY <3>1 DEF DeviceIInv, TimedOut
    <3> QED BY <2>1, <3>4, <3>5
  <2>2. CASE g # h
    BY <1>1, <2>2, SameCaller DEF DeviceIInv, DeviceTypeOK, Detailed
  <2> QED BY <2>1, <2>2
<1> QED BY <1>3, <1>4, <1>5 DEF DeviceIInv

LEMMA StatusType == ASSUME NEW h PROVE Status(h) \in Int /\ AllOK(results[h]) \in BOOLEAN
BY DEF Status, AllOK

\* The sizes that a body may give.
LEMMA TargetType == ASSUME NEW b PROVE TargetStreamSize(b) \in Sizes \cup {0}
BY DEF TargetStreamSize, Sizes

LEMMA HandlesStep ==
  ASSUME DeviceIInv, NEW h \in Callers, Handles(h)
  PROVE  DeviceIInv'
<1>1. CASE SendCommand(h) \/ NotSent(h)
  BY <1>1, SendStep
<1>2. CASE Timeout(h)
  BY <1>2, TimeoutStep
<1>3. config \in Sizes /\ profile \in Sizes /\ entry \in Entries
  BY DEF DeviceIInv, DeviceTypeOK
<1>4. CASE Reject(h) \/ Gone(h) \/ SaveFails(h)
  <2>1. PICK status \in Int : Respond(h, status, FALSE)
    <3>1. \/ Respond(h, 400, FALSE) \/ Respond(h, 404, FALSE) \/ Respond(h, 500, FALSE)
      BY <1>4 DEF Reject, Gone, SaveFails
    <3>2. 400 \in Int /\ 404 \in Int /\ 500 \in Int
      OBVIOUS
    <3> QED BY <3>1, <3>2, Zenon
  <2>2. /\ stage[h] # "idle"
        /\ UNCHANGED <<scenario, body, results, profile, loop, camera, network, requests>>
    BY <1>4 DEF Reject, Gone, SaveFails, Done
  <2>3. TargetStreamSize(body[h]) \in Sizes \cup {0}
    BY TargetType
  <2>4. config' \in Sizes /\ entry' \in Entries
    <3>1. CASE Reject(h) \/ Gone(h)
      BY <1>3, <3>1 DEF Reject, Gone
    <3>2. CASE SaveFails(h)
      BY <2>3, <3>2 DEF SaveFails, Resizes, Entries
    <3> QED BY <1>4, <3>1, <3>2
  <2>5. profile' \in Sizes
    BY <1>3, <2>2
  <2> QED BY <2>1, <2>2, <2>4, <2>5, RespondStep
<1>5. CASE Finish(h)
  <2>1. /\ stage[h] # "idle" /\ todo[h] = <<>> /\ Respond(h, Status(h), AllOK(results[h]))
        /\ UNCHANGED <<scenario, body, results, config, entry, profile, loop, camera, network,
                       requests>>
    BY <1>5 DEF Finish, Done
  <2> QED BY <1>3, <2>1, RespondStep, StatusType
<1>6. CASE SaveSize(h)
  <2>1. /\ stage' = [stage EXCEPT ![h] = "resizes"] /\ stage[h] = "sends" /\ todo[h] = <<>>
        /\ config' \in Sizes
        /\ UNCHANGED <<scenario, body, todo, results, reply, entry, profile, loop, camera, network,
                       requests>>
    BY <1>6, TargetType DEF SaveSize, Done, Resizes
  <2>2. DeviceTypeOK' /\ Detailed'
    BY <2>1 DEF DeviceIInv, DeviceTypeOK, Detailed, network
  <2>3. ASSUME NEW g \in Callers PROVE InProgress(g)' /\ OkIsAll(g)' /\ TimedOut(g)'
    <3>1. CASE g = h
      <4>1. /\ stage'[h] = "resizes" /\ body'[h] = body[h] /\ todo'[h] = todo[h]
            /\ results'[h] = results[h] /\ reply'[h] = reply[h]
        BY <2>1 DEF DeviceIInv, DeviceTypeOK
      <4>2. Asked(h)' = Asked(h)
        BY <4>1 DEF Asked
      <4>3. TargetStreamSize(body[h]) # 0
        BY <1>6 DEF SaveSize, Resizes
      <4> QED BY <2>1, <3>1, <4>1, <4>2, <4>3 DEF DeviceIInv, InProgress, OkIsAll, TimedOut
    <3>2. CASE g # h
      BY <2>1, <3>2, SameCaller DEF DeviceIInv, DeviceTypeOK
    <3> QED BY <3>1, <3>2
  <2> QED BY <2>2, <2>3 DEF DeviceIInv
<1>7. CASE SetProfileSize(h)
  <2>1. stage[h] = "resizes" /\ Respond(h, Status(h), AllOK(results[h]))
        /\ profile' = TargetStreamSize(body[h])
        /\ entry' \in {entry, "kept"}
        /\ UNCHANGED <<scenario, body, results, config, loop, camera, network, requests>>
    BY <1>7 DEF SetProfileSize
  <2>2. todo[h] = <<>>
    BY <2>1 DEF DeviceIInv, InProgress
  <2>3. TargetStreamSize(body[h]) \in Sizes
    <3>1. TargetStreamSize(body[h]) # 0
      BY <2>1 DEF DeviceIInv, InProgress
    <3>2. TargetStreamSize(body[h]) \in Sizes \cup {0}
      BY TargetType
    <3> QED BY <3>1, <3>2
  <2>4. config' \in Sizes /\ profile' \in Sizes
    BY <1>3, <2>1, <2>3
  <2>5. entry' \in Entries
    BY <1>3, <2>1 DEF Entries
  <2> QED BY <2>1, <2>2, <2>4, <2>5, RespondStep, StatusType
<1> QED BY <1>1, <1>2, <1>4, <1>5, <1>6, <1>7 DEF Handles

\* streamLoop, a DELETE, the camera and the network.
LEMMA OthersStep ==
  ASSUME DeviceIInv,
         \/ Deletes \/ LoopReads \/ LoopSends \/ Loses \/ \E c \in flight : Executes(c)
         \/ UNCHANGED device
  PROVE  DeviceIInv'
<1>1. UNCHANGED <<scenario, stage, body, todo, results, reply, config, profile, requests>>
  BY DEF Deletes, LoopReads, LoopSends, Loses, Executes, device, handler
<1>2. entry' \in Entries
  BY DEF Deletes, LoopReads, LoopSends, Loses, Executes, device, DeviceIInv, DeviceTypeOK, Entries
<1>3. ASSUME Deletes PROVE DeviceTypeOK' /\ Detailed'
  <2>1. loop' = <<>> \/ loop' = loop
    BY <1>3 DEF Deletes
  <2>2. <<>> \in Seq(0 .. 2) /\ Len(<<>>) <= 2
    OBVIOUS
  <2>3. loop' \in Seq(0 .. 2) /\ Len(loop') <= 2
    <3>1. CASE loop' = <<>>
      BY <2>2, <3>1
    <3>2. CASE loop' = loop
      BY <3>2 DEF DeviceIInv, DeviceTypeOK
    <3> QED BY <2>1, <3>1, <3>2
  <2> QED BY <1>1, <1>2, <1>3, <2>3 DEF Deletes, DeviceIInv, DeviceTypeOK, Detailed, network
<1>4. ASSUME LoopReads PROVE DeviceTypeOK' /\ Detailed'
  <2>1. Off \in 0 .. 2 /\ profile \in 0 .. 2
    BY CommandNames DEF DeviceIInv, DeviceTypeOK, Sizes
  <2>2. /\ <<profile>> \in Seq(0 .. 2) /\ <<Off, profile>> \in Seq(0 .. 2)
        /\ Len(<<profile>>) <= 2 /\ Len(<<Off, profile>>) <= 2
    BY <2>1
  <2>3. loop' \in Seq(0 .. 2) /\ Len(loop') <= 2
    BY <1>4, <2>2 DEF LoopReads
  <2> QED BY <1>1, <1>2, <1>4, <2>3 DEF LoopReads, DeviceIInv, DeviceTypeOK, Detailed, network
<1>5. ASSUME LoopSends PROVE DeviceTypeOK' /\ Detailed'
  <2>1. Head(loop) \in 0 .. 2 /\ Tail(loop) \in Seq(0 .. 2) /\ Len(Tail(loop)) <= 2
    BY <1>5 DEF LoopSends, DeviceIInv, DeviceTypeOK
  <2>2. Sets("loop", "stream", "video", Head(loop)) \in Typed
    BY <2>1, VideoType, CommandNames
  <2> QED BY <1>1, <1>2, <1>5, <2>1, <2>2 DEF LoopSends, DeviceIInv, DeviceTypeOK, Detailed
<1>6. ASSUME Loses PROVE DeviceTypeOK' /\ Detailed'
  BY <1>1, <1>6, <1>2 DEF Loses, DeviceIInv, DeviceTypeOK, Detailed
<1>7. ASSUME NEW c \in flight, Executes(c) PROVE DeviceTypeOK' /\ Detailed'
  <2>1. c \in Typed
    BY DEF DeviceIInv, Detailed
  <2>2. c.cmd \in Messages /\ c.setting \in Settings /\ c.value \in 0 .. 64
        /\ (c.setting = "video" => c.value \in 0 .. 2)
    BY <2>1 DEF Typed, Command
  <2>3. [cmd |-> c.cmd, ok |-> ~Refuses(c)] \in [cmd : Messages, ok : BOOLEAN]
    BY <2>2
  <2>4. answers' \subseteq [cmd : Messages, ok : BOOLEAN]
    BY <1>7, <2>3 DEF Executes, DeviceIInv, DeviceTypeOK
  <2>5. camera' \in [Settings -> 0 .. 64] /\ camera'["video"] \in 0 .. 2
    BY <1>7, <2>2, CommandNames DEF Executes, DeviceIInv, DeviceTypeOK
  <2>6. flight' \subseteq Typed /\ UNCHANGED loop
    BY <1>7 DEF Executes, DeviceIInv, Detailed
  <2> QED BY <1>1, <1>2, <2>4, <2>5, <2>6 DEF DeviceIInv, DeviceTypeOK, Detailed
<1>8. ASSUME UNCHANGED device PROVE DeviceTypeOK' /\ Detailed'
  BY <1>1, <1>8, <1>2 DEF device, network, DeviceIInv, DeviceTypeOK, Detailed
<1>9. DeviceTypeOK' /\ Detailed'
  BY <1>4, <1>5, <1>6, <1>7, <1>8, <1>3 DEF DeviceIInv
<1>10. ASSUME NEW g \in Callers PROVE InProgress(g)' /\ OkIsAll(g)' /\ TimedOut(g)'
  BY <1>1, SameCaller DEF DeviceIInv
<1> QED BY <1>9, <1>10 DEF DeviceIInv

LEMMA DeviceStep == ASSUME DeviceIInv, [DeviceNext]_device PROVE DeviceIInv'
<1>1. ASSUME NEW h \in Callers, RefreshDeviceConfig(h) PROVE DeviceIInv'
  BY <1>1, BeginStep DEF RefreshDeviceConfig
<1>2. ASSUME NEW h \in Callers, NEW b \in scenario.bodies, ApplyDeviceConfig(h, b) PROVE DeviceIInv'
  <2>1. b # Absent
    BY ScenariosAssumption, AbsentAssumption DEF DeviceIInv, DeviceTypeOK
  <2> QED BY <1>2, <2>1, BeginStep DEF ApplyDeviceConfig
<1> QED BY <1>1, <1>2, HandlesStep, AnswerStep, OthersStep DEF DeviceNext

\* What handlers have sent, have to send and have answered always fits together.
THEOREM DeviceInvariant == DeviceSpec => []DeviceIInv
BY DeviceStart, DeviceStep, PTL DEF DeviceSpec

\* Types; and "ok" stands for every command of the request: all were sent, in the
\* order of the code, none was refused, and those that only read were answered.
THEOREM OkForAll == DeviceSpec => []Inv
<1>1. ASSUME DeviceIInv, NEW h \in Callers, reply[h].ok
      PROVE  /\ \A i \in DOMAIN results[h] : results[h][i].ok
             /\ body[h] = Absent => ~reply[h].timeout
             /\ Sent(results[h]) = Asked(h)
  BY <1>1 DEF DeviceIInv, OkIsAll, AllOK, TimedOut
<1>2. DeviceIInv => Inv
  BY <1>1 DEF DeviceIInv, Inv, OkMeansAll, Sent, Asked
<1> QED BY <1>2, DeviceInvariant, PTL

-----------------------------------------------------------------------------
(* What a request does to the camera, if nothing gets lost or late, nobody   *)
(* watches and there are no other requests meanwhile.                        *)

Alone == \E g : Callers = {g}

\* The command changes a setting.
Changes(c, s) ==
  c.setting = s /\ ~Refuses(c) /\ ~c.reads /\ ~(c.setting = "control" /\ c.value = 0)

\* How many of its commands the camera has executed, or refused.
Executed(h) ==
  IF stage[h] = "waits" /\ flight # {} THEN Len(results[h]) - 1 ELSE Len(results[h])

\* The commands on their way are those of the handler, each result says whether the
\* camera refused the command, and for each setting the last command counts.
InStep(h) ==
  /\ ~reply[h].timeout
  /\ stage[h] # "waits" => flight = {} /\ answers = {}
  /\ stage[h] = "waits" =>
       \/ flight = {Awaited(h)} /\ answers = {}
       \/ flight = {} /\ answers = {[cmd |-> Awaited(h).cmd, ok |-> ~Refuses(Awaited(h))]}
  /\ \A i \in DOMAIN results[h] :
       /\ results[h][i].command # BadRequest
       /\ \/ stage[h] = "waits" /\ i = Len(results[h])
          \/ results[h][i].ok = ~Refuses(results[h][i].command)
  /\ \A s \in Settings : \A i \in 1 .. Executed(h) :
       /\ Changes(results[h][i].command, s)
       /\ \A j \in i + 1 .. Executed(h) : ~Changes(results[h][j].command, s)
       => camera[s] = results[h][i].command.value

QuietInv == Quiet => loop = <<>> /\ \A h \in Callers : InStep(h)

\* Sent commands stay what they are.
LEMMA SameInStep ==
  ASSUME NEW h \in Callers, InStep(h),
         stage'[h] = stage[h] \/ (stage[h] # "waits" /\ stage'[h] # "waits"),
         results'[h] = results[h], reply'[h].timeout = reply[h].timeout,
         UNCHANGED <<scenario, camera, flight, answers>>
  PROVE  InStep(h)'
<1>1. Awaited(h)' = Awaited(h) /\ Executed(h)' = Executed(h)
  BY DEF Awaited, Executed
<1>2. \A c : Refuses(c)' = Refuses(c)
  BY DEF Refuses
<1>3. \A c, s : Changes(c, s)' = Changes(c, s)
  BY <1>2 DEF Changes
<1> QED BY <1>1, <1>2, <1>3 DEF InStep

LEMMA QuietSame ==
  ASSUME UNCHANGED scenario
  PROVE  /\ \A c : Refuses(c)' = Refuses(c)
         /\ \A c, s : Changes(c, s)' = Changes(c, s)
<1>1. \A c : Refuses(c)' = Refuses(c)
  BY DEF Refuses
<1> QED BY <1>1 DEF Changes

LEMMA BeginInStep ==
  ASSUME DeviceIInv, NEW h \in Callers, InStep(h), NEW b, NEW q, Begin(h, b, q)
  PROVE  InStep(h)'
<1>1. /\ stage[h] # "waits" /\ stage'[h] = "sends" /\ results'[h] = <<>> /\ ~reply'[h].timeout
      /\ flight' = flight /\ answers' = answers
  BY DEF Begin, DeviceIInv, DeviceTypeOK, Detailed, network
<1>2. flight = {} /\ answers = {}
  BY <1>1 DEF InStep
<1>3. Executed(h)' = 0 /\ Len(results'[h]) = 0
  BY <1>1 DEF Executed
<1>4. DOMAIN results'[h] = {}
  BY <1>1
<1> QED BY <1>1, <1>2, <1>3, <1>4 DEF InStep

LEMMA SendInStep ==
  ASSUME DeviceIInv, NEW h \in Callers, InStep(h), SendCommand(h)
  PROVE  InStep(h)'
<1>1. PICK rs \in Seq(OneResult), q \in Seq(Typed), c \in Typed, n \in Nat :
        /\ rs = results[h] /\ q = todo[h] /\ q # <<>> /\ c = Head(q) /\ n = Len(rs)
        /\ c # BadRequest
  BY CallerType DEF DeviceIInv, SendCommand, Removed
<1>2. PICK r : r = Append(rs, Result(c, FALSE))
  OBVIOUS
<1>3. /\ r \in Seq(OneResult) /\ Len(r) = n + 1
      /\ \A i \in 1 .. n : r[i] = rs[i]
      /\ r[n + 1] = Result(c, FALSE)
  BY <1>1, <1>2, SentAppend
<1>4. Last(r) = Result(c, FALSE)
  BY <1>3 DEF Last
<1>5. /\ stage[h] = "sends" /\ stage'[h] = "waits" /\ results'[h] = r /\ reply' = reply
      /\ flight' = flight \cup {c} /\ UNCHANGED <<scenario, camera, answers>>
  BY <1>1, <1>2 DEF SendCommand, DeviceIInv, DeviceTypeOK, Detailed
<1>6. flight = {} /\ answers = {} /\ ~reply[h].timeout
  BY <1>5 DEF InStep
<1>7. Awaited(h)' = c
  BY <1>4, <1>5 DEF Awaited, Result
<1>8. Executed(h) = n /\ Executed(h)' = n
  BY <1>1, <1>3, <1>5 DEF Executed
<1>9. \A i \in DOMAIN r : r[i].command # BadRequest /\
        (i # n + 1 => r[i].ok = ~Refuses(r[i].command))
  <2>1. ASSUME NEW i \in 1 .. n PROVE r[i].command # BadRequest /\ r[i].ok = ~Refuses(r[i].command)
    BY <1>1, <1>3, <1>5 DEF InStep
  <2>2. r[n + 1].command # BadRequest
    BY <1>1, <1>3 DEF Result
  <2>3. DOMAIN r = 1 .. n + 1
    BY <1>3
  <2> QED BY <2>1, <2>2, <2>3
<1>10. \A s \in Settings : \A i \in 1 .. n :
         /\ Changes(r[i].command, s)
         /\ \A j \in i + 1 .. n : ~Changes(r[j].command, s)
         => camera[s] = r[i].command.value
  <2>1. \A i \in 1 .. n : \A j \in i + 1 .. n : j \in 1 .. n
    OBVIOUS
  <2>2. \A i \in 1 .. n : r[i] = rs[i]
    BY <1>3
  <2>3. \A s \in Settings : \A i \in 1 .. n :
          /\ Changes(rs[i].command, s)
          /\ \A j \in i + 1 .. n : ~Changes(rs[j].command, s)
          => camera[s] = rs[i].command.value
    BY <1>1, <1>8 DEF InStep
  <2> QED BY <2>1, <2>2, <2>3
<1> QED BY <1>3, <1>5, <1>6, <1>7, <1>8, <1>9, <1>10, QuietSame DEF InStep

LEMMA AnswerInStep ==
  ASSUME DeviceIInv, NEW h \in Callers, InStep(h), NEW a \in answers, Answer(a)
  PROVE  InStep(h)'
<1>1. /\ stage[h] = "waits" /\ flight = {} /\ answers = {a}
      /\ a.cmd = Awaited(h).cmd /\ a.ok = ~Refuses(Awaited(h))
  BY DEF InStep
<1>2. PICK rs \in Seq(OneResult), n \in Nat :
        rs = results[h] /\ rs # <<>> /\ n = Len(rs) /\ n >= 1 /\ Awaited(h) = rs[n].command
  BY <1>1, CallerType DEF DeviceIInv, Awaited, Last
<1>3. PICK r : r = WithLast(rs, a.ok)
  OBVIOUS
<1>4. a.ok \in BOOLEAN
  BY <1>1
<1>5. /\ r \in Seq(OneResult) /\ Len(r) = n /\ Sent(r) = Sent(rs)
      /\ \A i \in 1 .. n - 1 : r[i] = rs[i]
      /\ r[n].ok = a.ok
  BY <1>2, <1>3, <1>4, WithLastType
<1>6. \A i \in 1 .. n : r[i].command = rs[i].command
  <2>1. ASSUME NEW i \in 1 .. n PROVE Sent(r)[i] = r[i].command /\ Sent(rs)[i] = rs[i].command
    BY <1>2, <1>5 DEF Sent
  <2> QED BY <1>5, <2>1
<1>7. /\ stage'[h] = "sends" /\ results'[h] = r /\ reply' = reply /\ flight' = {} /\ answers' = {}
      /\ UNCHANGED <<scenario, camera>>
  BY <1>1, <1>2, <1>3 DEF Answer
<1>8. Executed(h) = n /\ Executed(h)' = n
  BY <1>1, <1>2, <1>5, <1>7 DEF Executed
<1>9. \A i \in DOMAIN r : r[i].command # BadRequest /\ r[i].ok = ~Refuses(r[i].command)
  <2>1. ASSUME NEW i \in 1 .. n - 1
        PROVE  r[i].command # BadRequest /\ r[i].ok = ~Refuses(r[i].command)
    <3>1. i \in DOMAIN rs /\ i # Len(rs)
      BY <1>2
    <3> QED BY <1>2, <1>5, <3>1 DEF InStep
  <2>2. r[n].command # BadRequest /\ r[n].ok = ~Refuses(r[n].command)
    <3>1. n \in DOMAIN rs
      BY <1>2
    <3> QED BY <1>1, <1>2, <1>5, <1>6, <3>1 DEF InStep
  <2>3. DOMAIN r = 1 .. n /\ \A i \in 1 .. n : i = n \/ i \in 1 .. n - 1
    BY <1>5
  <2> QED BY <2>1, <2>2, <2>3
<1>10. \A s \in Settings : \A i \in 1 .. n :
         /\ Changes(r[i].command, s)
         /\ \A j \in i + 1 .. n : ~Changes(r[j].command, s)
         => camera[s] = r[i].command.value
  <2>1. \A i \in 1 .. n : \A j \in i + 1 .. n : j \in 1 .. n
    OBVIOUS
  <2> QED BY <1>2, <1>6, <1>8, <2>1 DEF InStep
<1>11. ~reply'[h].timeout
  BY <1>7 DEF InStep
<1> QED BY <1>5, <1>7, <1>8, <1>9, <1>10, <1>11, QuietSame DEF InStep

LEMMA ExecutesInStep ==
  ASSUME DeviceIInv, NEW h \in Callers, InStep(h), NEW c \in flight, Executes(c)
  PROVE  InStep(h)'
<1>1. stage[h] = "waits" /\ flight = {c} /\ answers = {} /\ c = Awaited(h)
  BY DEF InStep
<1>2. PICK rs \in Seq(OneResult), n \in Nat :
        rs = results[h] /\ rs # <<>> /\ n = Len(rs) /\ n >= 1 /\ Awaited(h) = rs[n].command
  BY <1>1, CallerType DEF DeviceIInv, Awaited, Last
<1>3. /\ stage'[h] = "waits" /\ results'[h] = rs /\ reply' = reply /\ flight' = {}
      /\ answers' = {[cmd |-> c.cmd, ok |-> ~Refuses(c)]} /\ UNCHANGED scenario
  BY <1>1, <1>2 DEF Executes, handler
<1>4. Executed(h) = n - 1 /\ Executed(h)' = n
  BY <1>1, <1>2, <1>3 DEF Executed
<1>5. Awaited(h)' = c
  BY <1>1, <1>2, <1>3 DEF Awaited
<1>6. ASSUME NEW s \in Settings
      PROVE  camera'[s] = IF Changes(c, s) THEN c.value ELSE camera[s]
  <2>1. camera \in [Settings -> 0 .. 64]
    BY DEF DeviceIInv, DeviceTypeOK
  <2> QED BY <2>1 DEF Executes, Changes
<1>7. ASSUME NEW s \in Settings, NEW i \in 1 .. n, Changes(rs[i].command, s),
             \A j \in i + 1 .. n : ~Changes(rs[j].command, s)
      PROVE  camera'[s] = rs[i].command.value
  <2>1. CASE i = n
    BY <1>1, <1>2, <1>6, <1>7, <2>1
  <2>2. CASE i # n
    <3>1. n \in i + 1 .. n /\ i \in 1 .. n - 1 /\ \A j \in i + 1 .. n - 1 : j \in i + 1 .. n
      BY <2>2
    <3>2. ~Changes(c, s)
      BY <1>1, <1>2, <1>7, <3>1
    <3>3. camera[s] = rs[i].command.value
      BY <1>2, <1>4, <1>7, <3>1 DEF InStep
    <3> QED BY <1>6, <3>2, <3>3
  <2> QED BY <2>1, <2>2
<1>8. ~reply'[h].timeout /\ \A i \in DOMAIN rs :
        /\ rs[i].command # BadRequest
        /\ i = Len(rs) \/ rs[i].ok = ~Refuses(rs[i].command)
  BY <1>1, <1>2, <1>3 DEF InStep
<1> QED BY <1>3, <1>4, <1>5, <1>7, <1>8, QuietSame DEF InStep

\* What is not quiet will never be.
LEMMA QuietBefore ==
  ASSUME [DeviceNext]_device, Quiet'
  PROVE  UNCHANGED scenario /\ Quiet /\ ~Deletes
<1>1. UNCHANGED scenario
  BY DEF DeviceNext, device, RefreshDeviceConfig, ApplyDeviceConfig, Begin, Handles, SendCommand,
         NotSent, Timeout, Reject, Finish, Gone, SaveSize, SaveFails, SetProfileSize, Answer,
         Deletes, LoopReads, LoopSends, Executes, Loses
<1>2. Deleted => Deleted'
  BY DEF DeviceNext, device, RefreshDeviceConfig, ApplyDeviceConfig, Begin, Handles, SendCommand,
         NotSent, Timeout, Reject, Finish, Gone, SaveSize, SaveFails, SetProfileSize, Answer,
         Deletes, LoopReads, LoopSends, Executes, Loses, Deleted, Removed
<1>3. Deletes => Deleted'
  BY DEF Deletes, Deleted, Removed
<1> QED BY <1>1, <1>2, <1>3 DEF Quiet

LEMMA QuietStep ==
  ASSUME DeviceIInv, QuietInv, Alone, [DeviceNext]_device
  PROVE  QuietInv'
<1> SUFFICES ASSUME Quiet' PROVE loop' = <<>> /\ \A h \in Callers : InStep(h)'
  BY DEF QuietInv
<1>1. Quiet /\ ~Deletes
  BY QuietBefore
<1>2. /\ loop = <<>> /\ (\A h \in Callers : InStep(h))
      /\ ~scenario.watched /\ ~scenario.lossy /\ ~scenario.late /\ ~Deleted /\ ~Removed
  BY <1>1 DEF QuietInv, Quiet, Deleted
<1>3. ASSUME NEW h \in Callers, NEW b, NEW q, Begin(h, b, q)
      PROVE  loop' = <<>> /\ InStep(h)'
  BY <1>2, <1>3, BeginInStep DEF Begin
<1>4. ASSUME NEW h \in Callers, Handles(h) PROVE loop' = <<>> /\ InStep(h)'
  <2>1. CASE SendCommand(h)
    BY <1>2, <2>1, SendInStep DEF SendCommand
  <2>2. CASE NotSent(h)
    BY <1>2, <2>2 DEF NotSent
  <2>3. CASE Timeout(h)
    <3>1. stage[h] = "waits" /\ Awaited(h) \notin flight
          /\ \A a \in answers : a.cmd # Awaited(h).cmd
      BY <1>2, <2>3 DEF Timeout
    <3>2. answers = {[cmd |-> Awaited(h).cmd, ok |-> ~Refuses(Awaited(h))]}
      BY <1>2, <3>1 DEF InStep
    <3> QED BY <3>1, <3>2
  <2>4. CASE Reject(h) \/ Finish(h) \/ SaveFails(h) \/ SetProfileSize(h)
    <3>1. PICK status, ok : Respond(h, status, ok)
      BY <2>4 DEF Reject, Finish, SaveFails, SetProfileSize
    <3>2. /\ stage[h] \in {"sends", "resizes"} /\ results' = results
          /\ UNCHANGED <<scenario, loop, camera, flight, answers>>
      BY <2>4 DEF Reject, Finish, SaveFails, SetProfileSize, Done, network
    <3>3. stage'[h] = "idle" /\ reply'[h].timeout = reply[h].timeout
      BY <3>1, CallerType DEF Respond, DeviceIInv, DeviceTypeOK, Detailed
    <3> QED BY <1>2, <3>2, <3>3, SameInStep
  <2>5. CASE SaveSize(h)
    <3>1. /\ stage[h] # "waits" /\ stage'[h] = "resizes" /\ results' = results /\ reply' = reply
          /\ UNCHANGED <<scenario, loop, camera, flight, answers>>
      BY <2>5 DEF SaveSize, Done, network, DeviceIInv, DeviceTypeOK
    <3> QED BY <1>2, <3>1, SameInStep
  <2>6. ~Gone(h)
    BY <1>2 DEF Gone
  <2> QED BY <1>4, <2>1, <2>2, <2>3, <2>4, <2>5, <2>6 DEF Handles
<1>5. CASE \E h \in Callers :
        RefreshDeviceConfig(h) \/ Handles(h) \/ \E b \in scenario.bodies : ApplyDeviceConfig(h, b)
  BY <1>3, <1>4, <1>5 DEF Alone, RefreshDeviceConfig, ApplyDeviceConfig
<1>6. ASSUME NEW a \in answers, Answer(a) PROVE loop' = <<>> /\ \A h \in Callers : InStep(h)'
  BY <1>2, <1>6, AnswerInStep DEF Answer
<1>7. ASSUME NEW c \in flight, Executes(c) PROVE loop' = <<>> /\ \A h \in Callers : InStep(h)'
  BY <1>2, <1>7, ExecutesInStep DEF Executes
<1>8. CASE UNCHANGED device
  BY <1>2, <1>8, SameInStep DEF device, handler, network
<1>9. ~LoopReads /\ ~LoopSends /\ ~Loses
  BY <1>2 DEF LoopReads, LoopSends, Loses
<1> QED BY <1>1, <1>5, <1>6, <1>7, <1>8, <1>9 DEF DeviceNext

LEMMA QuietStart == DeviceInit => QuietInv
<1> SUFFICES ASSUME DeviceInit, NEW h \in Callers PROVE loop = <<>> /\ InStep(h)
  BY DEF QuietInv, DeviceInit
<1>1. /\ loop = <<>> /\ stage[h] = "idle" /\ results[h] = <<>> /\ ~reply[h].timeout
      /\ flight = {} /\ answers = {}
  BY DEF DeviceInit
<1>2. Executed(h) = 0 /\ DOMAIN results[h] = {}
  BY <1>1 DEF Executed
<1> QED BY <1>1, <1>2 DEF InStep

LEMMA QuietInvariant == Alone => (DeviceSpec => []QuietInv)
<1> SUFFICES ASSUME Alone PROVE DeviceSpec => []QuietInv
  OBVIOUS
<1>1. DeviceIInv /\ QuietInv /\ [DeviceNext]_device => QuietInv'
  BY QuietStep
<1> QED BY <1>1, QuietStart, DeviceInvariant, PTL DEF DeviceSpec

\* The last command that sets s sets it to v.
LastSet(q, s, v) ==
  \E i \in DOMAIN q :
    /\ q[i].setting = s /\ q[i].value = v /\ ~q[i].reads /\ ~(s = "control" /\ v = 0)
    /\ \A j \in i + 1 .. Len(q) : q[j].setting # s \/ q[j] = BadRequest

\* No command sets s.
Leaves(q, s) == \A i \in DOMAIN q : q[i].setting # s \/ q[i] = BadRequest

IsBad(q) == \E i \in DOMAIN q : q[i] = BadRequest

LEMMA Concat ==
  ASSUME NEW S, NEW p \in Seq(S), NEW q \in Seq(S)
  PROVE  /\ Len(p) \in Nat /\ Len(q) \in Nat /\ Len(p \o q) = Len(p) + Len(q)
         /\ DOMAIN p = 1 .. Len(p) /\ DOMAIN q = 1 .. Len(q)
         /\ DOMAIN (p \o q) = 1 .. Len(p) + Len(q)
         /\ \A i \in 1 .. Len(p) : (p \o q)[i] = p[i]
         /\ \A i \in 1 .. Len(q) : (p \o q)[Len(p) + i] = q[i]
         /\ \A i \in Len(p) + 1 .. Len(p) + Len(q) :
              i - Len(p) \in 1 .. Len(q) /\ (p \o q)[i] = q[i - Len(p)]
OBVIOUS

LEMMA BadConcat ==
  ASSUME NEW p \in Seq(Typed), NEW q \in Seq(Typed), IsBad(p) \/ IsBad(q)
  PROVE  IsBad(p \o q)
<1>1. CASE IsBad(p)
  <2>1. PICK i \in 1 .. Len(p) : p[i] = BadRequest
    BY <1>1, Concat DEF IsBad
  <2>2. i \in DOMAIN (p \o q) /\ (p \o q)[i] = BadRequest
    BY <2>1, Concat
  <2> QED BY <2>2 DEF IsBad
<1>2. CASE IsBad(q)
  <2>1. PICK i \in 1 .. Len(q) : q[i] = BadRequest
    BY <1>2, Concat DEF IsBad
  <2>2. Len(p) + i \in DOMAIN (p \o q) /\ (p \o q)[Len(p) + i] = BadRequest
    BY <2>1, Concat
  <2> QED BY <2>2 DEF IsBad
<1> QED BY <1>1, <1>2

LEMMA LeavesConcat ==
  ASSUME NEW p \in Seq(Typed), NEW q \in Seq(Typed), NEW s, Leaves(p, s), Leaves(q, s)
  PROVE  Leaves(p \o q, s)
<1> SUFFICES ASSUME NEW i \in 1 .. Len(p) + Len(q)
             PROVE  (p \o q)[i].setting # s \/ (p \o q)[i] = BadRequest
  BY Concat DEF Leaves
<1>1. CASE i \in 1 .. Len(p)
  BY <1>1, Concat DEF Leaves
<1>2. CASE i \in Len(p) + 1 .. Len(p) + Len(q)
  BY <1>2, Concat DEF Leaves
<1> QED BY <1>1, <1>2, Concat

LEMMA SetFirst ==
  ASSUME NEW p \in Seq(Typed), NEW q \in Seq(Typed), NEW s, NEW v, LastSet(p, s, v), Leaves(q, s)
  PROVE  LastSet(p \o q, s, v)
<1>1. PICK i \in 1 .. Len(p) :
        /\ p[i].setting = s /\ p[i].value = v /\ ~p[i].reads /\ ~(s = "control" /\ v = 0)
        /\ \A j \in i + 1 .. Len(p) : p[j].setting # s \/ p[j] = BadRequest
  BY Concat DEF LastSet
<1>2. i \in DOMAIN (p \o q) /\ (p \o q)[i] = p[i]
  BY Concat
<1>3. ASSUME NEW j \in i + 1 .. Len(p \o q)
      PROVE  (p \o q)[j].setting # s \/ (p \o q)[j] = BadRequest
  <2>1. CASE j \in 1 .. Len(p)
    <3>1. j \in i + 1 .. Len(p)
      BY <2>1
    <3> QED BY <1>1, <2>1, <3>1, Concat
  <2>2. CASE j \in Len(p) + 1 .. Len(p) + Len(q)
    BY <2>2, Concat DEF Leaves
  <2> QED BY <2>1, <2>2, Concat
<1> QED BY <1>1, <1>2, <1>3 DEF LastSet

LEMMA SetSecond ==
  ASSUME NEW p \in Seq(Typed), NEW q \in Seq(Typed), NEW s, NEW v, LastSet(q, s, v)
  PROVE  LastSet(p \o q, s, v)
<1>1. PICK i \in 1 .. Len(q) :
        /\ q[i].setting = s /\ q[i].value = v /\ ~q[i].reads /\ ~(s = "control" /\ v = 0)
        /\ \A j \in i + 1 .. Len(q) : q[j].setting # s \/ q[j] = BadRequest
  BY Concat DEF LastSet
<1>2. Len(p) + i \in DOMAIN (p \o q) /\ (p \o q)[Len(p) + i] = q[i]
  BY Concat
<1>3. ASSUME NEW j \in Len(p) + i + 1 .. Len(p \o q)
      PROVE  (p \o q)[j].setting # s \/ (p \o q)[j] = BadRequest
  <2>1. j \in Len(p) + 1 .. Len(p) + Len(q) /\ j - Len(p) \in i + 1 .. Len(q)
    BY Concat
  <2> QED BY <1>1, <2>1, Concat
<1> QED BY <1>1, <1>2, <1>3 DEF LastSet

\* With types, as they are put together.
Passes(q, s) == q \in Seq(Typed) /\ Leaves(q, s)

Ends(q, s, v) == q \in Seq(Typed) /\ LastSet(q, s, v)

LEMMA Together ==
  ASSUME NEW p, NEW q, NEW s
  PROVE  /\ Passes(p, s) /\ Passes(q, s) => Passes(p \o q, s)
         /\ \A v : Ends(p, s, v) /\ Passes(q, s) => Ends(p \o q, s, v)
         /\ \A v : p \in Seq(Typed) /\ Ends(q, s, v) => Ends(p \o q, s, v)
<1>1. p \in Seq(Typed) /\ q \in Seq(Typed) => p \o q \in Seq(Typed)
  OBVIOUS
<1> QED BY <1>1, LeavesConcat, SetFirst, SetSecond DEF Passes, Ends

LEMMA IfPasses ==
  ASSUME NEW c, NEW x \in Typed, NEW s, x.setting # s \/ x = BadRequest \/ ~c
  PROVE  Passes(If(c, x), s)
<1>1. Leaves(If(c, x), s)
  BY DEF Leaves, If
<1> QED BY <1>1, IfType DEF Passes

LEMMA SetsFields ==
  ASSUME NEW name, NEW message, NEW s, NEW v
  PROVE  /\ Sets(name, message, s, v).setting = s /\ Sets(name, message, s, v).value = v
         /\ ~Sets(name, message, s, v).reads /\ Sets(name, message, s, v).name = name
BY DEF Sets

LEMMA IfEnds ==
  ASSUME NEW c, c, NEW x \in Typed, ~x.reads, ~(x.setting = "control" /\ x.value = 0)
  PROVE  Ends(If(c, x), x.setting, x.value)
<1>1. PICK q : q = If(c, x)
  OBVIOUS
<1>2. DOMAIN q = {1} /\ Len(q) = 1 /\ q[1] = x
  BY <1>1 DEF If
<1>3. 1 \in DOMAIN q /\ \A j \in 1 + 1 .. Len(q) : FALSE
  BY <1>2
<1>4. LastSet(q, x.setting, x.value)
  BY <1>2, <1>3 DEF LastSet
<1> QED BY <1>1, <1>4, IfType DEF Ends

\* The parts of a request, and which settings they are about.
LEMMA PartsPass ==
  ASSUME NEW b \in Body, NEW s
  PROVE  /\ s # "video" => Passes(PresetVideo(b), s) /\ Passes(StreamVideo(b), s)
         /\ s # "audio" => Passes(StreamAudio(b), s)
         /\ s # "control" => Passes(DevControl(b), s)
         /\ s \notin {"alarm", "system", "push"} => Passes(Others(b), s)
<1>1. \A c : Passes(If(c, BadRequest), s)
  BY BadType, IfPasses
<1>2. ASSUME s # "video" PROVE Passes(PresetVideo(b), s) /\ Passes(StreamVideo(b), s)
  <2>1. \A c : /\ Passes(If(c, Sets("preset", "stream", "video", Qvga)), s)
               /\ Passes(If(c, Sets("preset", "stream", "video", Vga)), s)
               /\ Passes(If(c, Sets("preset.stop", "stream", "video", Off)), s)
    BY <1>2, EachType, SetsFields, IfPasses
  <2>2. \A c : /\ Passes(If(c, Sets("stream", "stream", "video", Qvga)), s)
               /\ Passes(If(c, Sets("stream", "stream", "video", Vga)), s)
               /\ Passes(If(c, Sets("stream", "stream", "video", Off)), s)
    BY <1>2, EachType, SetsFields, IfPasses
  <2>3. Passes(PresetVideo(b), s)
    BY <1>1, <2>1, Together DEF PresetVideo
  <2>4. Passes(StreamVideo(b), s)
    BY <1>1, <2>2, Together DEF StreamVideo
  <2> QED BY <2>3, <2>4
<1>3. ASSUME s # "audio" PROVE Passes(StreamAudio(b), s)
  <2>1. \A c : /\ Passes(If(c, Sets("audio", "stream", "audio", 0)), s)
               /\ Passes(If(c, Sets("audio", "stream", "audio", 1)), s)
    BY <1>3, EachType, SetsFields, IfPasses
  <2> QED BY <1>1, <2>1, Together DEF StreamAudio
<1>4. ASSUME s # "control" PROVE Passes(DevControl(b), s)
  <2>1. \A c : Passes(If(c, Sets("dev_control", "dev_control", "control", RateBit(b))), s)
    BY <1>4, EachType, SetsFields, IfPasses
  <2>2. If(TRUE, BadRequest) = <<BadRequest>>
    BY DEF If
  <2> QED BY <1>1, <2>1, <2>2 DEF DevControl
<1>5. ASSUME s \notin {"alarm", "system", "push"} PROVE Passes(Others(b), s)
  <2>1. \A c : /\ Passes(If(c, Sets("set_cyalarm", "set_cyalarm", "alarm", 1)), s)
               /\ Passes(If(c, Sets("set_sysparms", "set_sysparms", "system", 1)), s)
               /\ Passes(If(c, Sets("set_cypush", "set_cypush", "push", 1)), s)
    BY <1>5, EachType, SetsFields, IfPasses
  <2> QED BY <1>1, <2>1, Together DEF Others
<1> QED BY <1>2, <1>3, <1>4, <1>5

\* A command of a part, with the parts around it.
LEMMA WholeRequest ==
  ASSUME NEW b \in Body, NEW s, NEW v
  PROVE  /\ Ends(PresetVideo(b), s, v) /\ Passes(StreamVideo(b), s) /\ s = "video"
              => LastSet(Commands(b), s, v)
         /\ Ends(StreamVideo(b), s, v) /\ s = "video" => LastSet(Commands(b), s, v)
         /\ Ends(StreamAudio(b), s, v) /\ s = "audio" => LastSet(Commands(b), s, v)
         /\ Ends(DevControl(b), s, v) /\ s = "control" => LastSet(Commands(b), s, v)
         /\ Ends(Others(b), s, v) => LastSet(Commands(b), s, v)
<1>1. PICK p1, p2, p3, p4, p5 :
        /\ p1 = PresetVideo(b) /\ p2 = StreamVideo(b) /\ p3 = StreamAudio(b)
        /\ p4 = DevControl(b) /\ p5 = Others(b)
  OBVIOUS
<1>2. Commands(b) = p1 \o p2 \o p3 \o p4 \o p5
  BY <1>1 DEF Commands
<1>3. /\ p1 \in Seq(Typed) /\ p2 \in Seq(Typed) /\ p3 \in Seq(Typed) /\ p4 \in Seq(Typed)
      /\ p1 \o p2 \in Seq(Typed) /\ p1 \o p2 \o p3 \in Seq(Typed)
      /\ p1 \o p2 \o p3 \o p4 \in Seq(Typed)
  BY <1>1, PartsType
<1>4. s = "video" => Passes(p3, s) /\ Passes(p4, s) /\ Passes(p5, s)
  BY <1>1, PartsPass
<1>5. s = "audio" => Passes(p4, s) /\ Passes(p5, s)
  BY <1>1, PartsPass
<1>6. s = "control" => Passes(p5, s)
  BY <1>1, PartsPass
<1>7. ASSUME Ends(p1 \o p2, s, v), s = "video" PROVE Ends(Commands(b), s, v)
  BY <1>2, <1>4, <1>7, Together
<1>8. Ends(p1, s, v) /\ Passes(p2, s) => Ends(p1 \o p2, s, v)
  BY Together
<1>9. Ends(p2, s, v) => Ends(p1 \o p2, s, v)
  BY <1>3, Together
<1>10. ASSUME Ends(p3, s, v), s = "audio" PROVE Ends(Commands(b), s, v)
  <2>1. Ends(p1 \o p2 \o p3, s, v)
    BY <1>3, <1>10, Together
  <2> QED BY <1>2, <1>5, <1>10, <2>1, Together
<1>11. ASSUME Ends(p4, s, v), s = "control" PROVE Ends(Commands(b), s, v)
  <2>1. Ends(p1 \o p2 \o p3 \o p4, s, v)
    BY <1>3, <1>11, Together
  <2> QED BY <1>2, <1>6, <1>11, <2>1, Together
<1>12. ASSUME Ends(p5, s, v) PROVE Ends(Commands(b), s, v)
  BY <1>2, <1>3, <1>12, Together
<1> QED BY <1>1, <1>7, <1>8, <1>9, <1>10, <1>11, <1>12 DEF Ends

LEMMA BadIf == ASSUME NEW c PROVE \A s : Passes(If(c, BadRequest), s)
BY BadType, IfPasses

\* The last command about a setting sets it to what the body means.
LEMMA MeansVideo ==
  ASSUME NEW b \in Body, Meant(b, "video") # Absent
  PROVE  LastSet(Commands(b), "video", Meant(b, "video"))
<1>1. \A c : /\ ~c => Passes(If(c, Sets("preset", "stream", "video", Qvga)), "video")
             /\ ~c => Passes(If(c, Sets("preset", "stream", "video", Vga)), "video")
             /\ ~c => Passes(If(c, Sets("preset.stop", "stream", "video", Off)), "video")
  BY EachType, IfPasses
<1>2. \A c : /\ ~c => Passes(If(c, Sets("stream", "stream", "video", Qvga)), "video")
             /\ ~c => Passes(If(c, Sets("stream", "stream", "video", Vga)), "video")
             /\ ~c => Passes(If(c, Sets("stream", "stream", "video", Off)), "video")
  BY EachType, IfPasses
<1>3. \A c : /\ c => Ends(If(c, Sets("preset", "stream", "video", Qvga)), "video", Qvga)
             /\ c => Ends(If(c, Sets("preset", "stream", "video", Vga)), "video", Vga)
             /\ c => Ends(If(c, Sets("preset.stop", "stream", "video", Off)), "video", Off)
  <2>1. ASSUME NEW c, c, NEW x \in Typed, x.setting = "video", ~x.reads
        PROVE  Ends(If(c, x), "video", x.value)
    BY <2>1, IfEnds
  <2> QED BY <2>1, EachType, SetsFields
<1>4. \A c : /\ c => Ends(If(c, Sets("stream", "stream", "video", Qvga)), "video", Qvga)
             /\ c => Ends(If(c, Sets("stream", "stream", "video", Vga)), "video", Vga)
             /\ c => Ends(If(c, Sets("stream", "stream", "video", Off)), "video", Off)
  <2>1. ASSUME NEW c, c, NEW x \in Typed, x.setting = "video", ~x.reads
        PROVE  Ends(If(c, x), "video", x.value)
    BY <2>1, IfEnds
  <2> QED BY <2>1, EachType, SetsFields
<1>5. PICK q1, q2, q3, q4 :
        /\ q1 = If(b.streamMode = "stop", Sets("stream", "stream", "video", Off))
        /\ q2 = If(b.streamMode = "vga", Sets("stream", "stream", "video", Vga))
        /\ q3 = If(b.streamMode = "qvga", Sets("stream", "stream", "video", Qvga))
        /\ q4 = If(b.streamMode = "bad", BadRequest)
  OBVIOUS
<1>6. StreamVideo(b) = q1 \o q2 \o q3 \o q4
  BY <1>5 DEF StreamVideo
<1>7. CASE b.streamMode \in {"stop", "vga", "qvga"}
  <2>1. CASE b.streamMode = "stop"
    <3>1. /\ Ends(q1, "video", Off) /\ Passes(q2, "video") /\ Passes(q3, "video")
          /\ Passes(q4, "video")
      BY <1>2, <1>4, <1>5, <2>1, BadIf
    <3>2. Ends(StreamVideo(b), "video", Off)
      BY <1>6, <3>1, Together
    <3>3. Meant(b, "video") = Off
      BY <2>1 DEF Meant, MeantVideo
    <3> QED BY <3>2, <3>3, WholeRequest
  <2>2. CASE b.streamMode = "vga"
    <3>1. /\ Passes(q1, "video") /\ Ends(q2, "video", Vga) /\ Passes(q3, "video")
          /\ Passes(q4, "video")
      BY <1>2, <1>4, <1>5, <2>2, BadIf
    <3>2. Ends(StreamVideo(b), "video", Vga)
      BY <1>6, <3>1, Together DEF Passes
    <3>3. Meant(b, "video") = Vga
      BY <2>2 DEF Meant, MeantVideo
    <3> QED BY <3>2, <3>3, WholeRequest
  <2>3. CASE b.streamMode = "qvga"
    <3>1. /\ Passes(q1, "video") /\ Passes(q2, "video") /\ Ends(q3, "video", Qvga)
          /\ Passes(q4, "video")
      BY <1>2, <1>4, <1>5, <2>3, BadIf
    <3>2. Ends(StreamVideo(b), "video", Qvga)
      BY <1>6, <3>1, Together DEF Passes
    <3>3. Meant(b, "video") = Qvga
      BY <2>3 DEF Meant, MeantVideo
    <3> QED BY <3>2, <3>3, WholeRequest
  <2> QED BY <1>7, <2>1, <2>2, <2>3
<1>8. CASE b.streamMode \notin {"stop", "vga", "qvga"}
  <2>1. Passes(StreamVideo(b), "video")
    <3>1. /\ Passes(q1, "video") /\ Passes(q2, "video") /\ Passes(q3, "video")
          /\ Passes(q4, "video")
      BY <1>2, <1>5, <1>8, BadIf
    <3> QED BY <1>6, <3>1, Together
  <2>2. CASE b.preset = "stop"
    <3>1. Ends(PresetVideo(b), "video", Off)
      BY <1>1, <1>3, <2>2, BadIf, Together DEF PresetVideo, Passes
    <3> QED BY <1>8, <2>1, <2>2, <3>1, WholeRequest DEF Meant, MeantVideo
  <2>3. CASE b.preset = "quality640"
    <3>1. Ends(PresetVideo(b), "video", Vga)
      BY <1>1, <1>3, <2>3, BadIf, Together DEF PresetVideo, Passes
    <3> QED BY <1>8, <2>1, <2>3, <3>1, WholeRequest DEF Meant, MeantVideo
  <2>4. CASE b.preset = "stable320"
    <3>1. Ends(PresetVideo(b), "video", Qvga)
      BY <1>1, <1>3, <2>4, BadIf, Together DEF PresetVideo, Passes
    <3> QED BY <1>8, <2>1, <2>4, <3>1, WholeRequest DEF Meant, MeantVideo
  <2>5. b.preset \in {"stop", "quality640", "stable320"}
    BY <1>8 DEF Meant, MeantVideo
  <2> QED BY <2>2, <2>3, <2>4, <2>5
<1> QED BY <1>7, <1>8

LEMMA MeansAudio ==
  ASSUME NEW b \in Body, Meant(b, "audio") # Absent
  PROVE  LastSet(Commands(b), "audio", Meant(b, "audio"))
<1>1. PICK q1, q2, q3, q4 :
        /\ q1 = If(b.audioStream = "off", Sets("audio", "stream", "audio", 0))
        /\ q2 = If(b.audioStream = "on", Sets("audio", "stream", "audio", 1))
        /\ q3 = If(b.audioStream = "bad", BadRequest)
        /\ q4 = If(b.enableAudioNow, Sets("audio", "stream", "audio", 1))
  OBVIOUS
<1>2. StreamAudio(b) = q1 \o q2 \o q3 \o q4 /\ Passes(q3, "audio")
  BY <1>1, BadIf DEF StreamAudio
<1>3. /\ ~(b.audioStream = "off") => Passes(q1, "audio")
      /\ ~(b.audioStream = "on") => Passes(q2, "audio")
      /\ ~b.enableAudioNow => Passes(q4, "audio")
  <2>1. \A c : /\ ~c => Passes(If(c, Sets("audio", "stream", "audio", 0)), "audio")
               /\ ~c => Passes(If(c, Sets("audio", "stream", "audio", 1)), "audio")
    BY EachType, IfPasses
  <2> QED BY <1>1, <2>1
<1>4. \A c : /\ c => Ends(If(c, Sets("audio", "stream", "audio", 0)), "audio", 0)
             /\ c => Ends(If(c, Sets("audio", "stream", "audio", 1)), "audio", 1)
  <2>1. ASSUME NEW c, c, NEW x \in Typed, x.setting = "audio", ~x.reads
        PROVE  Ends(If(c, x), "audio", x.value)
    BY <2>1, IfEnds
  <2> QED BY <2>1, EachType, SetsFields
<1>5. /\ b.audioStream = "off" => Ends(q1, "audio", 0)
      /\ b.audioStream = "on" => Ends(q2, "audio", 1)
      /\ b.enableAudioNow => Ends(q4, "audio", 1)
  BY <1>1, <1>4
<1>6. q1 \in Seq(Typed) /\ q2 \in Seq(Typed) /\ q3 \in Seq(Typed)
  BY <1>1, EachType, BadType, IfType
<1>7. q1 \o q2 \in Seq(Typed) /\ q1 \o q2 \o q3 \in Seq(Typed)
  BY <1>6
<1>8. CASE b.enableAudioNow
  <2>1. Ends(StreamAudio(b), "audio", 1)
    BY <1>2, <1>5, <1>7, <1>8, Together
  <2>2. Meant(b, "audio") = 1
    BY <1>8 DEF Meant, MeantAudio
  <2> QED BY <2>1, <2>2, WholeRequest
<1>9. CASE ~b.enableAudioNow /\ b.audioStream = "on"
  <2>1. Ends(StreamAudio(b), "audio", 1)
    BY <1>2, <1>3, <1>5, <1>6, <1>9, Together
  <2>2. Meant(b, "audio") = 1
    BY <1>9 DEF Meant, MeantAudio
  <2> QED BY <2>1, <2>2, WholeRequest
<1>10. CASE ~b.enableAudioNow /\ b.audioStream = "off"
  <2>1. Ends(q1, "audio", 0) /\ Passes(q2, "audio") /\ Passes(q4, "audio")
    BY <1>3, <1>5, <1>10
  <2>2. Ends(StreamAudio(b), "audio", 0)
    BY <1>2, <2>1, Together
  <2>3. Meant(b, "audio") = 0
    BY <1>10 DEF Meant, MeantAudio
  <2> QED BY <2>2, <2>3, WholeRequest
<1> QED BY <1>8, <1>9, <1>10 DEF Meant, MeantAudio

LEMMA MeansControl ==
  ASSUME NEW b \in Body, ~IsBad(Commands(b)), Meant(b, "control") # Absent
  PROVE  LastSet(Commands(b), "control", Meant(b, "control"))
<1>1. b.control # "bad"
  <2> SUFFICES ASSUME b.control = "bad" PROVE IsBad(Commands(b))
    OBVIOUS
  <2>1. PICK p \in Seq(Typed), q \in Seq(Typed), r \in Seq(Typed) :
          Commands(b) = p \o q \o r /\ q = DevControl(b)
    <3>1. PresetVideo(b) \o StreamVideo(b) \o StreamAudio(b) \in Seq(Typed)
      BY PartsType
    <3> QED BY <3>1, PartsType DEF Commands
  <2>2. IsBad(q)
    BY <2>1 DEF DevControl, IsBad
  <2>3. p \o q \in Seq(Typed)
    BY <2>1
  <2> QED BY <2>1, <2>2, <2>3, BadConcat
<1>2. RateBit(b) # 0 /\ Meant(b, "control") = RateBit(b)
  BY DEF Meant
<1>3. PICK x \in Typed : x = Sets("dev_control", "dev_control", "control", RateBit(b))
  BY EachType
<1>4. DevControl(b) = If(RateBit(b) # 0 \/ b.control = "set", x)
  BY <1>1, <1>3 DEF DevControl
<1>5. x.setting = "control" /\ x.value = RateBit(b) /\ ~x.reads
  BY <1>3, SetsFields
<1>6. Ends(DevControl(b), "control", RateBit(b))
  BY <1>2, <1>4, <1>5, IfEnds
<1> QED BY <1>2, <1>6, WholeRequest

LEMMA MeansOthers ==
  ASSUME NEW b \in Body, NEW s \in {"alarm", "system", "push"}, Meant(b, s) # Absent
  PROVE  LastSet(Commands(b), s, Meant(b, s))
<1>1. PICK q1, q2, q3, q4, q5 :
        /\ q1 = If(b.alarm = "bad", BadRequest)
        /\ q2 = If(b.alarm = "set", Sets("set_cyalarm", "set_cyalarm", "alarm", 1))
        /\ q3 = If(b.system = "bad", BadRequest)
        /\ q4 = If(b.system = "set", Sets("set_sysparms", "set_sysparms", "system", 1))
        /\ q5 = If(b.disablePushUpload, Sets("set_cypush", "set_cypush", "push", 1))
  OBVIOUS
<1>2. Others(b) = q1 \o q2 \o q3 \o q4 \o q5
  BY <1>1 DEF Others
<1>3. /\ Passes(q1, s) /\ Passes(q3, s)
      /\ s # "alarm" => Passes(q2, s)
      /\ s # "system" => Passes(q4, s)
      /\ s # "push" => Passes(q5, s)
  BY <1>1, BadIf, EachType, SetsFields, IfPasses
<1>4. \A c : /\ c => Ends(If(c, Sets("set_cyalarm", "set_cyalarm", "alarm", 1)), "alarm", 1)
             /\ c => Ends(If(c, Sets("set_sysparms", "set_sysparms", "system", 1)), "system", 1)
             /\ c => Ends(If(c, Sets("set_cypush", "set_cypush", "push", 1)), "push", 1)
  <2>1. ASSUME NEW c, c, NEW x \in Typed, NEW t, x.setting = t, t # "control", ~x.reads
        PROVE  Ends(If(c, x), t, x.value)
    BY <2>1, IfEnds
  <2> QED BY <2>1, EachType, SetsFields
<1>5. /\ b.alarm = "set" => Ends(q2, "alarm", 1)
      /\ b.system = "set" => Ends(q4, "system", 1)
      /\ b.disablePushUpload => Ends(q5, "push", 1)
  BY <1>1, <1>4
<1>6. /\ q1 \in Seq(Typed) /\ q2 \in Seq(Typed) /\ q3 \in Seq(Typed) /\ q4 \in Seq(Typed)
  BY <1>1, EachType, BadType, IfType
<1>7. /\ q1 \o q2 \in Seq(Typed) /\ q1 \o q2 \o q3 \in Seq(Typed)
      /\ q1 \o q2 \o q3 \o q4 \in Seq(Typed)
  BY <1>6
<1>8. CASE s = "alarm"
  <2>1. b.alarm = "set" /\ Meant(b, s) = 1
    BY <1>8 DEF Meant
  <2>2. Ends(Others(b), s, 1)
    BY <1>2, <1>3, <1>5, <1>6, <1>8, <2>1, Together
  <2> QED BY <2>1, <2>2, WholeRequest
<1>9. CASE s = "system"
  <2>1. b.system = "set" /\ Meant(b, s) = 1
    BY <1>9 DEF Meant
  <2>2. Ends(Others(b), s, 1)
    BY <1>2, <1>3, <1>5, <1>7, <1>9, <2>1, Together
  <2> QED BY <2>1, <2>2, WholeRequest
<1>10. CASE s = "push"
  <2>1. b.disablePushUpload /\ Meant(b, s) = 1
    BY <1>10 DEF Meant
  <2>2. Ends(Others(b), s, 1)
    BY <1>2, <1>5, <1>7, <1>10, <2>1, Together
  <2> QED BY <2>1, <2>2, WholeRequest
<1> QED BY <1>8, <1>9, <1>10

LEMMA Means ==
  ASSUME NEW b \in Body, NEW s \in Settings, ~IsBad(Commands(b)), Meant(b, s) # Absent
  PROVE  LastSet(Commands(b), s, Meant(b, s))
BY MeansVideo, MeansAudio, MeansControl, MeansOthers, CommandNames

\* If nobody watches, nothing gets lost or late and requests come one after the other,
\* "ok" means that the camera has every setting that the body means.
THEOREM SettingsApplied == Alone => (DeviceSpec => []Applied)
<1> SUFFICES ASSUME Alone PROVE DeviceSpec => []Applied
  OBVIOUS
<1>1. ASSUME DeviceIInv, QuietInv PROVE Applied
  <2> SUFFICES ASSUME NEW h \in Callers, Quiet, stage[h] = "idle", reply[h].ok,
                      body[h] # Absent, NEW s \in Settings, Meant(body[h], s) # Absent
               PROVE  camera[s] = Meant(body[h], s)
    BY DEF Applied
  <2>1. PICK b \in Body, rs \in Seq(OneResult), q \in Seq(Typed) :
          b = body[h] /\ rs = results[h] /\ q = Commands(b)
    BY <1>1, ScenariosAssumption, CallerType, CommandsType DEF DeviceIInv, DeviceTypeOK
  <2>2. Sent(rs) = q /\ \A i \in DOMAIN rs : rs[i].ok
    BY <1>1, <2>1 DEF DeviceIInv, OkIsAll, Asked, AllOK
  <2>3. Len(q) = Len(rs) /\ \A i \in 1 .. Len(rs) : i \in DOMAIN rs /\ q[i] = rs[i].command
    BY <2>1, <2>2, SentType DEF Sent
  <2>4. InStep(h) /\ Executed(h) = Len(rs)
    BY <1>1, <2>1 DEF QuietInv, Executed
  <2>5. \A i \in 1 .. Len(rs) : q[i] # BadRequest /\ ~Refuses(q[i])
    BY <2>1, <2>2, <2>3, <2>4 DEF InStep
  <2>6. DOMAIN q = 1 .. Len(rs) /\ DOMAIN rs = 1 .. Len(rs) /\ Len(rs) \in Nat
    BY <2>1, <2>3
  <2>7. LastSet(q, s, Meant(b, s))
    BY <2>1, <2>5, <2>6, Means DEF IsBad
  <2>8. PICK i \in 1 .. Len(rs) :
          /\ q[i].setting = s /\ q[i].value = Meant(b, s) /\ ~q[i].reads
          /\ ~(s = "control" /\ Meant(b, s) = 0)
          /\ \A j \in i + 1 .. Len(rs) : q[j].setting # s \/ q[j] = BadRequest
    BY <2>3, <2>6, <2>7 DEF LastSet
  <2>9. Changes(q[i], s)
    BY <2>5, <2>8 DEF Changes
  <2>10. \A j \in i + 1 .. Len(rs) : j \in 1 .. Len(rs) /\ ~Changes(q[j], s)
    BY <2>5, <2>6, <2>8 DEF Changes
  <2>11. camera[s] = q[i].value
    BY <2>1, <2>3, <2>4, <2>9, <2>10 DEF InStep
  <2> QED BY <2>1, <2>8, <2>11
<1> QED BY <1>1, DeviceInvariant, QuietInvariant, PTL

-----------------------------------------------------------------------------
(* The size, also if some commands were refused.                             *)

Target(h) == IF body[h] = Absent THEN 0 ELSE TargetStreamSize(body[h])

\* The camera is off, or has the size of the configuration, or the one that the
\* request under way has already set and is about to save.
Sized(h) ==
  \/ camera["video"] \in {Off, config}
  \/ /\ stage[h] \in {"sends", "waits"} /\ Target(h) # 0
     /\ Executed(h) >= 1 /\ ~Refuses(results[h][1].command)

SizeInv == Quiet /\ OneSize => \A h \in Callers : Sized(h)

\* The size comes first and once, if at all, and what is bad is found before it.
SizeFirst(q, size) ==
  /\ \A i \in DOMAIN q : q[i].setting = "video" /\ ~q[i].reads =>
       q[i].value = Off \/ (i = 1 /\ q[i].value = size)
  /\ size # 0 =>
       /\ 1 \in DOMAIN q /\ q[1].name \in {"preset", "stream"} /\ q[1].setting = "video"
       /\ q[1].value = size /\ ~q[1].reads
       /\ \A i \in DOMAIN q : q[i] # BadRequest
       /\ \A i \in 2 .. Len(q) : q[i].setting # "video"

\* Commands about other things.
Apart(q) == q \in Seq(Typed) /\ \A i \in DOMAIN q : q[i].setting # "video"

LEMMA SizeFirstConcat ==
  ASSUME NEW p \in Seq(Typed), NEW q, Apart(q), NEW size, SizeFirst(p, size)
  PROVE  p \o q \in Seq(Typed) /\ SizeFirst(p \o q, size)
<1>1. PICK r \in Seq(Typed), m \in Nat, n \in Nat :
        /\ r = p \o q /\ q \in Seq(Typed) /\ m = Len(p) /\ n = Len(q) /\ Len(r) = m + n
        /\ DOMAIN r = 1 .. m + n /\ DOMAIN p = 1 .. m /\ DOMAIN q = 1 .. n
  <2>1. q \in Seq(Typed)
    BY DEF Apart
  <2>2. /\ p \o q \in Seq(Typed) /\ Len(p) \in Nat /\ Len(q) \in Nat
        /\ Len(p \o q) = Len(p) + Len(q) /\ DOMAIN (p \o q) = 1 .. Len(p) + Len(q)
        /\ DOMAIN p = 1 .. Len(p) /\ DOMAIN q = 1 .. Len(q)
    BY <2>1, Concat
  <2> QED BY <2>1, <2>2
<1>2. \A i \in 1 .. m : r[i] = p[i]
  BY <1>1, Concat
<1>3. \A i \in m + 1 .. m + n : r[i].setting # "video"
  <2>1. \A i \in m + 1 .. m + n : i - m \in 1 .. n /\ r[i] = q[i - m]
    BY <1>1, Concat
  <2>2. \A k \in 1 .. n : q[k].setting # "video"
    BY <1>1 DEF Apart
  <2> QED BY <2>1, <2>2
<1>4. \A i \in 1 .. m + n : i \in 1 .. m \/ i \in m + 1 .. m + n
  OBVIOUS
<1>5. \A i \in DOMAIN r : r[i].setting = "video" /\ ~r[i].reads =>
        r[i].value = Off \/ (i = 1 /\ r[i].value = size)
  BY <1>1, <1>2, <1>3, <1>4 DEF SizeFirst
<1>6. ASSUME size # 0
      PROVE  /\ 1 \in DOMAIN r /\ r[1] = p[1]
             /\ \A i \in DOMAIN r : r[i] # BadRequest
             /\ \A i \in 2 .. Len(r) : r[i].setting # "video"
  <2>1. /\ 1 \in 1 .. m /\ (\A i \in 1 .. m : p[i] # BadRequest)
        /\ \A i \in 2 .. m : p[i].setting # "video"
    BY <1>1, <1>6 DEF SizeFirst
  <2>2. BadRequest.setting = "video"
    BY DEF BadRequest, Sets
  <2>3. \A i \in 2 .. m + n : i \in 2 .. m \/ i \in m + 1 .. m + n
    OBVIOUS
  <2>4. \A i \in 2 .. m : i \in 1 .. m
    OBVIOUS
  <2>5. \A i \in DOMAIN r : r[i] # BadRequest
    BY <1>1, <1>2, <1>3, <1>4, <2>1, <2>2
  <2>6. \A i \in 2 .. Len(r) : r[i].setting # "video"
    BY <1>1, <1>2, <1>3, <2>1, <2>3, <2>4
  <2>7. 1 \in DOMAIN r /\ r[1] = p[1]
    BY <1>1, <1>2, <2>1
  <2> QED BY <2>5, <2>6, <2>7
<1>7. SizeFirst(r, size)
  BY <1>5, <1>6 DEF SizeFirst
<1> QED BY <1>1, <1>7

LEMMA ApartConcat ==
  ASSUME NEW p, NEW q, Apart(p), Apart(q)
  PROVE  Apart(p \o q)
<1>1. p \in Seq(Typed) /\ q \in Seq(Typed)
  BY DEF Apart
<1> SUFFICES ASSUME NEW i \in 1 .. Len(p) + Len(q) PROVE (p \o q)[i].setting # "video"
  BY <1>1, Concat DEF Apart
<1>2. CASE i \in 1 .. Len(p)
  BY <1>1, <1>2, Concat DEF Apart
<1>3. CASE i \in Len(p) + 1 .. Len(p) + Len(q)
  BY <1>1, <1>3, Concat DEF Apart
<1> QED BY <1>1, <1>2, <1>3, Concat

LEMMA IfApart ==
  ASSUME NEW c, NEW x \in Typed, x.setting # "video" \/ ~c
  PROVE  Apart(If(c, x))
<1>1. \A i \in DOMAIN If(c, x) : If(c, x)[i].setting # "video"
  BY DEF If
<1> QED BY <1>1, IfType DEF Apart

\* The parts after the size.
LEMMA RestApart ==
  ASSUME NEW b \in Body, "bad" \notin {b.audioStream, b.control, b.alarm, b.system}
  PROVE  Apart(StreamAudio(b)) /\ Apart(DevControl(b)) /\ Apart(Others(b))
<1>1. \A c : ~c => Apart(If(c, BadRequest))
  BY BadType, IfApart
<1>2. \A c : /\ Apart(If(c, Sets("audio", "stream", "audio", 0)))
             /\ Apart(If(c, Sets("audio", "stream", "audio", 1)))
  BY EachType, SetsFields, IfApart
<1>3. \A c : /\ Apart(If(c, Sets("dev_control", "dev_control", "control", RateBit(b))))
             /\ Apart(If(c, Sets("set_cyalarm", "set_cyalarm", "alarm", 1)))
             /\ Apart(If(c, Sets("set_sysparms", "set_sysparms", "system", 1)))
             /\ Apart(If(c, Sets("set_cypush", "set_cypush", "push", 1)))
  BY EachType, SetsFields, IfApart
<1>4. Apart(StreamAudio(b))
  <2>1. Apart(If(b.audioStream = "bad", BadRequest))
    BY <1>1
  <2> QED BY <1>2, <2>1, ApartConcat DEF StreamAudio
<1>5. Apart(DevControl(b))
  BY <1>3 DEF DevControl
<1>6. Apart(Others(b))
  <2>1. Apart(If(b.alarm = "bad", BadRequest)) /\ Apart(If(b.system = "bad", BadRequest))
    BY <1>1
  <2> QED BY <1>3, <2>1, ApartConcat DEF Others
<1> QED BY <1>4, <1>5, <1>6

LEMMA IfCases ==
  /\ \A x : \A c : (c => If(c, x) = <<x>>) /\ (~c => If(c, x) = <<>>)
  /\ \A q \in Seq(Typed) : <<>> \o q = q /\ q \o <<>> = q
BY DEF If

LEMMA OneOfFour ==
  ASSUME NEW q1 \in Seq(Typed), NEW q2 \in Seq(Typed), NEW q3 \in Seq(Typed), NEW q4 \in Seq(Typed)
  PROVE  /\ q2 = <<>> /\ q3 = <<>> /\ q4 = <<>> => q1 \o q2 \o q3 \o q4 = q1
         /\ q1 = <<>> /\ q3 = <<>> /\ q4 = <<>> => q1 \o q2 \o q3 \o q4 = q2
         /\ q1 = <<>> /\ q2 = <<>> /\ q4 = <<>> => q1 \o q2 \o q3 \o q4 = q3
         /\ q1 = <<>> /\ q2 = <<>> /\ q3 = <<>> => q1 \o q2 \o q3 \o q4 = q4
BY IfCases

LEMMA PresetCases ==
  ASSUME NEW b \in Body
  PROVE  LET q == PresetVideo(b) IN
         /\ b.preset = "stable320" => q = <<Sets("preset", "stream", "video", Qvga)>>
         /\ b.preset = "quality640" => q = <<Sets("preset", "stream", "video", Vga)>>
         /\ b.preset = "stop" => q = <<Sets("preset.stop", "stream", "video", Off)>>
         /\ b.preset = "bad" => q = <<BadRequest>>
         /\ b.preset \in {"", "custom"} => q = <<>>
<1>1. PICK q1, q2, q3, q4 :
        /\ q1 = If(b.preset = "stable320", Sets("preset", "stream", "video", Qvga))
        /\ q2 = If(b.preset = "quality640", Sets("preset", "stream", "video", Vga))
        /\ q3 = If(b.preset = "stop", Sets("preset.stop", "stream", "video", Off))
        /\ q4 = If(b.preset = "bad", BadRequest)
  OBVIOUS
<1>2. PresetVideo(b) = q1 \o q2 \o q3 \o q4
  BY <1>1 DEF PresetVideo
<1>3. q1 \in Seq(Typed) /\ q2 \in Seq(Typed) /\ q3 \in Seq(Typed) /\ q4 \in Seq(Typed)
  BY <1>1, EachType, BadType, IfType
<1>4. /\ b.preset # "stable320" => q1 = <<>>
      /\ b.preset # "quality640" => q2 = <<>>
      /\ b.preset # "stop" => q3 = <<>>
      /\ b.preset # "bad" => q4 = <<>>
  BY <1>1, IfCases
<1>5. /\ b.preset = "stable320" => q1 = <<Sets("preset", "stream", "video", Qvga)>>
      /\ b.preset = "quality640" => q2 = <<Sets("preset", "stream", "video", Vga)>>
      /\ b.preset = "stop" => q3 = <<Sets("preset.stop", "stream", "video", Off)>>
      /\ b.preset = "bad" => q4 = <<BadRequest>>
  BY <1>1, IfCases
<1>6. ASSUME b.preset = "stable320" PROVE PresetVideo(b) = q1
  <2>1. q2 = <<>> /\ q3 = <<>> /\ q4 = <<>>
    BY <1>4, <1>6
  <2> QED BY <1>2, <1>3, <2>1, OneOfFour
<1>7. ASSUME b.preset = "quality640" PROVE PresetVideo(b) = q2
  <2>1. q1 = <<>> /\ q3 = <<>> /\ q4 = <<>>
    BY <1>4, <1>7
  <2> QED BY <1>2, <1>3, <2>1, OneOfFour
<1>8. ASSUME b.preset = "stop" PROVE PresetVideo(b) = q3
  <2>1. q1 = <<>> /\ q2 = <<>> /\ q4 = <<>>
    BY <1>4, <1>8
  <2> QED BY <1>2, <1>3, <2>1, OneOfFour
<1>9. ASSUME b.preset = "bad" PROVE PresetVideo(b) = q4
  <2>1. q1 = <<>> /\ q2 = <<>> /\ q3 = <<>>
    BY <1>4, <1>9
  <2> QED BY <1>2, <1>3, <2>1, OneOfFour
<1>10. ASSUME b.preset \in {"", "custom"} PROVE PresetVideo(b) = <<>>
  <2>1. q1 = <<>> /\ q2 = <<>> /\ q3 = <<>> /\ q4 = <<>>
    BY <1>4, <1>10
  <2> QED BY <1>2, <1>3, <2>1, OneOfFour
<1> QED BY <1>5, <1>6, <1>7, <1>8, <1>9, <1>10

LEMMA StreamCases ==
  ASSUME NEW b \in Body
  PROVE  LET q == StreamVideo(b) IN
         /\ b.streamMode = "stop" => q = <<Sets("stream", "stream", "video", Off)>>
         /\ b.streamMode = "vga" => q = <<Sets("stream", "stream", "video", Vga)>>
         /\ b.streamMode = "qvga" => q = <<Sets("stream", "stream", "video", Qvga)>>
         /\ b.streamMode = "bad" => q = <<BadRequest>>
         /\ b.streamMode = "" => q = <<>>
<1>1. PICK q1, q2, q3, q4 :
        /\ q1 = If(b.streamMode = "stop", Sets("stream", "stream", "video", Off))
        /\ q2 = If(b.streamMode = "vga", Sets("stream", "stream", "video", Vga))
        /\ q3 = If(b.streamMode = "qvga", Sets("stream", "stream", "video", Qvga))
        /\ q4 = If(b.streamMode = "bad", BadRequest)
  OBVIOUS
<1>2. StreamVideo(b) = q1 \o q2 \o q3 \o q4
  BY <1>1 DEF StreamVideo
<1>3. q1 \in Seq(Typed) /\ q2 \in Seq(Typed) /\ q3 \in Seq(Typed) /\ q4 \in Seq(Typed)
  BY <1>1, EachType, BadType, IfType
<1>4. /\ b.streamMode # "stop" => q1 = <<>>
      /\ b.streamMode # "vga" => q2 = <<>>
      /\ b.streamMode # "qvga" => q3 = <<>>
      /\ b.streamMode # "bad" => q4 = <<>>
  BY <1>1, IfCases
<1>5. /\ b.streamMode = "stop" => q1 = <<Sets("stream", "stream", "video", Off)>>
      /\ b.streamMode = "vga" => q2 = <<Sets("stream", "stream", "video", Vga)>>
      /\ b.streamMode = "qvga" => q3 = <<Sets("stream", "stream", "video", Qvga)>>
      /\ b.streamMode = "bad" => q4 = <<BadRequest>>
  BY <1>1, IfCases
<1>6. ASSUME b.streamMode = "stop" PROVE StreamVideo(b) = q1
  <2>1. q2 = <<>> /\ q3 = <<>> /\ q4 = <<>>
    BY <1>4, <1>6
  <2> QED BY <1>2, <1>3, <2>1, OneOfFour
<1>7. ASSUME b.streamMode = "vga" PROVE StreamVideo(b) = q2
  <2>1. q1 = <<>> /\ q3 = <<>> /\ q4 = <<>>
    BY <1>4, <1>7
  <2> QED BY <1>2, <1>3, <2>1, OneOfFour
<1>8. ASSUME b.streamMode = "qvga" PROVE StreamVideo(b) = q3
  <2>1. q1 = <<>> /\ q2 = <<>> /\ q4 = <<>>
    BY <1>4, <1>8
  <2> QED BY <1>2, <1>3, <2>1, OneOfFour
<1>9. ASSUME b.streamMode = "bad" PROVE StreamVideo(b) = q4
  <2>1. q1 = <<>> /\ q2 = <<>> /\ q3 = <<>>
    BY <1>4, <1>9
  <2> QED BY <1>2, <1>3, <2>1, OneOfFour
<1>10. ASSUME b.streamMode = "" PROVE StreamVideo(b) = <<>>
  <2>1. q1 = <<>> /\ q2 = <<>> /\ q3 = <<>> /\ q4 = <<>>
    BY <1>4, <1>10
  <2> QED BY <1>2, <1>3, <2>1, OneOfFour
<1> QED BY <1>5, <1>6, <1>7, <1>8, <1>9, <1>10

LEMMA Single ==
  ASSUME NEW x, NEW q, q = <<x>>
  PROVE  /\ 1 \in DOMAIN q /\ q[1] = x
         /\ \A i \in DOMAIN q : i = 1
         /\ \A i \in 2 .. Len(q) : FALSE
<1>1. DOMAIN q = {1} /\ Len(q) = 1
  OBVIOUS
<1> QED BY <1>1

LEMMA Nothing ==
  ASSUME NEW q, q = <<>>
  PROVE  \A i : i \notin DOMAIN q
OBVIOUS

\* The parts with the size.
LEMMA SizeParts ==
  ASSUME NEW b \in Body, b.preset = "custom" \/ b.streamMode = ""
  PROVE  SizeFirst(PresetVideo(b) \o StreamVideo(b), TargetStreamSize(b))
<1>1. PICK q, size : q = PresetVideo(b) \o StreamVideo(b) /\ size = TargetStreamSize(b)
  OBVIOUS
<1>2. ASSUME NEW x, q = <<x>>, x.setting = "video", ~x.reads,
             \/ size = 0 /\ x.value = Off
             \/ x.value = size /\ x.name \in {"preset", "stream"}
      PROVE  SizeFirst(q, size)
  <2>1. /\ 1 \in DOMAIN q /\ q[1] = x
        /\ \A i \in DOMAIN q : i = 1
        /\ \A i \in 2 .. Len(q) : FALSE
    BY <1>2, Single
  <2>2. BadRequest.name = "bad"
    BY DEF BadRequest, Sets
  <2>3. \A i \in DOMAIN q : q[i].setting = "video" /\ ~q[i].reads =>
          q[i].value = Off \/ (i = 1 /\ q[i].value = size)
    BY <1>2, <2>1
  <2>4. size # 0 => x.name \in {"preset", "stream"} /\ x.value = size /\ x # BadRequest
    BY <1>2, <2>2
  <2> QED BY <1>2, <2>1, <2>3, <2>4 DEF SizeFirst
<1>3. ASSUME q = <<>>, size = 0 PROVE SizeFirst(q, size)
  BY <1>3, Nothing DEF SizeFirst
<1>4. BadRequest.setting = "video" /\ BadRequest.value = Off /\ ~BadRequest.reads
  BY CommandNames DEF BadRequest, Sets
<1>5. ASSUME NEW name, NEW v, q = <<Sets(name, "stream", "video", v)>>,
             (size = 0 /\ v = Off) \/ (v = size /\ name \in {"preset", "stream"})
      PROVE  SizeFirst(q, size)
  <2>1. PICK x : x = Sets(name, "stream", "video", v)
    OBVIOUS
  <2>2. x.setting = "video" /\ ~x.reads /\ x.value = v /\ x.name = name
    BY <2>1 DEF Sets
  <2> QED BY <1>2, <1>5, <2>1, <2>2
<1>6. CASE b.streamMode = ""
  <2>1. q = PresetVideo(b)
    BY <1>1, <1>6, StreamCases, PartsType, IfCases
  <2>2. /\ b.preset = "stable320" => size = Qvga
        /\ b.preset = "quality640" => size = Vga
        /\ b.preset \notin {"stable320", "quality640"} => size = 0
    BY <1>1, <1>6 DEF TargetStreamSize
  <2>3. ASSUME b.preset = "stable320" PROVE SizeFirst(q, size)
    BY <1>5, <2>1, <2>2, <2>3, PresetCases
  <2>4. ASSUME b.preset = "quality640" PROVE SizeFirst(q, size)
    BY <1>5, <2>1, <2>2, <2>4, PresetCases
  <2>5. ASSUME b.preset = "stop" PROVE SizeFirst(q, size)
    BY <1>5, <2>1, <2>2, <2>5, PresetCases
  <2>6. ASSUME b.preset = "bad" PROVE SizeFirst(q, size)
    BY <1>2, <1>4, <2>1, <2>2, <2>6, PresetCases
  <2>7. ASSUME b.preset \in {"", "custom"} PROVE SizeFirst(q, size)
    BY <1>3, <2>1, <2>2, <2>7, PresetCases
  <2>8. b.preset \in {"", "stable320", "quality640", "stop", "custom", "bad"}
    BY BodyFields DEF Presets
  <2>9. SizeFirst(q, size)
    BY <2>3, <2>4, <2>5, <2>6, <2>7, <2>8
  <2> QED BY <1>1, <2>9
<1>7. CASE b.preset = "custom" /\ b.streamMode # ""
  <2>1. q = StreamVideo(b)
    BY <1>1, <1>7, PresetCases, PartsType, IfCases
  <2>2. /\ b.streamMode = "qvga" => size = Qvga
        /\ b.streamMode = "vga" => size = Vga
        /\ b.streamMode \notin {"qvga", "vga"} => size = 0
    BY <1>1, <1>7 DEF TargetStreamSize
  <2>3. ASSUME b.streamMode = "stop" PROVE SizeFirst(q, size)
    BY <1>5, <2>1, <2>2, <2>3, StreamCases
  <2>4. ASSUME b.streamMode = "vga" PROVE SizeFirst(q, size)
    BY <1>5, <2>1, <2>2, <2>4, StreamCases
  <2>5. ASSUME b.streamMode = "qvga" PROVE SizeFirst(q, size)
    BY <1>5, <2>1, <2>2, <2>5, StreamCases
  <2>6. ASSUME b.streamMode = "bad" PROVE SizeFirst(q, size)
    BY <1>2, <1>4, <2>1, <2>2, <2>6, StreamCases
  <2>7. b.streamMode \in {"", "qvga", "vga", "stop", "bad"}
    BY BodyFields DEF StreamModes
  <2>8. SizeFirst(q, size)
    BY <1>7, <2>3, <2>4, <2>5, <2>6, <2>7
  <2> QED BY <1>1, <2>8
<1> QED BY <1>6, <1>7

LEMMA SizeOfRequest ==
  ASSUME DeviceTypeOK, OneSize, NEW h \in Callers
  PROVE  SizeFirst(Asked(h), Target(h))
<1>1. CASE body[h] = Absent
  BY <1>1, ReadbacksType DEF Asked, Target, SizeFirst
<1>2. CASE body[h] # Absent
  <2>1. PICK b \in Body : b = body[h] /\ b \in scenario.bodies
    BY <1>2, ScenariosAssumption DEF DeviceTypeOK
  <2>2. /\ b.preset = "custom" \/ b.streamMode = ""
        /\ "bad" \notin {b.audioStream, b.control, b.alarm, b.system}
    BY <2>1 DEF OneSize
  <2>3. PICK p, q, r, t, size :
          /\ p = PresetVideo(b) \o StreamVideo(b) /\ q = StreamAudio(b) /\ r = DevControl(b)
          /\ t = Others(b) /\ size = TargetStreamSize(b)
    OBVIOUS
  <2>4. p \in Seq(Typed) /\ SizeFirst(p, size)
    <3>1. PresetVideo(b) \o StreamVideo(b) \in Seq(Typed)
      BY PartsType
    <3>2. SizeFirst(PresetVideo(b) \o StreamVideo(b), TargetStreamSize(b))
      BY <2>2, SizeParts
    <3> QED BY <2>3, <3>1, <3>2
  <2>5. Apart(q) /\ Apart(r) /\ Apart(t)
    BY <2>2, <2>3, RestApart
  <2>6. p \o q \in Seq(Typed) /\ SizeFirst(p \o q, size)
    BY <2>4, <2>5, SizeFirstConcat
  <2>7. p \o q \o r \in Seq(Typed) /\ SizeFirst(p \o q \o r, size)
    BY <2>5, <2>6, SizeFirstConcat
  <2>8. SizeFirst(p \o q \o r \o t, size)
    BY <2>5, <2>7, SizeFirstConcat
  <2>9. Asked(h) = p \o q \o r \o t /\ Target(h) = size
    BY <1>2, <2>1, <2>3 DEF Asked, Target, Commands
  <2> QED BY <2>8, <2>9
<1> QED BY <1>1, <1>2

\* Where the commands of a request under way stand among those it asks for.
LEMMA PlaceInRequest ==
  ASSUME DeviceIInv, NEW h \in Callers, stage[h] # "idle"
  PROVE  /\ \A i \in 1 .. Len(results[h]) :
              /\ i \in DOMAIN Asked(h) /\ Asked(h)[i] = results[h][i].command
              /\ i <= Len(Asked(h))
         /\ todo[h] # <<>> => \E i \in DOMAIN Asked(h) : Asked(h)[i] = Head(todo[h])
<1>1. PICK rs \in Seq(OneResult), q \in Seq(Typed), n \in Nat, m \in Nat :
        rs = results[h] /\ q = todo[h] /\ n = Len(rs) /\ m = Len(q)
  BY CallerType DEF DeviceIInv
<1>2. PICK p \in Seq(Typed) : p = Sent(rs) /\ Len(p) = n
  BY <1>1, SentType
<1>3. p \o q = Asked(h)
  BY <1>1, <1>2 DEF DeviceIInv, InProgress
<1>4. /\ Len(p \o q) = n + m /\ DOMAIN (p \o q) = 1 .. n + m
      /\ \A i \in 1 .. n : (p \o q)[i] = p[i]
      /\ \A i \in 1 .. m : (p \o q)[n + i] = q[i]
  <2>1. /\ Len(p \o q) = Len(p) + Len(q) /\ DOMAIN (p \o q) = 1 .. Len(p) + Len(q)
        /\ \A i \in 1 .. Len(p) : (p \o q)[i] = p[i]
        /\ \A i \in 1 .. Len(q) : (p \o q)[Len(p) + i] = q[i]
    BY Concat
  <2> QED BY <1>1, <1>2, <2>1
<1>5. \A i \in 1 .. n : p[i] = rs[i].command
  BY <1>1, <1>2 DEF Sent
<1>6. \A i \in 1 .. n : i \in 1 .. n + m /\ i <= n + m
  OBVIOUS
<1>7. ASSUME q # <<>> PROVE n + 1 \in 1 .. n + m /\ (p \o q)[n + 1] = Head(q)
  <2>1. 1 \in 1 .. m /\ q[1] = Head(q)
    BY <1>1, <1>7
  <2> QED BY <1>4, <2>1
<1> QED BY <1>1, <1>3, <1>4, <1>5, <1>6, <1>7

\* The first command of a request for a size is the one with the size.
LEMMA FirstIsSize ==
  ASSUME DeviceIInv, OneSize, NEW h \in Callers, stage[h] # "idle", Target(h) # 0
  PROVE  /\ todo[h] # <<>> => Head(todo[h]) # BadRequest
         /\ results[h] # <<>> =>
              /\ 1 \in DOMAIN results[h] /\ ChangesSize(results[h][1])
              /\ results[h][1].command.setting = "video"
              /\ results[h][1].command.value = Target(h) /\ ~results[h][1].command.reads
         /\ \A j \in 2 .. Len(results[h]) : results[h][j].command.setting # "video"
<1>1. SizeFirst(Asked(h), Target(h))
  BY SizeOfRequest DEF DeviceIInv
<1>2. PICK rs \in Seq(OneResult), n \in Nat : rs = results[h] /\ n = Len(rs)
  BY CallerType DEF DeviceIInv
<1>3. rs # <<>> => 1 \in 1 .. n /\ DOMAIN rs = 1 .. n
  BY <1>2
<1>4. \A i \in 1 .. n : /\ i \in DOMAIN Asked(h) /\ Asked(h)[i] = rs[i].command
                        /\ i <= Len(Asked(h))
  BY <1>2, PlaceInRequest
<1>5. \A j \in 2 .. n : j \in 1 .. n /\ j \in 2 .. Len(Asked(h))
  <2>1. Len(Asked(h)) \in Nat
    BY AskedType DEF DeviceIInv
  <2> QED BY <1>4, <2>1
<1>6. \A j \in 2 .. n : rs[j].command.setting # "video"
  BY <1>1, <1>4, <1>5 DEF SizeFirst
<1>7. rs # <<>> =>
        /\ 1 \in DOMAIN rs /\ ChangesSize(rs[1]) /\ rs[1].command.setting = "video"
        /\ rs[1].command.value = Target(h) /\ ~rs[1].command.reads
  BY <1>1, <1>3, <1>4 DEF SizeFirst, ChangesSize
<1>8. todo[h] # <<>> => Head(todo[h]) # BadRequest
  BY <1>1, PlaceInRequest DEF SizeFirst
<1> QED BY <1>2, <1>6, <1>7, <1>8

\* Once the handler is done, the camera has the size unless it refused it.
LEMMA SizeTaken ==
  ASSUME DeviceIInv, OneSize, NEW h \in Callers, InStep(h), stage[h] = "sends",
         Target(h) # 0, results[h] # <<>>
  PROVE  /\ StreamCommandOK(results[h]) = ~Refuses(results[h][1].command)
         /\ StreamCommandOK(results[h]) => camera["video"] = Target(h)
<1>1. PICK rs \in Seq(OneResult), n \in Nat :
        rs = results[h] /\ n = Len(rs) /\ n >= 1 /\ DOMAIN rs = 1 .. n
  BY CallerType DEF DeviceIInv
<1>2. /\ ChangesSize(rs[1]) /\ rs[1].command.setting = "video"
      /\ rs[1].command.value = Target(h) /\ ~rs[1].command.reads
      /\ \A j \in 2 .. n : rs[j].command.setting # "video"
  BY <1>1, FirstIsSize
<1>3. 1 \in 1 .. n /\ 1 .. 1 - 1 = {} /\ \A i \in 1 .. n : i = 1 \/ 1 \in 1 .. i - 1
  BY <1>1
<1>4. StreamCommandOK(rs) = rs[1].ok
  <2>1. rs[1].ok \in BOOLEAN
    <3>1. rs[1] \in OneResult
      BY <1>1, <1>3
    <3> QED BY <3>1 DEF OneResult
  <2>2. rs[1].ok => StreamCommandOK(rs)
    BY <1>1, <1>2, <1>3 DEF StreamCommandOK
  <2>3. StreamCommandOK(rs) => rs[1].ok
    BY <1>1, <1>2, <1>3 DEF StreamCommandOK
  <2>4. StreamCommandOK(rs) \in BOOLEAN
    BY DEF StreamCommandOK
  <2> QED BY <2>1, <2>2, <2>3, <2>4
<1>5. rs[1].ok = ~Refuses(rs[1].command)
  BY <1>1, <1>3 DEF InStep
<1>6. ASSUME rs[1].ok PROVE camera["video"] = Target(h)
  <2>1. Changes(rs[1].command, "video")
    BY <1>2, <1>5, <1>6 DEF Changes
  <2>2. Executed(h) = n
    BY <1>1 DEF Executed
  <2>3. \A j \in 1 + 1 .. n : ~Changes(rs[j].command, "video")
    BY <1>2 DEF Changes
  <2>4. camera["video"] = rs[1].command.value
    BY <1>1, <1>3, <2>1, <2>2, <2>3, CommandNames DEF InStep
  <2> QED BY <1>2, <2>4
<1> QED BY <1>1, <1>4, <1>5, <1>6

\* Requests never give up a size that they have set before it is saved.
LEMMA SizedSame ==
  ASSUME DeviceIInv, OneSize, NEW h \in Callers, InStep(h), Sized(h),
         UNCHANGED <<scenario, body, results, config, camera>>,
         \/ stage[h] \notin {"sends", "waits"}
         \/ Target(h) = 0 \/ results[h] = <<>>
         \/ stage[h] = "sends" /\ todo[h] # <<>> /\ Head(todo[h]) = BadRequest
         \/ Done(h) /\ ~Resizes(h)
  PROVE  Sized(h)'
<1>1. camera["video"] \in {Off, config}
  <2> SUFFICES ASSUME stage[h] \in {"sends", "waits"}, Target(h) # 0, Executed(h) >= 1,
                      ~Refuses(results[h][1].command)
               PROVE  FALSE
    BY DEF Sized
  <2>1. PICK rs \in Seq(OneResult) : rs = results[h]
    BY CallerType DEF DeviceIInv
  <2>2. rs # <<>>
    <3> SUFFICES ASSUME rs = <<>> PROVE FALSE
      OBVIOUS
    <3>1. Len(rs) = 0
      OBVIOUS
    <3> QED BY <2>1, <3>1 DEF Executed
  <2>3. todo[h] # <<>> => Head(todo[h]) # BadRequest
    BY FirstIsSize
  <2>4. Done(h) /\ ~Resizes(h)
    BY <2>1, <2>2, <2>3
  <2>5. StreamCommandOK(rs)
    BY <2>1, <2>2, <2>4, SizeTaken DEF Done
  <2> QED BY <2>1, <2>4, <2>5 DEF Resizes, Target
<1> QED BY <1>1 DEF Sized

LEMMA SizedExecutes ==
  ASSUME DeviceIInv, OneSize, NEW h \in Callers, InStep(h), Sized(h),
         NEW c \in flight, Executes(c)
  PROVE  Sized(h)'
<1>1. stage[h] = "waits" /\ flight = {c} /\ c = Awaited(h)
  BY DEF InStep
<1>2. PICK rs \in Seq(OneResult), n \in Nat :
        /\ rs = results[h] /\ rs # <<>> /\ n = Len(rs) /\ n >= 1 /\ c = rs[n].command
        /\ n \in 1 .. n /\ 1 \in 1 .. n
  BY <1>1, CallerType DEF DeviceIInv, Awaited, Last
<1>3. /\ stage' = stage /\ results' = results /\ body' = body /\ config' = config
      /\ flight' = {} /\ UNCHANGED scenario
  BY <1>1 DEF Executes, handler
<1>4. Executed(h) = n - 1 /\ Executed(h)' = n
  BY <1>1, <1>2, <1>3 DEF Executed
<1>5. camera'["video"] = IF Changes(c, "video") THEN c.value ELSE camera["video"]
  <2>1. camera \in [Settings -> 0 .. 64] /\ "video" \in Settings
    BY CommandNames DEF DeviceIInv, DeviceTypeOK
  <2> QED BY <2>1 DEF Executes, Changes
<1>6. Target(h)' = Target(h) /\ \A x : Refuses(x)' = Refuses(x)
  BY <1>3, QuietSame DEF Target
<1>7. CASE ~Changes(c, "video")
  <2>1. CASE camera["video"] \in {Off, config}
    BY <1>3, <1>5, <1>7, <2>1 DEF Sized
  <2>2. CASE camera["video"] \notin {Off, config}
    <3>1. Target(h) # 0 /\ ~Refuses(rs[1].command)
      BY <1>2, <2>2 DEF Sized
    <3>2. Target(h)' # 0 /\ ~Refuses(rs[1].command)' /\ results'[h] = rs /\ Executed(h)' >= 1
          /\ stage'[h] = "waits"
      BY <1>1, <1>2, <1>3, <1>4, <1>6, <3>1
    <3>3. ~Refuses(results[h][1].command)'
      BY <1>2, <1>3, <1>6, <3>1
    <3> QED BY <3>2, <3>3 DEF Sized
  <2> QED BY <2>1, <2>2
<1>8. CASE Changes(c, "video")
  <2>1. n \in DOMAIN Asked(h) /\ Asked(h)[n] = c
    BY <1>1, <1>2, PlaceInRequest
  <2>2. c.value = Off \/ (n = 1 /\ c.value = Target(h))
    BY <1>8, <2>1, SizeOfRequest DEF SizeFirst, Changes, DeviceIInv
  <2>3. CASE c.value = Off
    BY <1>5, <1>8, <2>3 DEF Sized
  <2>4. CASE c.value # Off
    <3>1. n = 1 /\ Target(h) # 0 /\ ~Refuses(c)
      BY <1>8, <2>2, <2>4, CommandNames DEF Changes
    <3>2. Target(h)' # 0 /\ Executed(h)' >= 1 /\ stage'[h] = "waits"
      BY <1>1, <1>3, <1>4, <1>6, <3>1
    <3>3. ~Refuses(results[h][1].command)'
      BY <1>2, <1>3, <1>6, <3>1
    <3> QED BY <3>2, <3>3 DEF Sized
  <2> QED BY <2>3, <2>4
<1> QED BY <1>7, <1>8

LEMMA SizedHandles ==
  ASSUME DeviceIInv, OneSize, Quiet, NEW h \in Callers, InStep(h), Sized(h), Handles(h)
  PROVE  Sized(h)'
<1>1. PICK rs \in Seq(OneResult), n \in Nat : rs = results[h] /\ n = Len(rs)
  BY CallerType DEF DeviceIInv
<1>2. CASE SendCommand(h)
  <2>1. PICK q \in Seq(Typed) : q = todo[h] /\ q # <<>>
    BY <1>2, CallerType DEF DeviceIInv, SendCommand
  <2>2. PICK r : r = Append(rs, Result(Head(q), FALSE))
    OBVIOUS
  <2>3. r \in Seq(OneResult) /\ Len(r) = n + 1 /\ \A i \in 1 .. n : r[i] = rs[i]
    BY <1>1, <2>1, <2>2, SentAppend
  <2>4. /\ stage[h] = "sends" /\ stage'[h] = "waits" /\ results'[h] = r
        /\ UNCHANGED <<scenario, body, config, camera>> /\ flight' # {}
    BY <1>1, <1>2, <2>1, <2>2 DEF SendCommand, DeviceIInv, DeviceTypeOK, Detailed
  <2>5. Executed(h) = n /\ Executed(h)' = n
    BY <1>1, <2>3, <2>4 DEF Executed
  <2>6. Target(h)' = Target(h) /\ \A x : Refuses(x)' = Refuses(x)
    BY <2>4, QuietSame DEF Target
  <2>7. n >= 1 => r[1] = rs[1]
    BY <2>3
  <2>8. CASE camera["video"] \in {Off, config}
    BY <2>4, <2>8 DEF Sized
  <2>9. CASE camera["video"] \notin {Off, config}
    <3>1. Target(h) # 0 /\ ~Refuses(rs[1].command) /\ n >= 1
      BY <1>1, <2>5, <2>9 DEF Sized
    <3>2. ~Refuses(results[h][1].command)' /\ Target(h)' # 0 /\ Executed(h)' >= 1
      BY <2>4, <2>5, <2>6, <2>7, <3>1
    <3> QED BY <2>4, <3>2 DEF Sized
  <2> QED BY <2>8, <2>9
<1>3. ~NotSent(h)
  BY DEF NotSent, Quiet, Deleted
<1>4. ~Timeout(h)
  <2> SUFFICES ASSUME Timeout(h) PROVE FALSE
    OBVIOUS
  <2>1. stage[h] = "waits" /\ Awaited(h) \notin flight
        /\ \A a \in answers : a.cmd # Awaited(h).cmd
    BY DEF Timeout, Quiet, Deleted
  <2>2. answers = {[cmd |-> Awaited(h).cmd, ok |-> ~Refuses(Awaited(h))]}
    BY <2>1 DEF InStep
  <2> QED BY <2>1, <2>2
<1>5. CASE Reject(h)
  BY <1>5, SizedSame DEF Reject
<1>6. CASE Finish(h)
  BY <1>6, SizedSame DEF Finish
<1>7. CASE SetProfileSize(h)
  BY <1>7, SizedSame DEF SetProfileSize
<1>8. CASE SaveSize(h) \/ SaveFails(h)
  <2>1. /\ stage[h] = "sends" /\ results[h] # <<>> /\ StreamCommandOK(results[h])
        /\ Target(h) # 0 /\ config' = Target(h) /\ camera' = camera
    BY <1>8 DEF SaveSize, SaveFails, Done, Resizes, Target
  <2>2. camera["video"] = Target(h)
    BY <2>1, SizeTaken
  <2> QED BY <2>1, <2>2 DEF Sized
<1>9. ~Gone(h)
  BY DEF Gone, Quiet
<1> QED BY <1>2, <1>3, <1>4, <1>5, <1>6, <1>7, <1>8, <1>9 DEF Handles

LEMMA SizedAnswer ==
  ASSUME DeviceIInv, OneSize, NEW h \in Callers, InStep(h), Sized(h), NEW a \in answers, Answer(a)
  PROVE  Sized(h)'
<1>1. /\ stage[h] = "waits" /\ flight = {} /\ a.cmd = Awaited(h).cmd
      /\ a.ok = ~Refuses(Awaited(h))
  BY DEF InStep
<1>2. PICK rs \in Seq(OneResult), n \in Nat : rs = results[h] /\ rs # <<>> /\ n = Len(rs) /\ n >= 1
  BY <1>1, CallerType DEF DeviceIInv
<1>3. PICK r : r = WithLast(rs, a.ok)
  OBVIOUS
<1>4. a.ok \in BOOLEAN
  BY <1>1 DEF Refuses
<1>5. r \in Seq(OneResult) /\ Len(r) = n /\ Sent(r) = Sent(rs)
  BY <1>2, <1>3, <1>4, WithLastType
<1>6. r[1].command = rs[1].command
  <2>1. 1 \in DOMAIN r /\ 1 \in DOMAIN rs
    BY <1>2, <1>5
  <2>2. Sent(r)[1] = r[1].command /\ Sent(rs)[1] = rs[1].command
    BY <2>1 DEF Sent
  <2> QED BY <1>5, <2>2
<1>7. /\ stage'[h] = "sends" /\ results'[h] = r
      /\ UNCHANGED <<scenario, body, config, camera, flight>>
  BY <1>1, <1>2, <1>3 DEF Answer
<1>8. Executed(h) = n /\ Executed(h)' = n
  BY <1>1, <1>2, <1>5, <1>7 DEF Executed
<1>9. Target(h)' = Target(h) /\ \A x : Refuses(x)' = Refuses(x)
  BY <1>7, QuietSame DEF Target
<1>10. CASE camera["video"] \in {Off, config}
  BY <1>7, <1>10 DEF Sized
<1>11. CASE camera["video"] \notin {Off, config}
  <2>1. Target(h) # 0 /\ ~Refuses(rs[1].command)
    BY <1>2, <1>11 DEF Sized
  <2>2. ~Refuses(results[h][1].command)' /\ Target(h)' # 0 /\ Executed(h)' >= 1
    BY <1>2, <1>6, <1>7, <1>8, <1>9, <2>1
  <2> QED BY <1>7, <2>2 DEF Sized
<1> QED BY <1>10, <1>11

LEMMA SizeStep ==
  ASSUME DeviceIInv, QuietInv, Alone, SizeInv, [DeviceNext]_device
  PROVE  SizeInv'
<1> SUFFICES ASSUME Quiet', OneSize', NEW h \in Callers PROVE Sized(h)'
  BY DEF SizeInv
<1>1. UNCHANGED scenario /\ Quiet /\ ~Deletes
  BY QuietBefore
<1>2. OneSize
  BY <1>1 DEF OneSize
<1>3. /\ loop = <<>> /\ InStep(h) /\ Sized(h)
      /\ ~scenario.watched /\ ~scenario.lossy /\ ~scenario.late
  BY <1>1, <1>2 DEF QuietInv, SizeInv, Quiet
<1>4. ASSUME NEW b, NEW q, Begin(h, b, q) PROVE Sized(h)'
  <2>1. stage[h] = "idle" /\ camera' = camera /\ config' = config
    BY <1>4 DEF Begin
  <2> QED BY <1>3, <2>1 DEF Sized
<1>5. CASE \E g \in Callers :
        RefreshDeviceConfig(g) \/ Handles(g) \/ \E b \in scenario.bodies : ApplyDeviceConfig(g, b)
  BY <1>1, <1>2, <1>3, <1>4, <1>5, SizedHandles DEF Alone, RefreshDeviceConfig, ApplyDeviceConfig
<1>6. ASSUME NEW a \in answers, Answer(a) PROVE Sized(h)'
  BY <1>2, <1>3, <1>6, SizedAnswer
<1>7. ASSUME NEW c \in flight, Executes(c) PROVE Sized(h)'
  BY <1>2, <1>3, <1>7, SizedExecutes
<1>8. CASE UNCHANGED device
  <2>1. UNCHANGED <<scenario, stage, body, results, config, camera, flight>>
    BY <1>8 DEF device, handler, network
  <2> QED BY <1>3, <2>1 DEF Sized, Target, Executed, Refuses
<1>9. ~LoopReads /\ ~LoopSends /\ ~Loses
  BY <1>3 DEF LoopReads, LoopSends, Loses
<1> QED BY <1>1, <1>5, <1>6, <1>7, <1>8, <1>9 DEF DeviceNext

LEMMA SizeStart == DeviceInit => SizeInv
<1> SUFFICES ASSUME DeviceInit PROVE camera["video"] = config
  BY DEF SizeInv, Sized
<1> QED BY CommandNames DEF DeviceInit

\* If nobody watches, nothing gets lost or late, requests come one after the other and
\* each gives one size at most, the camera is off or has the size of the configuration
\* between requests, whatever else it refused and whether or not the size was saved,
\* until it is deleted.
THEOREM SizeFollows == Alone => (DeviceSpec => []SizeFits)
<1> SUFFICES ASSUME Alone PROVE DeviceSpec => []SizeFits
  OBVIOUS
<1>1. DeviceIInv /\ QuietInv /\ SizeInv /\ [DeviceNext]_device => SizeInv'
  BY SizeStep
<1>2. SizeInv => SizeFits
  <2> SUFFICES ASSUME SizeInv, Quiet, OneSize, NEW h \in Callers, stage[h] = "idle"
               PROVE  camera["video"] \in {Off, config}
    BY DEF SizeFits, Alone
  <2> QED BY DEF SizeInv, Sized
<1> QED BY <1>1, <1>2, SizeStart, DeviceInvariant, QuietInvariant, PTL DEF DeviceSpec
=============================================================================
