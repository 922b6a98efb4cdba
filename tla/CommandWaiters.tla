--------------------------- MODULE CommandWaiters ---------------------------
(***************************************************************************)
(* commandWithResponse, removeCommandWaiter and OnCommand of               *)
(* bkcam-go/main.go: API handlers that send a command to the camera and    *)
(* wait for its answer, and the sessions whose Run receives answers.  An   *)
(* answer carries no more than the number of the command.                  *)
(*                                                                         *)
(* A call makes a channel with room for one answer and registers it under  *)
(* the number of its command.  OnCommand takes all channels of a number    *)
(* out under rt.mu and sends to them afterwards, one by one, without       *)
(* waiting; calls time out in the meantime.                                *)
(***************************************************************************)
EXTENDS Naturals

CONSTANTS
  Handlers,    \* goroutines that serve API requests
  Loops,       \* goroutines that call OnCommand: Run of a session
  Cmds,        \* command numbers
  Answers,     \* what an answer says
  None,
  MaxCalls,    \* bound: calls of a handler
  MaxAnswers,  \* bound: answers that come in
  MaxUpdates   \* bound: changes of the camera's configuration

ASSUME NoneAssumption == None \notin Cmds \cup Answers \cup {"timeout", "error"}
ASSUME AnswersAssumption == Answers \cap {"timeout", "error"} = {}
ASSUME BoundsAssumption == MaxCalls \in Nat /\ MaxAnswers \in Nat /\ MaxUpdates \in Nat

VARIABLES
  connected,  \* rt.pppp # nil and rt.connectedAt set
  pc,         \* where a handler is in commandWithResponse
  cmd,        \* the command of its call
  serial,     \* its calls so far; the channel of the last one is Channel(h)
  box,        \* the answer in that channel
  waiters,    \* rt.commandWaiters
  held,       \* the channels OnCommand has taken out and not yet sent to
  answer,     \*   and what it sends to them
  forgotten,  \* handlers whose channel UpdateConfig has thrown away
  result,     \* what the last call of a handler returned
  arrived,    \* answers and updates so far, for the bounds
  updates

vars == <<connected, pc, cmd, serial, box, waiters, held, answer, forgotten, result,
          arrived, updates>>

Channels == Handlers \X Nat
Channel(h) == <<h, serial[h]>>

Locations == {"idle", "register", "send", "wait", "failed", "expired"}

\* A call in progress has a command, and a loop that still has channels to serve has
\* an answer for them.
TypeOK ==
  /\ connected \in BOOLEAN
  /\ pc \in [Handlers -> Locations]
  /\ cmd \in [Handlers -> Cmds \cup {None}]
  /\ serial \in [Handlers -> Nat]
  /\ box \in [Handlers -> Answers \cup {None}]
  /\ waiters \in [Cmds -> SUBSET Channels]
  /\ held \in [Loops -> SUBSET Channels]
  /\ answer \in [Loops -> Answers \cup {None}]
  /\ forgotten \subseteq Handlers
  /\ result \in [Handlers -> Answers \cup {None, "timeout", "error"}]
  /\ arrived \in Nat /\ updates \in Nat
  /\ \A h \in Handlers : pc[h] # "idle" => cmd[h] \in Cmds
  /\ \A l \in Loops : held[l] # {} => answer[l] \in Answers

Init ==
  /\ connected \in BOOLEAN
  /\ pc = [h \in Handlers |-> "idle"]
  /\ cmd = [h \in Handlers |-> None]
  /\ serial = [h \in Handlers |-> 0]
  /\ box = [h \in Handlers |-> None]
  /\ waiters = [c \in Cmds |-> {}]
  /\ held = [l \in Loops |-> {}]
  /\ answer = [l \in Loops |-> None]
  /\ forgotten = {}
  /\ result = [h \in Handlers |-> None]
  /\ arrived = 0 /\ updates = 0

-----------------------------------------------------------------------------
(* commandWithResponse.                                                    *)

Goto(h, from, to) == pc[h] = from /\ pc' = [pc EXCEPT ![h] = to]

Returns(h, r) == result' = [result EXCEPT ![h] = r]

\* Is there a session that has connected?
Call(h, c) ==
  /\ connected /\ serial[h] < MaxCalls
  /\ Goto(h, "idle", "register")
  /\ cmd' = [cmd EXCEPT ![h] = c]
  /\ UNCHANGED <<connected, serial, box, waiters, held, answer, forgotten, result,
                 arrived, updates>>

NotConnected(h) ==
  /\ ~connected /\ pc[h] = "idle"
  /\ Returns(h, "error")
  /\ UNCHANGED <<connected, pc, cmd, serial, box, waiters, held, answer, forgotten,
                 arrived, updates>>

\* A channel of its own, under rt.mu.  By now the session may be another one.
Register(h) ==
  /\ Goto(h, "register", "send")
  /\ serial' = [serial EXCEPT ![h] = @ + 1]
  /\ box' = [box EXCEPT ![h] = None]
  /\ waiters' = [waiters EXCEPT ![cmd[h]] = @ \cup {<<h, serial[h] + 1>>}]
  /\ forgotten' = forgotten \ {h}
  /\ UNCHANGED <<connected, cmd, held, answer, result, arrived, updates>>

\* SendCommand fails on a session that has no peer or has been closed, or when
\* the socket does.
Send(h) ==
  /\ Goto(h, "send", "wait") \/ Goto(h, "send", "failed")
  /\ UNCHANGED <<connected, cmd, serial, box, waiters, held, answer, forgotten, result,
                 arrived, updates>>

\* The select: an answer, or the timer, either of them when both are there.
Receive(h) ==
  /\ Goto(h, "wait", "idle")
  /\ box[h] # None
  /\ Returns(h, box[h])
  /\ UNCHANGED <<connected, cmd, serial, box, waiters, held, answer, forgotten, arrived,
                 updates>>

Expire(h) ==
  /\ Goto(h, "wait", "expired")
  /\ UNCHANGED <<connected, cmd, serial, box, waiters, held, answer, forgotten, result,
                 arrived, updates>>

Outcome(h) == IF pc[h] = "failed" THEN "error" ELSE "timeout"

BugWithdraw(h) ==
  /\ pc[h] \in {"failed", "expired"}
  /\ pc' = [pc EXCEPT ![h] = "idle"]
  /\ waiters' = [waiters EXCEPT ![cmd[h]] = {}]
  /\ Returns(h, Outcome(h))
  /\ UNCHANGED <<connected, cmd, serial, box, held, answer, forgotten, arrived, updates>>

\* removeCommandWaiter, some time after the timer: the channel may be gone.
Withdraw(h) ==
  /\ pc[h] \in {"failed", "expired"}
  /\ pc' = [pc EXCEPT ![h] = "idle"]
  /\ waiters' = [waiters EXCEPT ![cmd[h]] = @ \ {Channel(h)}]
  /\ Returns(h, Outcome(h))
  /\ UNCHANGED <<connected, cmd, serial, box, held, answer, forgotten, arrived, updates>>

-----------------------------------------------------------------------------
(* OnCommand, and what else happens to the runtime.                        *)

BugTake(l, c, a) ==
  /\ held[l] = {} /\ arrived < MaxAnswers
  /\ arrived' = arrived + 1
  /\ held' = [held EXCEPT ![l] = waiters[c]]
  /\ answer' = [answer EXCEPT ![l] = a]
  /\ UNCHANGED <<connected, pc, cmd, serial, box, waiters, forgotten, result, updates>>

\* An answer comes in, asked for or not: all channels of its number are taken
\* out of the map.
Take(l, c, a) ==
  /\ held[l] = {} /\ arrived < MaxAnswers
  /\ arrived' = arrived + 1
  /\ held' = [held EXCEPT ![l] = waiters[c]]
  /\ waiters' = [waiters EXCEPT ![c] = {}]
  /\ answer' = [answer EXCEPT ![l] = a]
  /\ UNCHANGED <<connected, pc, cmd, serial, box, forgotten, result, updates>>

\* A send that does not wait: lost if the channel is full.  Nobody reads the
\* channel of an earlier call.
Deliver(l, h, n) ==
  /\ <<h, n>> \in held[l]
  /\ held' = [held EXCEPT ![l] = @ \ {<<h, n>>}]
  /\ box' = IF n = serial[h] /\ box[h] = None THEN [box EXCEPT ![h] = answer[l]] ELSE box
  /\ UNCHANGED <<connected, pc, cmd, serial, waiters, answer, forgotten, result, arrived,
                 updates>>

\* The session stops or another one connects: see CameraRuntime.
SessionChanges ==
  /\ connected' = ~connected
  /\ UNCHANGED <<pc, cmd, serial, box, waiters, held, answer, forgotten, result, arrived,
                 updates>>

\* UpdateConfig stops the session and makes a new map.
UpdateConfig ==
  /\ updates < MaxUpdates
  /\ updates' = updates + 1
  /\ connected' = FALSE
  /\ waiters' = [c \in Cmds |-> {}]
  /\ forgotten' = forgotten \cup {h \in Handlers : \E c \in Cmds : Channel(h) \in waiters[c]}
  /\ UNCHANGED <<pc, cmd, serial, box, held, answer, result, arrived>>

-----------------------------------------------------------------------------
HandlerStep(h) ==
  \/ \E c \in Cmds : Call(h, c)
  \/ NotConnected(h) \/ Register(h) \/ Send(h) \/ Receive(h) \/ Expire(h) \/ Withdraw(h)

LoopStep(l) ==
  \/ \E c \in Cmds, a \in Answers : Take(l, c, a)
  \/ \E h \in Handlers, n \in 1 .. MaxCalls : Deliver(l, h, n)

Next ==
  \/ \E h \in Handlers : HandlerStep(h)
  \/ \E l \in Loops : LoopStep(l)
  \/ SessionChanges \/ UpdateConfig

Spec == Init /\ [][Next]_vars

-----------------------------------------------------------------------------
(* Safety.                                                                 *)

InCall(h) == pc[h] \in {"send", "wait", "failed", "expired"}

\* A registered channel is that of a call in progress for this command: waiters
\* do not pile up, whatever times out, fails or is answered at the same time.
NoWaiterLeft ==
  \A c \in Cmds : \A w \in waiters[c] :
    w = Channel(w[1]) /\ InCall(w[1]) /\ cmd[w[1]] = c

\* An answer taken for a call finds room in its channel: no two answers are on
\* their way to one channel.
RoomForAnswer ==
  \A l \in Loops, h \in Handlers :
    Channel(h) \in held[l] =>
      /\ box[h] = None
      /\ \A k \in Loops \ {l} : Channel(h) \notin held[k]
      /\ \A c \in Cmds : Channel(h) \notin waiters[c]

\* A call in progress can be answered, is being answered or has its answer,
\* unless UpdateConfig has thrown its channel away: the timeout of another call
\* for the same command does not take its channel with it.
Reachable ==
  \A h \in Handlers :
    InCall(h) =>
      \/ Channel(h) \in waiters[cmd[h]]
      \/ \E l \in Loops : Channel(h) \in held[l]
      \/ box[h] # None
      \/ h \in forgotten

\* The inductive invariant of the proofs: also, a registered channel is empty and
\* not forgotten, and OnCommand holds no channel of a call yet to come.
Registered ==
  \A c \in Cmds : \A w \in waiters[c] : box[w[1]] = None /\ w[1] \notin forgotten

HeldMade == \A l \in Loops : \A w \in held[l] : w[2] <= serial[w[1]]

IInv == TypeOK /\ NoWaiterLeft /\ RoomForAnswer /\ Reachable /\ Registered /\ HeldMade

\* The channels work as if answers reached all open calls at once.
Holder(h) == CHOOSE l \in Loops : Channel(h) \in held[l]

Wanted(h) == IF InCall(h) THEN cmd[h] ELSE None

Offered(h) ==
  IF ~InCall(h) THEN None
  ELSE IF \E l \in Loops : Channel(h) \in held[l] THEN answer[Holder(h)]
  ELSE box[h]

Calls == INSTANCE CommandCalls WITH
  want <- [h \in Handlers |-> Wanted(h)],
  offer <- [h \in Handlers |-> Offered(h)],
  deaf <- forgotten

RefinesCalls == Calls!Spec
=============================================================================
