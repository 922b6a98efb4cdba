--------------------------- MODULE PeerHandshake ----------------------------
(***************************************************************************)
(* How a session of bkcam-go/main.go finds its camera and stays with it:   *)
(* discoveryLoop, acceptsPeer, setRemote, handlePacket, sendEnc and Close, *)
(* over a network that loses, repeats and reorders packets, with cameras   *)
(* that reboot and forget sessions.                                        *)
(*                                                                         *)
(* What a camera does is taken from the packets the code answers to: it    *)
(* answers a search with PUNCH, the echo of its PUNCH with P2P_RDY, sends  *)
(* data until it is acknowledged, and has one session at a time.           *)
(***************************************************************************)
EXTENDS Naturals, FiniteSets

CONSTANTS
  Cameras,      \* hosts that speak the protocol
  Expected,     \* expectedAddress of the configuration, None if it has none
  None,
  MaxPunch,     \* five in the code
  Sessions,     \* bound: 0 .. Sessions - 1, used again in turn
  MaxPorts,     \* bound: a camera reboots MaxPorts - 1 times
  MaxEvents,    \* bound: reboots, sessions that a camera drops, and restarts for
                \* other reasons than those modelled here, together
  MaxNet        \* bound: packets the network holds at a time

\* A camera has another port after each boot.
Addresses == Cameras \X (1 .. MaxPorts)

ASSUME NoneAssumption == None \notin Cameras \cup Nat \cup Addresses
ASSUME ExpectedAssumption == Expected \in Cameras \cup {None}
ASSUME BoundsAssumption ==
  /\ MaxPunch \in Nat /\ Sessions \in Nat \ {0, 1} /\ MaxPorts \in Nat \ {0}
  /\ MaxEvents \in Nat /\ MaxNet \in Nat \ {0}

VARIABLES
  session,   \* rt.pppp: the local port of its socket
  remote,    \* p.remote, None if nil; p.isConnected is set with it
  punches,   \* p.punchCount
  notified,  \* history: calls of OnConnected
  heard,     \* history: where the last data came from, None if there is none yet
  port,      \* the port of a camera, another one after each boot
  with,      \* the session a camera is in, None if none
  owed,      \* cameras with data that was sent and not acknowledged
  net,       \* packets on their way
  events     \* so far, for the bound

gateway == <<session, remote, punches, notified, heard>>
camera == <<port, with, owed>>
vars == <<gateway, camera, net, events>>

Here(c) == <<c, port[c]>>
Locals == 0 .. Sessions - 1

\* peer is the camera's address, Anyone for a search; local is the session.
Anyone == None
ToCamera == [type : {"search", "echo", "ack", "alive", "close"},
             peer : Addresses \cup {Anyone}, local : Locals]
ToGateway == [type : {"punch", "ready", "data", "closed"}, peer : Addresses, local : Locals]
Packets == ToCamera \cup ToGateway

\* No more PUNCH packets are echoed than the limit allows, and addresses are real ones.
TypeOK ==
  /\ session \in Locals
  /\ remote \in Addresses \cup {None}
  /\ punches \in 0 .. MaxPunch
  /\ notified \in Nat
  /\ heard \in Addresses \cup {None}
  /\ port \in [Cameras -> 1 .. MaxPorts]
  /\ with \in [Cameras -> Locals \cup {None}]
  /\ owed \subseteq Cameras
  /\ net \subseteq Packets /\ Cardinality(net) <= MaxNet
  /\ events \in Nat

Init ==
  /\ session = 0 /\ remote = None /\ punches = 0 /\ notified = 0 /\ heard = None
  /\ port = [c \in Cameras |-> 1] /\ with = [c \in Cameras |-> None] /\ owed = {}
  /\ net = {} /\ events = 0

Event == events < MaxEvents /\ events' = events + 1

-----------------------------------------------------------------------------
(* The network.                                                              *)

Packet(type, peer) == [type |-> type, peer |-> peer, local |-> session]

\* left is what is in the network otherwise; a full network loses some of it.
Sends(left, packets) ==
  \E lost \in SUBSET left :
    /\ net' = (left \ lost) \cup packets
    /\ lost = {} \/ Cardinality(left) + Cardinality(packets) > MaxNet
    /\ Cardinality(net') <= MaxNet

\* A packet that is delivered may be repeated later.
After(p) == {net, net \ {p}}

Loses == \E p \in net : net' = net \ {p} /\ UNCHANGED <<gateway, camera, events>>

-----------------------------------------------------------------------------
(* The gateway.                                                              *)

\* discoveryLoop, until it sees p.isConnected.
Searches ==
  /\ remote = None
  /\ Sends(net, {Packet("search", Anyone)})
  /\ UNCHANGED <<gateway, camera, events>>

BugAcceptsAnyone(addr) == remote = None \/ addr = remote

BugAcceptsPeer(addr) == Expected = None \/ addr[1] = Expected

AcceptsPeer(addr) ==
  IF remote # None THEN addr = remote ELSE Expected = None \/ addr[1] = Expected

\* What Run reads from its socket and does not drop.
Reads(p, type) ==
  p \in net /\ p.type = type /\ p.local = session /\ AcceptsPeer(p.peer)

\* The echo goes back to where the PUNCH came from, at most MaxPunch times.
ReadsPunch(p) ==
  /\ Reads(p, "punch")
  /\ \E left \in After(p) :
       IF punches < MaxPunch
       THEN Sends(left, {Packet("echo", p.peer)}) /\ punches' = punches + 1
       ELSE net' = left /\ UNCHANGED punches
  /\ UNCHANGED <<session, remote, notified, heard, camera, events>>

BugReadsReady(p) ==
  /\ Reads(p, "ready")
  /\ net' \in After(p)
  /\ remote' = p.peer
  /\ notified' = notified + 1
  /\ UNCHANGED <<session, punches, heard, camera, events>>

ReadsReady(p) ==
  /\ Reads(p, "ready")
  /\ net' \in After(p)
  /\ remote' = p.peer
  /\ notified' = IF remote = None THEN notified + 1 ELSE notified
  /\ UNCHANGED <<session, punches, heard, camera, events>>

\* sendEnc: to the peer, nothing without one.
Replies(left, type) ==
  IF remote = None THEN net' = left ELSE Sends(left, {Packet(type, remote)})

BugReadsData(p) ==
  /\ Reads(p, "data")
  /\ \E left \in After(p) : IF heard = p.peer THEN net' = left ELSE Replies(left, "ack")
  /\ heard' = p.peer
  /\ UNCHANGED <<session, remote, punches, notified, camera, events>>

\* Acknowledged as often as it comes, then handleDRW, also before P2P_RDY.
ReadsData(p) ==
  /\ Reads(p, "data")
  /\ \E left \in After(p) : Replies(left, "ack")
  /\ heard' = p.peer
  /\ UNCHANGED <<session, remote, punches, notified, camera, events>>

\* A CLOSE of the camera is answered with ALIVE, which changes nothing there; the
\* session goes on.  So it is with ALIVE and its answer.
ReadsClosed(p) ==
  /\ Reads(p, "closed")
  /\ \E left \in After(p) : Replies(left, "alive")
  /\ UNCHANGED <<gateway, camera, events>>

BugRestart(late) ==
  /\ session' = (session + 1) % Sessions
  /\ remote' = None /\ notified' = 0 /\ heard' = None /\ UNCHANGED punches
  /\ IF remote = None THEN net' = late ELSE Sends(late, {Packet("close", remote)})
  /\ UNCHANGED camera

\* Close, and NewPPPP with a new socket.  late is what is still on its way to or
\* from earlier sessions.
Restart(late) ==
  /\ session' = (session + 1) % Sessions
  /\ remote' = None /\ punches' = 0 /\ notified' = 0 /\ heard' = None
  /\ IF remote = None THEN net' = late ELSE Sends(late, {Packet("close", remote)})
  /\ UNCHANGED camera

\* The connect timeout, when there will be no more echoes.  It takes 20 s, longer
\* than any packet.
ConnectTimeout ==
  /\ remote = None /\ punches = MaxPunch
  /\ Restart({}) /\ UNCHANGED events

\* The traffic timeout of 60 s, when the peer does not know the session.
TrafficTimeout ==
  /\ remote # None
  /\ \A c \in Cameras : ~(Here(c) = remote /\ with[c] = session)
  /\ Restart({}) /\ UNCHANGED events

\* Any other reason: see CameraRuntime.
RestartsAnyway ==
  /\ Event
  /\ Restart({p \in net : p.local # (session + 1) % Sessions})

-----------------------------------------------------------------------------
(* The cameras.                                                              *)

FromCamera(c, type, s) == [type |-> type, peer |-> Here(c), local |-> s]

\* What a camera gets: sent to its address, or to everyone.
Gets(c, p, type) == p \in net /\ p.type = type /\ p.peer \in {Here(c), Anyone}

GetsSearch(c, p) ==
  /\ Gets(c, p, "search")
  /\ \E left \in After(p) : Sends(left, {FromCamera(c, "punch", p.local)})
  /\ UNCHANGED <<gateway, camera, events>>

GetsEcho(c, p) ==
  /\ Gets(c, p, "echo")
  /\ with' = [with EXCEPT ![c] = p.local]
  /\ owed' = IF with[c] = p.local THEN owed ELSE owed \ {c}
  /\ \E left \in After(p) : Sends(left, {FromCamera(c, "ready", p.local)})
  /\ UNCHANGED <<gateway, port, events>>

\* ALIVE of a session it has forgotten changes nothing.
GetsOther(c, p) ==
  /\ \/ Gets(c, p, "ack") /\ UNCHANGED with
        /\ owed' = IF with[c] = p.local THEN owed \ {c} ELSE owed
     \/ Gets(c, p, "alive") /\ UNCHANGED <<with, owed>>
     \/ Gets(c, p, "close")
        /\ IF with[c] = p.local THEN with' = [with EXCEPT ![c] = None] /\ owed' = owed \ {c}
           ELSE UNCHANGED <<with, owed>>
  /\ net' \in After(p)
  /\ UNCHANGED <<gateway, port, events>>

\* Data, or the same data again.
SendsData(c) ==
  /\ with[c] # None
  /\ owed' = owed \cup {c}
  /\ Sends(net, {FromCamera(c, "data", with[c])})
  /\ UNCHANGED <<gateway, port, with, events>>

Forgets(c) ==
  /\ with[c] # None /\ Event
  /\ with' = [with EXCEPT ![c] = None] /\ owed' = owed \ {c}
  /\ Sends(net, {FromCamera(c, "closed", with[c])})
  /\ UNCHANGED <<gateway, port>>

Reboots(c) ==
  /\ port[c] < MaxPorts /\ Event
  /\ port' = [port EXCEPT ![c] = @ + 1]
  /\ with' = [with EXCEPT ![c] = None] /\ owed' = owed \ {c}
  /\ UNCHANGED <<gateway, net>>

-----------------------------------------------------------------------------
Run(p) == ReadsPunch(p) \/ ReadsReady(p) \/ ReadsData(p) \/ ReadsClosed(p)

CameraGets(c, p) == GetsSearch(c, p) \/ GetsEcho(c, p) \/ GetsOther(c, p)

Next ==
  \/ Loses \/ Searches \/ ConnectTimeout \/ TrafficTimeout \/ RestartsAnyway
  \/ \E p \in net : Run(p) \/ \E c \in Cameras : CameraGets(c, p)
  \/ \E c \in Cameras : SendsData(c) \/ Forgets(c) \/ Reboots(c)

Spec == Init /\ [][Next]_vars

\* A packet that is sent again and again gets through at last.  Goroutines run, and
\* a camera repeats what is not acknowledged.
Fairness ==
  /\ WF_vars(Searches) /\ WF_vars(ConnectTimeout) /\ WF_vars(TrafficTimeout)
  /\ SF_vars(\E p \in net : ReadsPunch(p))
  /\ SF_vars(\E p \in net : ReadsReady(p))
  /\ SF_vars(\E p \in net : ReadsData(p))
  /\ \A c \in Cameras :
       /\ SF_vars(\E p \in net : p.local = session /\ GetsSearch(c, p))
       /\ SF_vars(\E p \in net : p.local = session /\ GetsEcho(c, p))
       /\ SF_vars(\E p \in net : p.local = session /\ p.type = "ack" /\ GetsOther(c, p))
       /\ WF_vars(c \in owed /\ SendsData(c))

FairSpec == Spec /\ Fairness

-----------------------------------------------------------------------------
(* Properties.                                                               *)

\* A configured address keeps other cameras out, before and after the handshake.
RightCamera ==
  Expected # None =>
    (remote # None => remote[1] = Expected) /\ (heard # None => heard[1] = Expected)

\* However often P2P_RDY comes, OnConnected is called for the first one only.
NotifiedOnce == notified = IF remote = None THEN 0 ELSE 1

\* Types, and one OnConnected for a session.
Inv == TypeOK /\ NotifiedOnce

\* A session that has a peer keeps it, and hears nobody else: not a second camera,
\* not the same one after a boot.
Pinned ==
  [][remote # None /\ session' = session =>
       remote' = remote /\ (heard' # heard => heard' = remote)]_vars

\* The camera the session talks to is in that session.
Linked == \E c \in Cameras : remote = Here(c) /\ with[c] = session

\* Whatever is lost, repeated or late, and whoever reboots, the two find each other.
LinksAgain == []<>Linked

\* Data of the peer is acknowledged, even if the first acknowledgements are lost,
\* unless the two lose each other.
Acknowledged ==
  \A c \in Cameras :
    c \in owed /\ remote = Here(c) /\ with[c] = session ~> c \notin owed \/ ~Linked
=============================================================================
