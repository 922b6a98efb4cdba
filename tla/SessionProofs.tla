--------------------------- MODULE SessionProofs ----------------------------
(***************************************************************************)
(* Proofs about the sessions of the PPPP client.                           *)
(*                                                                         *)
(* Of PeerHandshake: a session talks to one address only, that of the      *)
(* configured camera if there is one, whatever is on the network.          *)
(*                                                                         *)
(* Of WireFormat: the cipher gives back what went in, for every key table, *)
(* key and packet, and parsePacket finds in it what was sent.              *)
(***************************************************************************)
EXTENDS PeerHandshake, WireFormat, FiniteSetTheorems, TLAPS

\* What the network may hold.  That it is finite is what TypeOK leaves unsaid and its
\* Cardinality needs.
Held(packets) == packets \subseteq Packets /\ IsFiniteSet(packets) /\ Cardinality(packets) <= MaxNet

Beings ==
  /\ port \in [Cameras -> 1 .. MaxPorts]
  /\ with \in [Cameras -> Locals \cup {None}]
  /\ owed \subseteq Cameras
  /\ events \in Nat

Typed ==
  /\ session \in Locals
  /\ remote \in Addresses \cup {None}
  /\ punches \in 0 .. MaxPunch
  /\ notified \in Nat
  /\ heard \in Addresses \cup {None}
  /\ Beings
  /\ Held(net)

IInv == Typed /\ RightCamera /\ NotifiedOnce

\* A step that leaves the gateway alone, but for what is on the network.
Beside == gateway' = gateway /\ Beings' /\ Held(net)'

-----------------------------------------------------------------------------
(* The network.                                                              *)

LEMMA HeldLess == ASSUME NEW more, Held(more), NEW less, less \subseteq more PROVE Held(less)
<1>1. IsFiniteSet(less) /\ Cardinality(less) <= Cardinality(more)
  BY FS_Subset DEF Held
<1>2. Cardinality(more) \in Nat /\ Cardinality(less) \in Nat
  BY <1>1, FS_CardinalityType DEF Held
<1> QED BY <1>1, <1>2, BoundsAssumption DEF Held

LEMMA SendsType ==
  ASSUME NEW left, Held(left), NEW packet \in Packets, Sends(left, {packet})
  PROVE  Held(net)'
<1>1. PICK lost \in SUBSET left : net' = (left \ lost) \cup {packet} BY DEF Sends
<1>2. Held(left \ lost) BY HeldLess
<1>3. IsFiniteSet(net') BY <1>1, <1>2, FS_AddElement DEF Held
<1>4. net' \subseteq Packets BY <1>1, <1>2 DEF Held
<1>5. Cardinality(net') <= MaxNet BY DEF Sends
<1> QED BY <1>3, <1>4, <1>5 DEF Held

LEMMA AfterType ==
  ASSUME Typed, NEW p \in net, NEW left \in After(p) PROVE Held(left)
<1>1. left \subseteq net BY DEF After
<1> QED BY <1>1, HeldLess DEF Typed

LEMMA LocalType == ASSUME Typed, NEW p \in net PROVE p.local \in Locals
BY DEF Typed, Held, Packets, ToCamera, ToGateway

LEMMA HereType == ASSUME Typed, NEW c \in Cameras PROVE Here(c) \in Addresses
BY DEF Typed, Beings, Here, Addresses

\* What the gateway and the cameras send are packets.
LEMMA PacketType ==
  ASSUME Typed, NEW type \in {"search", "echo", "ack", "alive", "close"},
         NEW peer \in Addresses \cup {Anyone}
  PROVE  Packet(type, peer) \in Packets
BY DEF Typed, Packet, Packets, ToCamera

LEMMA FromCameraType ==
  ASSUME Typed, NEW c \in Cameras, NEW s \in Locals,
         NEW type \in {"punch", "ready", "data", "closed"}
  PROVE  FromCamera(c, type, s) \in Packets
BY HereType DEF FromCamera, Packets, ToGateway

\* What the gateway reads comes from an address.
LEMMA ReadsFrom ==
  ASSUME Typed, NEW p, NEW type \in {"punch", "ready", "data", "closed"}, Reads(p, type)
  PROVE  p \in net /\ p.peer \in Addresses
BY DEF Reads, Typed, Held, Packets, ToCamera, ToGateway

LEMMA RepliesType ==
  ASSUME Typed, NEW left, Held(left), NEW type \in {"ack", "alive"},
         Replies(left, type)
  PROVE  Held(net)'
<1>1. CASE remote = None BY <1>1 DEF Replies
<1>2. CASE remote # None
  <2>1. remote \in Addresses \cup {Anyone} BY DEF Typed, Anyone
  <2>2. Packet(type, remote) \in Packets BY <2>1, PacketType
  <2> QED BY <1>2, <2>2, SendsType DEF Replies
<1> QED BY <1>1, <1>2

-----------------------------------------------------------------------------
(* The steps of the gateway.                                                 *)

\* A step that keeps the session keeps its peer.
Keeps ==
  session' = session =>
    (remote # None => remote' = remote /\ (heard' # heard => heard' = remote))

LEMMA BesideStep == ASSUME IInv, Beside PROVE IInv' /\ Keeps
BY DEF IInv, Typed, Beings, RightCamera, NotifiedOnce, Beside, gateway, Keeps

LEMMA SearchesStep == ASSUME IInv, Searches PROVE Beside
<1>1. Packet("search", Anyone) \in Packets BY PacketType DEF IInv
<1>2. Held(net) BY DEF IInv, Typed
<1>3. Held(net)' BY <1>1, <1>2, SendsType DEF Searches
<1> QED BY <1>3 DEF Searches, Beside, camera, IInv, Typed, Beings

LEMMA PunchStep == ASSUME IInv, NEW p, ReadsPunch(p) PROVE IInv' /\ Keeps
<1>1. p \in net /\ p.peer \in Addresses BY ReadsFrom DEF IInv, ReadsPunch
<1>2. Packet("echo", p.peer) \in Packets BY <1>1, PacketType DEF IInv
<1>3. Held(net)'
  <2> PICK left \in After(p) : \/ Sends(left, {Packet("echo", p.peer)})
                               \/ net' = left
    BY DEF ReadsPunch
  <2>1. Held(left) BY <1>1, AfterType DEF IInv
  <2> QED BY <1>2, <2>1, SendsType
<1> QED BY <1>3, BoundsAssumption
  DEF ReadsPunch, camera, IInv, Typed, Beings, RightCamera, NotifiedOnce, Keeps

LEMMA ReadyStep == ASSUME IInv, NEW p, ReadsReady(p) PROVE IInv' /\ Keeps
<1>1. p \in net /\ p.peer \in Addresses BY ReadsFrom DEF IInv, ReadsReady
<1>2. Held(net)' BY <1>1, AfterType DEF IInv, ReadsReady
<1>3. AcceptsPeer(p.peer) BY DEF ReadsReady, Reads
<1>4. remote' = p.peer /\ remote' # None BY <1>1, NoneAssumption DEF ReadsReady
<1>5. Typed' BY <1>1, <1>2, <1>4 DEF ReadsReady, camera, IInv, Typed, Beings
<1>6. RightCamera' BY <1>3, <1>4 DEF ReadsReady, IInv, RightCamera, AcceptsPeer
<1>7. NotifiedOnce' BY <1>4 DEF ReadsReady, IInv, NotifiedOnce
<1>8. Keeps BY <1>3, <1>4 DEF ReadsReady, AcceptsPeer, Keeps
<1> QED BY <1>5, <1>6, <1>7, <1>8 DEF IInv

LEMMA DataStep == ASSUME IInv, NEW p, ReadsData(p) PROVE IInv' /\ Keeps
<1>1. p \in net /\ p.peer \in Addresses BY ReadsFrom DEF IInv, ReadsData
<1>2. PICK left \in After(p) : Replies(left, "ack") BY DEF ReadsData
<1>3. Held(net)' BY <1>1, <1>2, AfterType, RepliesType DEF IInv
<1>4. AcceptsPeer(p.peer) BY DEF ReadsData, Reads
<1>5. Typed' BY <1>1, <1>3 DEF ReadsData, camera, IInv, Typed, Beings
<1>6. RightCamera' BY <1>4 DEF ReadsData, IInv, RightCamera, AcceptsPeer
<1>7. NotifiedOnce' BY DEF ReadsData, IInv, NotifiedOnce
<1>8. Keeps BY <1>4 DEF ReadsData, AcceptsPeer, Keeps
<1> QED BY <1>5, <1>6, <1>7, <1>8 DEF IInv

LEMMA ClosedStep == ASSUME IInv, NEW p, ReadsClosed(p) PROVE Beside
<1>1. p \in net BY ReadsFrom DEF IInv, ReadsClosed
<1>2. PICK left \in After(p) : Replies(left, "alive") BY DEF ReadsClosed
<1>3. Held(net)' BY <1>1, <1>2, AfterType, RepliesType DEF IInv
<1> QED BY <1>3 DEF ReadsClosed, Beside, camera, IInv, Typed, Beings

\* A restart has another session.
LEMMA RestartStep ==
  ASSUME IInv, NEW late, Held(late), Restart(late), events' \in Nat PROVE IInv' /\ Keeps
<1>1. session' \in Locals /\ session' # session
  <2>1. Sessions \in Nat /\ Sessions > 1 BY BoundsAssumption
  <2>2. session \in 0 .. Sessions - 1 BY DEF IInv, Typed, Locals
  <2>3. CASE session = Sessions - 1
    <3>1. (session + 1) % Sessions = 0 BY <2>1, <2>3
    <3> QED BY <2>1, <2>3, <3>1 DEF Restart, Locals
  <2>4. CASE session # Sessions - 1
    <3>1. (session + 1) % Sessions = session + 1 BY <2>1, <2>2, <2>4
    <3> QED BY <2>1, <2>2, <2>4, <3>1 DEF Restart, Locals
  <2> QED BY <2>3, <2>4
<1>2. Held(net)'
  <2>1. CASE remote = None BY <2>1 DEF Restart
  <2>2. CASE remote # None
    <3>1. Packet("close", remote) \in Packets
      BY PacketType DEF IInv, Typed, Anyone
    <3> QED BY <2>2, <3>1, SendsType DEF Restart
  <2> QED BY <2>1, <2>2
<1>3. Typed'
  <2>1. punches' \in 0 .. MaxPunch BY BoundsAssumption DEF Restart
  <2> QED BY <1>1, <1>2, <2>1 DEF Restart, camera, IInv, Typed, Beings
<1>4. RightCamera' BY DEF Restart, RightCamera
<1>5. NotifiedOnce' BY DEF Restart, NotifiedOnce
<1>6. Keeps BY <1>1 DEF Keeps
<1> QED BY <1>3, <1>4, <1>5, <1>6 DEF IInv

LEMMA RestartsStep ==
  ASSUME IInv, ConnectTimeout \/ TrafficTimeout \/ RestartsAnyway PROVE IInv' /\ Keeps
<1>1. Held(net) BY DEF IInv, Typed
<1> DEFINE late == {p \in net : p.local # (session + 1) % Sessions}
<1>2. Held({}) /\ Held(late) BY <1>1, HeldLess
<1>3. Restart({}) \/ Restart(late) BY DEF ConnectTimeout, TrafficTimeout, RestartsAnyway
<1>4. events' \in Nat
  BY DEF ConnectTimeout, TrafficTimeout, RestartsAnyway, Event, IInv, Typed, Beings
<1> HIDE DEF late
<1> QED BY <1>2, <1>3, <1>4, RestartStep

-----------------------------------------------------------------------------
(* The steps of the cameras.                                                 *)

LEMMA SearchStep == ASSUME IInv, NEW c \in Cameras, NEW p, GetsSearch(c, p) PROVE Beside
<1>1. p \in net BY DEF GetsSearch, Gets
<1>2. PICK left \in After(p) : Sends(left, {FromCamera(c, "punch", p.local)}) BY DEF GetsSearch
<1>3. FromCamera(c, "punch", p.local) \in Packets
  BY <1>1, LocalType, FromCameraType DEF IInv
<1>4. Held(net)' BY <1>1, <1>2, <1>3, AfterType, SendsType DEF IInv
<1> QED BY <1>4 DEF GetsSearch, Beside, camera, IInv, Typed, Beings

LEMMA EchoStep == ASSUME IInv, NEW c \in Cameras, NEW p, GetsEcho(c, p) PROVE Beside
<1>1. p \in net BY DEF GetsEcho, Gets
<1>2. PICK left \in After(p) : Sends(left, {FromCamera(c, "ready", p.local)}) BY DEF GetsEcho
<1>3. p.local \in Locals BY <1>1, LocalType DEF IInv
<1>4. FromCamera(c, "ready", p.local) \in Packets BY <1>3, FromCameraType DEF IInv
<1>5. Held(net)' BY <1>1, <1>2, <1>4, AfterType, SendsType DEF IInv
<1> QED BY <1>3, <1>5 DEF GetsEcho, Beside, IInv, Typed, Beings

LEMMA OtherStep == ASSUME IInv, NEW c \in Cameras, NEW p, GetsOther(c, p) PROVE Beside
<1>1. p \in net BY DEF GetsOther, Gets
<1>2. Held(net)' BY <1>1, AfterType DEF GetsOther, IInv
<1>3. with' \in [Cameras -> Locals \cup {None}] BY DEF GetsOther, IInv, Typed, Beings
<1> QED BY <1>2, <1>3 DEF GetsOther, Beside, IInv, Typed, Beings

LEMMA DataSent == ASSUME IInv, NEW c \in Cameras, SendsData(c) \/ Forgets(c) PROVE Beside
<1>1. with[c] \in Locals BY DEF SendsData, Forgets, IInv, Typed, Beings
<1>2. /\ FromCamera(c, "data", with[c]) \in Packets
      /\ FromCamera(c, "closed", with[c]) \in Packets
  BY <1>1, FromCameraType DEF IInv
<1>3. Held(net) BY DEF IInv, Typed
<1>4. Held(net)' BY <1>2, <1>3, SendsType DEF SendsData, Forgets
<1> QED BY <1>4 DEF SendsData, Forgets, Event, Beside, IInv, Typed, Beings

LEMMA RebootStep == ASSUME IInv, NEW c \in Cameras, Reboots(c) PROVE Beside
<1>1. port' \in [Cameras -> 1 .. MaxPorts]
  BY BoundsAssumption DEF Reboots, IInv, Typed, Beings
<1>2. Held(net)' BY DEF Reboots, IInv, Typed, Held
<1> QED BY <1>1, <1>2 DEF Reboots, Event, Beside, IInv, Typed, Beings

LEMMA LosesStep == ASSUME IInv, Loses PROVE Beside
<1>1. PICK p \in net : net' = net \ {p} BY DEF Loses
<1>2. Held(net)' BY <1>1, HeldLess DEF IInv, Typed
<1> QED BY <1>2 DEF Loses, Beside, camera, IInv, Typed, Beings

-----------------------------------------------------------------------------
LEMMA InitIInv == ASSUME Init PROVE IInv
<1>1. Held(net) BY FS_EmptySet, BoundsAssumption DEF Init, Held
<1>2. Beings BY BoundsAssumption DEF Init, Beings
<1>3. Typed BY <1>1, <1>2, BoundsAssumption DEF Init, Typed, Locals
<1> QED BY <1>3 DEF Init, IInv, RightCamera, NotifiedOnce

LEMMA NextIInv == ASSUME IInv, [Next]_vars PROVE IInv' /\ Keeps
<1>1. CASE Searches BY <1>1, SearchesStep, BesideStep
<1>2. CASE ConnectTimeout \/ TrafficTimeout \/ RestartsAnyway BY <1>2, RestartsStep
<1>3. CASE Loses BY <1>3, LosesStep, BesideStep
<1>4. ASSUME NEW p \in net, Run(p) PROVE IInv' /\ Keeps
  BY <1>4, PunchStep, ReadyStep, DataStep, ClosedStep, BesideStep DEF Run
<1>5. ASSUME NEW p \in net, NEW c \in Cameras, CameraGets(c, p) PROVE IInv' /\ Keeps
  BY <1>5, SearchStep, EchoStep, OtherStep, BesideStep DEF CameraGets
<1>6. ASSUME NEW c \in Cameras, SendsData(c) \/ Forgets(c) PROVE IInv' /\ Keeps
  BY <1>6, DataSent, BesideStep
<1>7. ASSUME NEW c \in Cameras, Reboots(c) PROVE IInv' /\ Keeps BY <1>7, RebootStep, BesideStep
<1>8. CASE UNCHANGED vars
  BY <1>8 DEF vars, gateway, camera, IInv, Typed, Beings, RightCamera, NotifiedOnce, Keeps
<1> QED BY <1>1, <1>2, <1>3, <1>4, <1>5, <1>6, <1>7, <1>8 DEF Next

LEMMA Invariant == Spec => []IInv
BY InitIInv, NextIInv, PTL DEF Spec

\* Types, the echoes of a PUNCH and the size of the network within their limits, and one
\* OnConnected for a session.
THEOREM TypesAndOneConnect == Spec => []Inv
<1>1. IInv => TypeOK /\ NotifiedOnce BY DEF IInv, Typed, Beings, Held, TypeOK
<1>2. IInv => Inv BY <1>1 DEF Inv
<1> QED BY <1>2, Invariant, PTL

\* With a configured address no other camera becomes the peer, and none is heard, for
\* any number of cameras, sessions and packets.
THEOREM OnlyTheRightCamera == Spec => []RightCamera
<1>1. IInv => RightCamera BY DEF IInv
<1> QED BY <1>1, Invariant, PTL

\* OnConnected is called once in a session that has a peer, and never in another.
THEOREM Once == Spec => []NotifiedOnce
<1>1. IInv => NotifiedOnce BY DEF IInv
<1> QED BY <1>1, Invariant, PTL

\* A session stays with the first address that completed the handshake.
THEOREM StaysWithPeer == Spec => Pinned
<1>1. IInv /\ [Next]_vars =>
        [remote # None /\ session' = session =>
           remote' = remote /\ (heard' # heard => heard' = remote)]_vars
  BY NextIInv DEF Keeps
<1> QED BY <1>1, Invariant, PTL DEF Spec, Pinned

-----------------------------------------------------------------------------
(* The bytes of packets, and their cipher.                                   *)

\* A byte of the ciphertext comes from the byte of the packet and the one before.
Chained == \A i \in 1 .. Len(cipher) : cipher[i] = Xor(plain[i], Pad(Prev(cipher, i)))

\* Packets are sent only when the key is complete.
KeyFirst == psk # <<>> => plain = <<>>

WireInv == WireTypeOK /\ Chained /\ KeyFirst /\ Deciphered

\* Key bytes stay bytes.
LEMMA Modulo == ASSUME NEW n \in Int PROVE n % W \in Bytes
BY WidthAssumption DEF Bytes

\* A word consists of two bytes.
LEMMA WordType == ASSUME NEW n \in Nat PROVE Word(n) \in Seq(Bytes) /\ Len(Word(n)) = 2
<1>1. n \div W \in Int BY WidthAssumption
<1> QED BY <1>1, Modulo DEF Word

\* Packets of both kinds consist of bytes.
LEMMA DRWPacketType ==
  ASSUME NEW channel \in Channels, NEW index \in Nat, NEW data \in Payloads
  PROVE  DRWPacket(channel, index, data) \in Seq(Bytes)
<1>1. data \in Seq(Bytes) /\ Len(data) + 4 \in Nat BY InputAssumption
<1>2. Word(Len(data) + 4) \in Seq(Bytes) /\ Word(index) \in Seq(Bytes) BY <1>1, WordType
<1>3. <<Mcam, Drw>> \in Seq(Bytes) /\ <<Mdrw, channel>> \in Seq(Bytes) BY InputAssumption
<1> QED BY <1>1, <1>2, <1>3 DEF DRWPacket

LEMMA DRWAckType ==
  ASSUME NEW channel \in Channels, NEW index \in Nat
  PROVE  DRWAck(channel, index) \in Seq(Bytes)
<1>1. <<Mcam, Ack, 0, 6, Mdrw, channel, 0, 1>> \in Seq(Bytes)
  BY InputAssumption, WidthAssumption DEF Bytes
<1> QED BY <1>1, WordType DEF DRWAck

\* The pad is a byte.
LEMMA PadType == ASSUME WireTypeOK, NEW prev \in Bytes PROVE Pad(prev) \in Bytes
<1>1. prev % 4 \in 0 .. 3 BY DEF Bytes
<1>2. key[prev % 4] + prev \in Int BY <1>1 DEF WireTypeOK, Bytes
<1> QED BY <1>2, Modulo, TableAssumption DEF Pad

LEMMA PrevType ==
  ASSUME NEW bytes \in Seq(Bytes), NEW i \in 1 .. Len(bytes) + 1 PROVE Prev(bytes, i) \in Bytes
BY WidthAssumption DEF Prev, Bytes

LEMMA XorType ==
  ASSUME NEW a \in Bytes, NEW b \in Bytes
  PROVE  Xor(a, b) \in Bytes /\ Xor(Xor(a, b), b) = a
BY XorAssumption

\* The bytes before i are the same after one has been appended.
LEMMA PrevAppend ==
  ASSUME NEW bytes \in Seq(Bytes), NEW b \in Bytes, NEW i \in 1 .. Len(bytes) + 1
  PROVE  Prev(Append(bytes, b), i) = Prev(bytes, i)
BY DEF Prev

LEMMA WireInitInv == WireInit => WireInv
<1> SUFFICES ASSUME WireInit PROVE WireInv OBVIOUS
<1>1. WireTypeOK BY InputAssumption, WidthAssumption DEF WireInit, WireTypeOK, Bytes
<1> QED BY <1>1 DEF WireInit, WireInv, Chained, KeyFirst, Deciphered

LEMMA KeyByteStep == ASSUME WireInv, KeyByte PROVE WireInv'
<1>1. plain = <<>> /\ cipher = <<>> /\ text = <<>> BY DEF WireInv, WireTypeOK, KeyByte, KeyFirst
<1>2. Head(psk) \in Bytes /\ psk' \in Seq(Bytes) BY DEF WireInv, WireTypeOK, KeyByte
<1>3. /\ key[0] + Head(psk) \in Int /\ key[1] - Head(psk) \in Int
      /\ key[2] + Head(psk) \div 3 \in Int
  BY <1>2 DEF WireInv, WireTypeOK, Bytes
<1>4. Xor(key[3], Head(psk)) \in Bytes BY <1>2, XorType DEF WireInv, WireTypeOK
<1>5. \A i \in 0 .. 3 : key'[i] \in Bytes BY <1>3, <1>4, Modulo DEF KeyByte
<1>6. key' \in [0 .. 3 -> Bytes] BY <1>5 DEF KeyByte
<1>7. plain' = <<>> /\ cipher' = <<>> /\ text' = <<>> /\ outIndex' = outIndex BY <1>1 DEF KeyByte
<1>8. WireTypeOK' BY <1>2, <1>6, <1>7 DEF WireInv, WireTypeOK
<1> QED BY <1>7, <1>8 DEF WireInv, Chained, KeyFirst, Deciphered

LEMMA PutsStep ==
  ASSUME WireInv, Idle, NEW packet, NEW bytes \in Seq(Bytes), Puts(packet, bytes),
         outIndex' \in 0 .. W * W - 1
  PROVE  WireInv'
<1>1. WireTypeOK' BY DEF WireInv, WireTypeOK, Puts
<1> QED BY <1>1 DEF Puts, Idle, WireInv, Chained, KeyFirst, Deciphered

LEMMA EncryptStep == ASSUME WireInv, EncryptByte PROVE WireInv'
<1> DEFINE i == Len(cipher) + 1
           b == Xor(plain[i], Pad(Prev(cipher, i)))
<1>1. i \in 1 .. Len(plain) /\ cipher' = Append(cipher, b) BY DEF EncryptByte, WireInv, WireTypeOK
<1>2. plain[i] \in Bytes BY <1>1 DEF WireInv, WireTypeOK
<1>3. Prev(cipher, i) \in Bytes BY PrevType DEF WireInv, WireTypeOK
<1>4. b \in Bytes BY <1>2, <1>3, PadType, XorType DEF WireInv
<1>5. cipher' \in Seq(Bytes) /\ Len(cipher') = Len(cipher) + 1
  BY <1>1, <1>4 DEF WireInv, WireTypeOK
<1>6. WireTypeOK' BY <1>1, <1>5 DEF WireInv, WireTypeOK, EncryptByte
<1>7. Chained'
  <2> SUFFICES ASSUME NEW j \in 1 .. Len(cipher')
               PROVE  cipher'[j] = Xor(plain[j], Pad(Prev(cipher', j)))
    BY DEF Chained, EncryptByte, Pad
  <2>1. j \in 1 .. Len(cipher) + 1 BY <1>5
  <2>2. Prev(cipher', j) = Prev(cipher, j) BY <1>1, <1>4, <2>1, PrevAppend DEF WireInv, WireTypeOK
  <2>3. CASE j = i BY <1>1, <2>2, <2>3 DEF WireInv, WireTypeOK
  <2>4. CASE j # i
    <3>1. j \in 1 .. Len(cipher) BY <2>1, <2>4 DEF WireInv, WireTypeOK
    <3>2. cipher'[j] = cipher[j] BY <1>1, <3>1 DEF WireInv, WireTypeOK
    <3> QED BY <2>2, <3>1, <3>2 DEF WireInv, Chained
  <2> QED BY <2>3, <2>4
<1>8. KeyFirst' /\ Deciphered' BY DEF WireInv, KeyFirst, Deciphered, EncryptByte
<1> QED BY <1>6, <1>7, <1>8 DEF WireInv

LEMMA DecryptStep == ASSUME WireInv, DecryptByte PROVE WireInv'
<1> DEFINE i == Len(text) + 1
           b == Xor(cipher[i], Pad(Prev(cipher, i)))
<1>1. i \in 1 .. Len(cipher) /\ text' = Append(text, b) /\ Len(cipher) = Len(plain)
  BY DEF DecryptByte, WireInv, WireTypeOK
<1>2. plain[i] \in Bytes BY <1>1 DEF WireInv, WireTypeOK
<1>3. Prev(cipher, i) \in Bytes BY <1>1, PrevType DEF WireInv, WireTypeOK
<1>4. Pad(Prev(cipher, i)) \in Bytes BY <1>3, PadType DEF WireInv
<1>5. b = plain[i]
  <2>1. cipher[i] = Xor(plain[i], Pad(Prev(cipher, i))) BY <1>1 DEF WireInv, Chained
  <2> QED BY <1>2, <1>4, <2>1, XorType
<1>6. text' \in Seq(Bytes) /\ Len(text') = Len(text) + 1 BY <1>1, <1>2, <1>5 DEF WireInv, WireTypeOK
<1>7. WireTypeOK' BY <1>1, <1>6 DEF WireInv, WireTypeOK, DecryptByte
<1>8. Deciphered'
  <2> SUFFICES ASSUME NEW j \in 1 .. Len(text') PROVE text'[j] = plain[j]
    BY DEF Deciphered, DecryptByte
  <2>1. CASE j = i BY <1>1, <1>5, <2>1 DEF WireInv, WireTypeOK
  <2>2. CASE j # i
    <3>1. j \in 1 .. Len(text) BY <1>6, <2>2 DEF WireInv, WireTypeOK
    <3>2. text'[j] = text[j] BY <1>1, <3>1 DEF WireInv, WireTypeOK
    <3> QED BY <3>1, <3>2 DEF WireInv, Deciphered
  <2> QED BY <2>1, <2>2
<1>9. Chained' /\ KeyFirst' BY DEF WireInv, Chained, KeyFirst, DecryptByte, Pad
<1> QED BY <1>7, <1>8, <1>9 DEF WireInv

LEMMA WireNextInv == ASSUME WireInv, [WireNext]_wire PROVE WireInv'
<1>0. W * W \in Nat /\ W * W > 0 BY WidthAssumption
<1>1. CASE KeyByte BY <1>1, KeyByteStep
<1>2. CASE EncryptByte BY <1>2, EncryptStep
<1>3. CASE DecryptByte BY <1>3, DecryptStep
<1>4. ASSUME NEW channel \in Channels, NEW data \in Payloads, SendDRWPacket(channel, data)
      PROVE  WireInv'
  <2>1. outIndex \in Nat BY <1>0 DEF WireInv, WireTypeOK
  <2>2. DRWPacket(channel, outIndex, data) \in Seq(Bytes) BY <2>1, DRWPacketType
  <2>3. outIndex' \in 0 .. W * W - 1 BY <1>0, <1>4, <2>1 DEF SendDRWPacket
  <2> QED BY <1>4, <2>2, <2>3, PutsStep DEF SendDRWPacket
<1>5. ASSUME NEW channel \in Channels, NEW index \in 0 .. W * W - 1, SendDRWAck(channel, index)
      PROVE  WireInv'
  <2>1. index \in Nat BY <1>0
  <2>2. DRWAck(channel, index) \in Seq(Bytes) BY <2>1, DRWAckType
  <2>3. outIndex' \in 0 .. W * W - 1 BY <1>5 DEF SendDRWAck, WireInv, WireTypeOK
  <2> QED BY <1>5, <2>2, <2>3, PutsStep DEF SendDRWAck
<1>6. CASE SendFails
  <2>1. outIndex' \in 0 .. W * W - 1 BY <1>0, <1>6 DEF SendFails, WireInv, WireTypeOK
  <2> QED BY <1>6, <2>1 DEF SendFails, WireInv, WireTypeOK, Chained, KeyFirst, Deciphered, Pad
<1>7. CASE UNCHANGED wire
  BY <1>7 DEF wire, WireInv, WireTypeOK, Chained, KeyFirst, Deciphered, Pad
<1> QED BY <1>1, <1>2, <1>3, <1>4, <1>5, <1>6, <1>7 DEF WireNext

\* Keys, indices and packets stay within their bytes, and no more is decrypted than was
\* encrypted, for any width of a byte, key table and keys.
THEOREM WireTypes == WireSpec => []WireTypeOK
<1>1. WireSpec => []WireInv BY WireInitInv, WireNextInv, PTL DEF WireSpec
<1>2. WireInv => WireTypeOK BY DEF WireInv
<1> QED BY <1>1, <1>2, PTL

\* decryptInto undoes encrypt, for every key and every key table.
THEOREM Undone == WireSpec => []Deciphered
<1>1. WireSpec => []WireInv BY WireInitInv, WireNextInv, PTL DEF WireSpec
<1>2. WireInv => Deciphered BY DEF WireInv
<1> QED BY <1>1, <1>2, PTL

-----------------------------------------------------------------------------
(* What the peer parses.                                                     *)

\* The two bytes of a word give the number back.
LEMMA WordBack ==
  ASSUME NEW n \in 0 .. W * W - 1 PROVE FromWord(Word(n)[1], Word(n)[2]) = n
<1> DEFINE q == n \div W
           r == n % W
<1>0. W \in Nat /\ W > 0 /\ n \in Nat /\ n < W * W BY WidthAssumption
<1>1. q \in Int /\ r \in 0 .. W - 1 BY <1>0
<1>2. n = q * W + r BY <1>0
<1>3. q >= 0 /\ q < W BY <1>0, <1>1, <1>2
<1>4. q % W = q BY <1>0, <1>1, <1>3
<1> QED BY <1>2, <1>4 DEF Word, FromWord

\* A packet is taken apart as it was put together.
LEMMA ParseDRW ==
  ASSUME NEW channel \in Channels, NEW index \in 0 .. W * W - 1, NEW data \in Payloads
  PROVE  LET b == DRWPacket(channel, index, data) IN
         /\ Parses(b)
         /\ ParsePacket(b) = [type |-> Drw, size |-> Len(data) + 4, channel |-> channel,
                              index |-> index, data |-> data]
<1> DEFINE size == Word(Len(data) + 4)
           number == Word(index)
           b == DRWPacket(channel, index, data)
<1>0. W * W \in Nat /\ index \in Nat BY WidthAssumption
<1>1. data \in Seq(Bytes) /\ Len(data) + 4 \in 0 .. W * W - 1 BY <1>0, InputAssumption
<1>2. size = <<size[1], size[2]>> /\ number = <<number[1], number[2]>> BY DEF Word
<1>3. b = <<Mcam, Drw, size[1], size[2], Mdrw, channel, number[1], number[2]>> \o data
  BY <1>1, <1>2 DEF DRWPacket, Word
<1>4. FromWord(size[1], size[2]) = Len(data) + 4 BY <1>1, WordBack
<1>5. FromWord(number[1], number[2]) = index BY WordBack
<1> HIDE DEF size, number, b
<1>6. /\ Len(b) = 8 + Len(data) /\ b[1] = Mcam /\ b[2] = Drw /\ b[3] = size[1]
      /\ b[4] = size[2] /\ b[6] = channel /\ b[7] = number[1] /\ b[8] = number[2]
  BY <1>1, <1>3
<1>7. SubSeq(b, 9, Len(b)) = data BY <1>1, <1>3, <1>6
<1>8. Len(b) >= 8 BY <1>1, <1>6
<1>9. Parses(b) BY <1>6, <1>8 DEF Parses
<1>10. ParsePacket(b) = [type |-> Drw, size |-> Len(data) + 4, channel |-> channel,
                         index |-> index, data |-> data]
  BY <1>4, <1>5, <1>6, <1>7, <1>8 DEF ParsePacket
<1> QED BY <1>9, <1>10 DEF b

\* Both parts of a joined sequence are found again.
LEMMA Joined ==
  ASSUME NEW S, NEW s \in Seq(S), NEW t \in Seq(S)
  PROVE  /\ s \o t \in Seq(S) /\ Len(s \o t) = Len(s) + Len(t)
         /\ \A i \in 1 .. Len(s) : (s \o t)[i] = s[i]
         /\ SubSeq(s \o t, Len(s) + 1, Len(s) + Len(t)) = t
OBVIOUS

LEMMA ParseAck ==
  ASSUME NEW channel \in Channels, NEW index \in 0 .. W * W - 1
  PROVE  LET b == DRWAck(channel, index) IN
         /\ Parses(b)
         /\ ParsePacket(b) = [type |-> Ack, size |-> 6, channel |-> channel, index |-> 1,
                              data |-> Word(index)]
<1> DEFINE head == <<Mcam, Ack, 0, 6, Mdrw, channel, 0, 1>>
<1>1. head \in Seq(Bytes) /\ Len(head) = 8
  BY InputAssumption, WidthAssumption DEF Bytes
<1>2. index \in Nat BY WidthAssumption
<1>3. Word(index) \in Seq(Bytes) /\ Len(Word(index)) = 2 BY <1>2, WordType
<1>4. DRWAck(channel, index) = head \o Word(index) BY DEF DRWAck
<1>5. /\ head[1] = Mcam /\ head[2] = Ack /\ head[3] = 0 /\ head[4] = 6
      /\ head[6] = channel /\ head[7] = 0 /\ head[8] = 1
  OBVIOUS
<1>6. FromWord(0, 6) = 6 /\ FromWord(0, 1) = 1 BY WidthAssumption DEF FromWord
<1> HIDE DEF head
<1> DEFINE b == DRWAck(channel, index)
           n == Word(index)
<1>7. b = head \o n BY <1>4
<1>8. n \in Seq(Bytes) /\ Len(n) = 2 BY <1>3
<1> HIDE DEF b, n
<1>9. b \in Seq(Bytes) BY <1>1, <1>7, <1>8, Joined
<1>10. Len(b) = 10
  <2>1. Len(b) = Len(head) + Len(n) BY <1>1, <1>7, <1>8, Joined
  <2> QED BY <1>1, <1>8, <2>1
<1>11. SubSeq(b, Len(head) + 1, Len(head) + Len(n)) = n BY <1>1, <1>7, <1>8, Joined
<1>12. SubSeq(b, 9, 10) = n BY <1>1, <1>8, <1>11
<1>13. \A i \in 1 .. Len(head) : b[i] = head[i] BY <1>1, <1>7, <1>8, Joined
<1>14. /\ b[1] = Mcam /\ b[2] = Ack /\ b[3] = 0 /\ b[4] = 6
       /\ b[6] = channel /\ b[7] = 0 /\ b[8] = 1
  BY <1>1, <1>5, <1>13
<1>15. Parses(b) BY <1>9, <1>10, <1>14 DEF Parses
<1>16. ParsePacket(b) = [type |-> Ack, size |-> 6, channel |-> channel, index |-> 1, data |-> n]
  BY <1>6, <1>9, <1>10, <1>12, <1>14 DEF ParsePacket
<1> QED BY <1>15, <1>16 DEF b, n

\* What was sent is what its bytes say.
Carries == plain # <<>> => Parses(plain) /\ ParsePacket(plain) = sent

LEMMA NextCarries == ASSUME WireInv, Carries, [WireNext]_wire PROVE Carries'
<1>0. W * W \in Nat BY WidthAssumption
<1>1. CASE UNCHANGED <<plain, sent>> BY <1>1 DEF Carries, Parses, ParsePacket
<1>2. ASSUME NEW channel \in Channels, NEW data \in Payloads, SendDRWPacket(channel, data)
      PROVE  Carries'
  <2>1. outIndex \in 0 .. W * W - 1 BY DEF WireInv, WireTypeOK
  <2>2. plain' = DRWPacket(channel, outIndex, data) BY <1>2 DEF SendDRWPacket, Puts
  <2>3. sent' = [type |-> Drw, size |-> Len(data) + 4, channel |-> channel,
                 index |-> outIndex, data |-> data]
    BY <1>2 DEF SendDRWPacket, Puts
  <2>4. Parses(plain') /\ ParsePacket(plain') = sent' BY <2>1, <2>2, <2>3, ParseDRW
  <2> QED BY <2>4 DEF Carries, Parses, ParsePacket
<1>3. ASSUME NEW channel \in Channels, NEW index \in 0 .. W * W - 1, SendDRWAck(channel, index)
      PROVE  Carries'
  <2>1. plain' = DRWAck(channel, index) BY <1>3 DEF SendDRWAck, Puts
  <2>2. sent' = [type |-> Ack, size |-> 6, channel |-> channel, index |-> 1,
                 data |-> Word(index)]
    BY <1>3 DEF SendDRWAck, Puts
  <2>3. Parses(plain') /\ ParsePacket(plain') = sent' BY <2>1, <2>2, ParseAck
  <2> QED BY <2>3 DEF Carries, Parses, ParsePacket
<1>4. CASE KeyByte \/ EncryptByte \/ DecryptByte \/ SendFails \/ UNCHANGED wire
  BY <1>1, <1>4 DEF KeyByte, EncryptByte, DecryptByte, SendFails, wire
<1> QED BY <1>2, <1>3, <1>4 DEF WireNext

LEMMA CarriesRoundTrip == ASSUME WireInv, Carries PROVE RoundTrip
<1> SUFFICES ASSUME Idle, plain # <<>> PROVE Parses(text) /\ ParsePacket(text) = sent
  BY DEF RoundTrip
<1>1. text \in Seq(Bytes) /\ plain \in Seq(Bytes) /\ Len(text) = Len(plain)
  BY DEF WireInv, WireTypeOK, Idle
<1>2. \A i \in 1 .. Len(text) : text[i] = plain[i] BY DEF WireInv, Deciphered
<1>3. text = plain BY <1>1, <1>2
<1> QED BY <1>3 DEF Carries

\* The peer reads the packet that was sent, with its channel, index and data, for any
\* payload whose length fits its field.
THEOREM ReadAsSent == WireSpec => []RoundTrip
<1>1. WireInit => Carries BY DEF WireInit, Carries
<1>2. WireSpec => [](WireInv /\ Carries)
    BY <1>1, WireInitInv, WireNextInv, NextCarries, PTL DEF WireSpec
<1>3. WireInv /\ Carries => RoundTrip BY CarriesRoundTrip
<1> QED BY <1>2, <1>3, PTL
=============================================================================
