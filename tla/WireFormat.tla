----------------------------- MODULE WireFormat -----------------------------
(***************************************************************************)
(* The packets of bkcam-go/main.go as bytes, and their cipher: keyFromPSK, *)
(* sendDRWPacket, sendDRWAck, encrypt, decryptInto and parsePacket, byte   *)
(* by byte.  The peer uses the same key and the same functions.            *)
(*                                                                         *)
(* A byte has W values, 256 in the code.  Nothing is assumed of KeyTable,  *)
(* and of Xor only that it undoes itself.                                  *)
(***************************************************************************)
EXTENDS Integers, Sequences

CONSTANTS
  W,
  Xor(_, _),
  KeyTable,
  Psks,                  \* pre-shared keys
  Channels,
  Payloads,              \* data of packets
  Mcam, Drw, Ack, Mdrw   \* the bytes that mark a packet

Bytes == 0 .. W - 1

ASSUME WidthAssumption == W \in Nat /\ W % 4 = 0 /\ W > 6
ASSUME XorAssumption == \A a, b \in Bytes : Xor(a, b) \in Bytes /\ Xor(Xor(a, b), b) = a
ASSUME TableAssumption == KeyTable \in [Bytes -> Bytes]
ASSUME InputAssumption ==
  /\ Psks \subseteq Seq(Bytes) /\ Payloads \subseteq Seq(Bytes) /\ Channels \subseteq Bytes
  /\ {Mcam, Drw, Ack, Mdrw} \subseteq Bytes
  /\ \A data \in Payloads : Len(data) + 4 < W * W

VARIABLES
  psk,       \* what keyFromPSK has not used yet
  key,
  outIndex,  \* p.outIndex, as the 16 bits that are sent
  sent,      \* history: the last packet
  plain,     \* its bytes,
  cipher,    \* as far as encrypt has come,
  text       \* and as far as the peer has decrypted them

wire == <<psk, key, outIndex, sent, plain, cipher, text>>

\* Keys, indices and packets stay within their bytes, and no more is decrypted than
\* was encrypted.
WireTypeOK ==
  /\ psk \in Seq(Bytes)
  /\ key \in [0 .. 3 -> Bytes]
  /\ outIndex \in 0 .. W * W - 1
  /\ plain \in Seq(Bytes) /\ cipher \in Seq(Bytes) /\ text \in Seq(Bytes)
  /\ Len(text) <= Len(cipher) /\ Len(cipher) <= Len(plain)

NoPacket == [type |-> 0, size |-> 0, channel |-> 0, index |-> 0, data |-> <<>>]

WireInit ==
  /\ psk \in Psks /\ key = [i \in 0 .. 3 |-> 0]
  /\ outIndex = 0 /\ sent = NoPacket /\ plain = <<>> /\ cipher = <<>> /\ text = <<>>

-----------------------------------------------------------------------------
\* keyFromPSK, one character.
KeyByte ==
  /\ psk # <<>> /\ psk' = Tail(psk)
  /\ key' = [i \in 0 .. 3 |->
       CASE i = 0 -> (key[0] + Head(psk)) % W
         [] i = 1 -> (key[1] - Head(psk)) % W
         [] i = 2 -> (key[2] + Head(psk) \div 3) % W
         [] i = 3 -> Xor(key[3], Head(psk))]
  /\ UNCHANGED <<outIndex, sent, plain, cipher, text>>

\* Big-endian, two bytes.
Word(n) == <<(n \div W) % W, n % W>>

FromWord(high, low) == high * W + low

BugDRWPacket(channel, index, data) ==
  <<Mcam, Drw>> \o Word(Len(data)) \o <<Mdrw, channel>> \o Word(index) \o data

DRWPacket(channel, index, data) ==
  <<Mcam, Drw>> \o Word(Len(data) + 4) \o <<Mdrw, channel>> \o Word(index) \o data

\* One index is acknowledged; it goes where other packets have their data.
DRWAck(channel, index) ==
  <<Mcam, Ack, 0, 6, Mdrw, channel, 0, 1>> \o Word(index)

Idle == psk = <<>> /\ Len(text) = Len(plain)

Puts(packet, bytes) ==
  /\ sent' = packet /\ plain' = bytes /\ cipher' = <<>> /\ text' = <<>>
  /\ UNCHANGED <<psk, key>>

SendDRWPacket(channel, data) ==
  /\ Idle
  /\ Puts([type |-> Drw, size |-> Len(data) + 4, channel |-> channel, index |-> outIndex,
            data |-> data],
           DRWPacket(channel, outIndex, data))
  /\ outIndex' = (outIndex + 1) % (W * W)

\* Without a peer, or if the socket gives an error, the index is used up all the same.
SendFails ==
  /\ Idle
  /\ outIndex' = (outIndex + 1) % (W * W)
  /\ UNCHANGED <<psk, key, sent, plain, cipher, text>>

\* Of a packet that the peer sent.
SendDRWAck(channel, index) ==
  /\ Idle
  /\ Puts([type |-> Ack, size |-> 6, channel |-> channel, index |-> 1, data |-> Word(index)],
           DRWAck(channel, index))
  /\ UNCHANGED outIndex

Pad(prev) == KeyTable[(key[prev % 4] + prev) % W]

\* The byte before, of the ciphertext; 0 at the start of a packet.
Prev(bytes, i) == IF i = 1 THEN 0 ELSE bytes[i - 1]

EncryptByte ==
  LET i == Len(cipher) + 1 IN
  /\ i <= Len(plain)
  /\ cipher' = Append(cipher, Xor(plain[i], Pad(Prev(cipher, i))))
  /\ UNCHANGED <<psk, key, outIndex, sent, plain, text>>

DecryptByte ==
  LET i == Len(text) + 1 IN
  /\ Len(cipher) = Len(plain) /\ i <= Len(cipher)
  /\ text' = Append(text, Xor(cipher[i], Pad(Prev(cipher, i))))
  /\ UNCHANGED <<psk, key, outIndex, sent, plain, cipher>>

\* parsePacket; Parses is its second result.
Parses(b) == Len(b) >= 4 /\ b[1] = Mcam

ParsePacket(b) ==
  LET whole == Len(b) >= 8 IN
  [type |-> b[2], size |-> FromWord(b[3], b[4]),
   channel |-> IF whole THEN b[6] ELSE 0,
   index |-> IF whole THEN FromWord(b[7], b[8]) ELSE 0,
   data |-> IF whole THEN SubSeq(b, 9, Len(b)) ELSE <<>>]

WireNext ==
  \/ KeyByte \/ EncryptByte \/ DecryptByte \/ SendFails
  \/ \E channel \in Channels :
       \/ \E data \in Payloads : SendDRWPacket(channel, data)
       \/ \E index \in 0 .. W * W - 1 : SendDRWAck(channel, index)

WireSpec == WireInit /\ [][WireNext]_wire

-----------------------------------------------------------------------------
(* Properties.                                                               *)

\* What has been decrypted are the bytes that were encrypted, from the first on and
\* whatever key and table are.
Deciphered == \A i \in 1 .. Len(text) : text[i] = plain[i]

\* The peer parses what was sent, also when the index wraps.
RoundTrip ==
  Idle /\ plain # <<>> => Parses(text) /\ ParsePacket(text) = sent
=============================================================================
