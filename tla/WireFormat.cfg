CONSTANTS
  W = 8
  Xor <- MCXor
  KeyTable <- MCKeyTable
  Psks <- MCPsks
  Channels = {0, 2}
  Payloads <- MCPayloads
  Mcam = 7
  Drw = 5
  Ack = 6
  Mdrw = 4
SPECIFICATION WireSpec
INVARIANT
  RoundTrip
