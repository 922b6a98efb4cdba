-------------------------- MODULE MCPeerHandshake --------------------------
(* Small instances of PeerHandshake for TLC. *)
EXTENDS PeerHandshake

CONSTANTS c1, c2
=============================================================================
