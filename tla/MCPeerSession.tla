--------------------------- MODULE MCPeerSession ---------------------------
(* PeerSession for TLC: the number of calls is the only parameter. *)
EXTENDS PeerSession
=============================================================================
