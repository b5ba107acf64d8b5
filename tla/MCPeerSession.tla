--------------------------- MODULE MCPeerSession ---------------------------
(* Small instances of the fetcher with sessions for TLC. *)
EXTENDS PeerSession
=============================================================================
