----------------------------- MODULE MCEthPeer -----------------------------
(* A small instance of a connection of the eth protocol for TLC. *)
EXTENDS EthPeer
=============================================================================
