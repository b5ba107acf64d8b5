---------------------------- MODULE MCChainHeads ----------------------------
(* Small instances of the stream of heads for TLC. *)
EXTENDS ChainHeads

\* The stream of heads is finite here, so that the system may stop when all are
\* handled: the configurations do not check for deadlock.
=============================================================================
