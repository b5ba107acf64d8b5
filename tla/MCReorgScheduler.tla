-------------------------- MODULE MCReorgScheduler --------------------------
(* A small instance of the legacy pool's scheduler for TLC. *)
EXTENDS ReorgScheduler
=============================================================================
