---------------------------- MODULE MCTxFetcher ----------------------------
(* Small instances of the transaction fetcher for TLC. *)
EXTENDS TxFetcher, TLC

\* Peers are interchangeable, and so are hashes: every definition of TxFetcher
\* quantifies over them and chooses none.
PeerSymmetry == Permutations(Peers) \cup Permutations(Hashes)

============================================================================
