SPECIFICATION Spec
CONSTANTS
 Peers = {p1, p2}
 Hashes = {h1,h2}
 NoPeer = NoPeer
 MaxTxAnnounces = 2
 MaxTxRetrievals = 2
SYMMETRY PeerSymmetry
INVARIANTS TypeOK OneStage IndexesAgree FetchMatchesRequest NoPanic NoLostTimer
PROPERTY ImplementsAutomaton
