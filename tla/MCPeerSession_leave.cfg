SPECIFICATION SessionFairSpec
CONSTANTS
 Peers = {p1}
 Hashes = {h1}
 NoPeer = NoPeer
 MaxTxAnnounces = 2
 MaxTxRetrievals = 1
PROPERTY LeaversForgotten
