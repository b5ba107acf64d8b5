SPECIFICATION Spec
CONSTANTS
 Peers = {p1,p2}
 Hashes = {h1}
 NoPeer = NoPeer
 MaxTxAnnounces = 3
 MaxTxRetrievals = 1
INVARIANT NoOrphanSource
