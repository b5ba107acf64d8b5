SPECIFICATION Spec
CONSTANTS
 Peers = {p1}
 Hashes = {h1,h2,h3,h4}
 NoPeer = NoPeer
 MaxTxAnnounces = 3
 MaxTxRetrievals = 1
INVARIANT AnnouncesCapped
