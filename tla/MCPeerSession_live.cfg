SPECIFICATION SessionFairSpec
CONSTANTS
 Peers = {p1, p2}
 Hashes = {h1}
 NoPeer = NoPeer
 MaxTxAnnounces = 2
 MaxTxRetrievals = 1
INVARIANT SessionTypeOK
PROPERTIES WaitEnds TimeoutHandled UnsentIsWithdrawn
