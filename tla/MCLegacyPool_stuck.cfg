SPECIFICATION Spec
CONSTANTS
    ann = ann
    bob = bob
    Addrs = {ann, bob}
    Txs <- MCTxs
    Heads <- MCHeads
    MaxNonce = 2
    MaxLost = 2
    MaxStale = 1
    PriceBump = 10
    AccountSlots = 1
    GlobalSlots = 3
    AccountQueue = 1
    GlobalQueue = 1
INVARIANT NoneLeftExecutable
