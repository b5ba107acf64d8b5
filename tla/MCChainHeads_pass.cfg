SPECIFICATION FairSpec
CONSTANT MaxHeads = 4
CHECK_DEADLOCK FALSE
INVARIANTS ResetsFollowThePool NothingLeftWaiting
PROPERTIES PoolCatchesUp SendsEnd CloseAnswered
