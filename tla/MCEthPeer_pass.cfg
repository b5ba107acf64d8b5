SPECIFICATION FairSpec
CONSTANTS
 Requests = {r1, r2}
 Nobody = Nobody
INVARIANTS HandshakeComplete RequestsAccounted
PROPERTIES NobodyWaitsForEver
CHECK_DEADLOCK FALSE
