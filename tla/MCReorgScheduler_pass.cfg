SPECIFICATION FairSpec
CONSTANTS
 Adders = {c1}
 Accounts = {a1}
 Resetter = Resetter
 Run = Run
 Nobody = Nobody
INVARIANTS TypeOK DoneMeansDone QueuedIsScheduled
PROPERTIES CallsReturn CloseEnds
