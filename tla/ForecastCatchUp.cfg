SPECIFICATION FairSpec
CONSTANTS
    Requests = {}
    FingridKey = TRUE
    NoSnapshot = NoSnapshot
    Free = Free
    MaxTime = 1
    MaxFaults = 1
INVARIANTS
    RefreshReflectsCommitted
PROPERTIES
    CommittedDataIsServed
