SPECIFICATION Spec
CONSTANTS
    Requests = {r1}
    FingridKey = FALSE
    NoSnapshot = NoSnapshot
    Free = Free
    MaxTime = 2
    MaxFaults = 1
INVARIANTS
    AnswerStartsAfterPublishedPrices
PROPERTIES
    CacheNeverRegresses
    KeepsItsPromise
