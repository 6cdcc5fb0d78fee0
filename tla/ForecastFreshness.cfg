SPECIFICATION Spec
CONSTANTS
    Requests = {}
    FingridKey = TRUE
    NoSnapshot = NoSnapshot
    Free = Free
    MaxTime = 2
    MaxFaults = 0
INVARIANTS
    GeneratedAtIsOfTheDataRead
