SPECIFICATION Spec
CONSTANTS
    Slots = {s1, s2}
    Requests <- MCRequests
    Users <- MCUsers
    Limit <- MCLimit
    Length <- MCLength
    MaxKeys = 1
    MaxDelay = 1
    MaxClock = 2
    Sessions = {1, 2, 3}
    Passwords <- MCPasswords
    Normal <- MCNormal
    Salts = {salt}
    MaxConcurrentHashes = 1
    MaxAbandoned = 1
    Builds <- MCBuilds
    Connections = {1, 2}
    MaxConnections = 1
    ShutdownGrace = 2
    StopTimeout = 1
    RuntimeShutdown = 1
    DrainingSeconds = 6
    MaxReleases = 2
\* The clock and the releases are bounded.
SYMMETRY Symmetry
CHECK_DEADLOCK FALSE
INVARIANT
    HashesWithinPermits
