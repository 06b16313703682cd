SPECIFICATION Spec
CONSTANTS
    Visitors = {v1}
    Owners = {o1}
    Logins = {l1}
    Probes = {p1}
    Threads = 1
    PoolSize = 1
    UsesRedis = TRUE
    MaxOutages = 1
\* the requests of a behaviour are bounded, and the process stops
CHECK_DEADLOCK FALSE
INVARIANTS
    FailureHasACause
    ReadyMeansReachable
    AllComesBack
PROPERTY EveryRequestEnds
