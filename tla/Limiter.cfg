SPECIFICATION Spec
CONSTANTS
    Threads = {t1, t2}
    Keys = {k1, k2, k3}
    Limit = 2
    Window = 2
    MaxKeys = 2
    NoList = NoList
    MaxTime = 3
    MaxCalls = 4
    MaxOverlapping = 3
\* the calls of a behaviour are bounded
CHECK_DEADLOCK FALSE
INVARIANTS
    WindowRespected
    KeysBounded
    HitsAreReal
PROPERTY RefusalIsHonest
