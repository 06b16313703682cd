SPECIFICATION Spec
CONSTANTS
    Threads = {t1, t2}
    Keys = {k1, k2}
    Limit = 1
    Window = 1
    MaxKeys = 2
    NoList = NoList
    MaxTime = 2
    MaxCalls = 3
    MaxOverlapping = 3
\* the calls of a behaviour are bounded
CHECK_DEADLOCK FALSE
INVARIANT AcquireNeverFails
