SPECIFICATION PrimitivesSpec
CONSTANTS
    f1 = f1
    f2 = f2
    f3 = f3
    f4 = f4
    Futures = {f1, f2, f3, f4}
    InitialPermits = 0
    MaxPermits = 3
    MaxReaders = 2
    Splitting = TRUE
    n1 = n1
    n2 = n2
    n3 = n3
    n4 = n4
    None = None
    Nodes = {n1, n2, n3, n4}
    Keys = {1, 2}
    Radix = 4
    ClockTime = 15
    t1 = t1
    Sleepers = {t1}
    Interval = 2
    MaxDelay = 2
    MaxTime = 6
    r1 = r1
    r2 = r2
    Receivers = {r1, r2}
    Versions = 4
INVARIANTS Exclusion QueueIsBlocked NoMissedUpdate
PROPERTIES NoInterloper ListRefinement TimeKept EveryWaiterServed
