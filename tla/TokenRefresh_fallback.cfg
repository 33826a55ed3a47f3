CONSTANTS
    t1 = t1  t2 = t2  t3 = t3
    p1 = p1  p2 = p2
    NoThread = NoThread
    Threads <- TwoThreads
    Procs <- TwoProcs
    ProcOf <- ProcOfTwo
    MaxToken = 1
    LockFallback = TRUE
    MaxLate = 1
SPECIFICATION FairSpec
INVARIANT RemovalSafe
PROPERTIES NoLostUpdate LogoutReturns
