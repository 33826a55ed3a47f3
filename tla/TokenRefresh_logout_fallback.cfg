CONSTANTS
    t1 = t1  t2 = t2  t3 = t3
    p1 = p1  p2 = p2
    NoThread = NoThread
    Threads <- TwoThreads
    Procs <- TwoProcs
    ProcOf <- ProcOfTwo
    MaxToken = 2
    LockFallback = TRUE
    MaxLate = 0
SPECIFICATION Spec
INVARIANT LogoutWins
