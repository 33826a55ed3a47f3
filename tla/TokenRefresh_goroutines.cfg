CONSTANTS
    t1 = t1  t2 = t2  t3 = t3
    p1 = p1  p2 = p2
    NoThread = NoThread
    Threads <- ThreeThreads
    Procs <- OneProc
    ProcOf <- ProcOfOne
    MaxToken = 3
    LockFallback = TRUE
    MaxLate = 0
SYMMETRY SameProcess3
SPECIFICATION Spec
INVARIANT NoReplay
