CONSTANTS
    t1 = t1  t2 = t2  t3 = t3
    p1 = p1  p2 = p2
    NoThread = NoThread
    Threads <- ThreeThreads
    Procs <- TwoProcs
    ProcOf <- ProcOfThree
    MaxToken = 3
    LockFallback = FALSE
    MaxLate = 0
SYMMETRY SameProcess
SPECIFICATION Spec
INVARIANTS TypeOK NoReplay RemovalSafe LogoutWins
PROPERTIES NoLostUpdate AtomicStore
