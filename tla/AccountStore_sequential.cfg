CONSTANTS
    u1 = u1  u2 = u2  u3 = u3
    p1 = p1  p2 = p2
    NoUser = NoUser  NoProc = NoProc
    Users <- ThreeUsers
    Procs <- OneProc
    Commands <- EveryCommand
    Faults = TRUE
SYMMETRY Triplets
SPECIFICATION Spec
INVARIANT HostTokenAgrees
PROPERTY SequentialCalls
