CONSTANTS
    u1 = u1  u2 = u2  u3 = u3
    p1 = p1  p2 = p2
    NoUser = NoUser  NoProc = NoProc
    Users <- TwoUsers
    Procs <- TwoProcs
    Commands <- LoginAndLogout
    Faults = FALSE
SYMMETRY Twins
SPECIFICATION Spec
PROPERTY NoAccountLost
