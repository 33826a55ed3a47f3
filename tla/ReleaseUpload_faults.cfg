SPECIFICATION Spec
CONSTANTS
    p1 = p1
    p2 = p2
    a = a
    b = b
    Procs <- TwoProcs
    Files <- TwoFiles
    Old = old
    NoAsset = none
    NumWorkers = 2
    MaxAttempts = 2
    Commands <- AllCommands
    Faults = TRUE
SYMMETRY ReleaseSymmetry
INVARIANTS TypeOK PublicHasItsFiles FailedCreateLeavesNothing SuccessIsStored LostOnlyByFailure UploadFailsForACause
PROPERTY PublicIsDeletedOnPurpose
CHECK_DEADLOCK FALSE
