SPECIFICATION Spec
CONSTANTS
    p1 = p1
    p2 = p2
    s1 = s1
    s2 = s2
    v1 = v1
    v2 = v2
    NoProc = noproc
    None = none
    Procs <- TwoProcs
    Skills <- TwoSkills
    Versions <- TwoVersions
    Latest = v2
    Parts <- TwoParts
    PartsOf <- Growing
    Commands <- AllCommands
    Faults = TRUE
SYMMETRY SkillSymmetry
INVARIANTS TypeOK RecordIsAtomic OldFilesSurvive
PROPERTIES RecordedIsInstalled AllOrNothing
CHECK_DEADLOCK FALSE
