SPECIFICATION Spec
CONSTANTS
    main = main
    p2 = p2
    p3 = p3
    e1 = e1
    e2 = e2
    f1 = f1
    f2 = f2
    Procs <- ThreeProcs
    Main = main
    NoID = noid
    Unknown = unknown
    Events <- TwoEvents
    Facts <- TwoFacts
    Rates <- SomeRates
    Buckets <- TwoBuckets
    NoPayload = nopayload
    Faults = TRUE
SYMMETRY TelemetrySymmetry
INVARIANTS TypeOK PayloadIsExact
PROPERTY DeviceIsElected
CHECK_DEADLOCK FALSE
