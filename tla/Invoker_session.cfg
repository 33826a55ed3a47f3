SPECIFICATION Spec
CONSTANTS
    inner = inner
    forward = forward
    change = change
    internal = internal
    user = user
    noport = noport
    Inner = inner
    NoCall = nocall
    NoPort = noport
    Calls <- SessionCalls
    Conns <- SessionConns
    ConnOf <- SessionConnOf
    Ports <- SessionPorts
    InitialPorts <- SessionInitial
    PortOf <- SessionPortOf
    Listeners <- Listening
    Changers <- Changing
    Visibilities <- TwoPrivacies
    Default = "private"
    Allowed <- TwoPrivacies
    Faults <- Unreliable
INVARIANTS TypeOK PortIsKept LeftOnlyByTimeout ConnIsSet HeldInside
PROPERTIES ChangeIsMade InterruptedCallsReturn HeartbeatStops
CHECK_DEADLOCK FALSE
