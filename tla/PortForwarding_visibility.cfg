SPECIFICATION PortsSpec
CONSTANTS
    change = change
    port = port
    NoCall = nocall
    NoPort = noport
    Calls <- OneChange
    Conns <- OneConn
    ConnOf <- SmallConnOf
    Ports <- OnePort
    InitialPorts <- PrivatePort
    PortOf <- SmallPortOf
    Listeners = {}
    Changers <- OneChange
    Visibilities <- Privacy
    Default = "private"
    Allowed <- NoOrg
    Faults = {}
PROPERTY SuccessIsChange
CHECK_DEADLOCK FALSE
