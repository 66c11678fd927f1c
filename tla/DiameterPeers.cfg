CONSTANTS
    NPeers = 1
    Callers = {c1}
    Capabilities <- SomeCapabilities
    Requests <- SomeRequests
    ReconnectMin = 1
    ReconnectMax = 3
    MaxConnections = 2
    MaxCalls = 2
SPECIFICATION FairSpec
INVARIANTS
    TypeOK
    RouteCurrent
    OneResult
    NoLostWakeup
    StoppedClean
PROPERTIES
    ManagersStop
    CallsReturn
CHECK_DEADLOCK FALSE
