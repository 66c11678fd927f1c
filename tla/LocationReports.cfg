CONSTANTS
    Connections = {c1, c2}
    Reports <- MCReports
    NoRef = "none"
    None = None
    Destinations = {"slrep"}
    MaxArrivals <- MCMaxArrivals
    MaxFaults = 1
    MaxCrashes = 1
SPECIFICATION Spec
SYMMETRY Symmetry
INVARIANTS
    AckedIsKept
    CorrelationConsumed
CHECK_DEADLOCK FALSE
