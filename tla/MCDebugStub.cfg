CONSTANTS
    MaxRetry = 2
    MaxItems = 4
    MaxConnections = 2
    MaxCycles = 2
    MaxInFlight = 2
    HostKinds <- MCHostKinds
SPECIFICATION Spec
INVARIANTS TypeOK WorkerExclusive
PROPERTY AcknowledgedOrClosed
CHECK_DEADLOCK FALSE
