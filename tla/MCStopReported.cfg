CONSTANTS
    MaxRetry = 5
    MaxItems = 2
    MaxConnections = 1
    MaxCycles = 2
    MaxInFlight = 3
    MaxInterrupts = 0
    HostKinds <- MCHostKinds
    GdbCommands <- MCRuns
SPECIFICATION PatientSpec
PROPERTY StopIsReported
CHECK_DEADLOCK FALSE
