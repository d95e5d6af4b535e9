CONSTANTS
    MaxRetry = 5
    MaxItems = 3
    MaxConnections = 2
    MaxCycles = 2
    MaxInFlight = 3
    MaxInterrupts = 1
    HostKinds <- MCHostKinds
    GdbCommands <- MCCommands
SPECIFICATION ImpatientSpec
INVARIANTS ReplyMatchesCommand ExitsOnRequest
PROPERTIES CommandEnds InterruptStopsWorker
CHECK_DEADLOCK FALSE
