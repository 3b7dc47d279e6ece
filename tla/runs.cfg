SPECIFICATION Spec
CONSTANTS
    u = u
    v = v
    x = x
    NoTurn = NoTurn
    WebTurns <- OneLane
    RelayTurns <- RelayLane
    ExternalTurns <- OneExternal
    MaxRuns = 2
    RetryLimit = 0
    MaxFaults = 2
CONSTRAINT OneRunOrNoTurns
INVARIANTS
    OneInFlightPerRun
    RestartFindsNoRun
PROPERTIES
    UserGoesFirst
    EndedStays
CHECK_DEADLOCK FALSE
