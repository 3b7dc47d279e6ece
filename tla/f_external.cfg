SPECIFICATION Spec
CONSTANTS
    u = u
    v = v
    x = x
    NoTurn = NoTurn
    WebTurns <- Nobody
    RelayTurns <- Nobody
    ExternalTurns <- OneExternal
    MaxRuns = 1
    RetryLimit = 0
    MaxFaults = 0
INVARIANTS
    EveryEndedRunTurnIsOwned
CHECK_DEADLOCK FALSE
