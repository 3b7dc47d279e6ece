SPECIFICATION Spec
CONSTANTS
    u = u
    v = v
    x = x
    NoTurn = NoTurn
    WebTurns <- OneLane
    RelayTurns <- Nobody
    ExternalTurns <- Nobody
    MaxRuns = 1
    RetryLimit = 0
    MaxFaults = 1
SYMMETRY SameLane
INVARIANTS
    TypeOK
    NeverSentIsTrue
    PendingHasAWayOut
    UntypedIsKnown
PROPERTIES
    KeepsGuard
CHECK_DEADLOCK FALSE
