SPECIFICATION FairSpec
CONSTANTS
    u = u
    v = v
    x = x
    NoTurn = NoTurn
    WebTurns <- OnePrompt
    RelayTurns <- Nobody
    ExternalTurns <- Nobody
    MaxRuns = 1
    RetryLimit = 0
    MaxFaults = 2
INVARIANTS
    EndedRunTurnIsOwned
    StopKillsNoTurn
PROPERTIES
    EndedRunTurnCloses
    OrphansLeave
CHECK_DEADLOCK FALSE
