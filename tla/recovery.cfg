\* Restarts interrupted by crashes, a worker, failed writes: everything the recovery promises.
CONSTANTS
    w1 = w1
    w2 = w2
    Workers <- WorkersAre
    MaxAttempts = 2
    MaxOps = 2
    MaxFaults = 2
SPECIFICATION FairSpec
INVARIANTS
    TypeOK
    AgentsAreOwned
    BroughtBackOnce
    StoppedIsAccountedFor
PROPERTIES
    PromptIsKept
    InheritedSettles
    HoldsEnd
CHECK_DEADLOCK FALSE
