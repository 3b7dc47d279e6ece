SPECIFICATION Spec
CONSTANTS
    reply = reply
    named = named
    nameless = nameless
    check = check
    p = p
    Events <- OneFailure
    Bots <- OneBot
    BotOf <- FailureOfP
    Keyed <- OneFailure
    Checks <- NoEvents
    Failures <- OneFailure
    Identified <- NoEvents
    BatchSize = 2
    MaxTasks = 1
    MaxChecks = 1
    MaxFaults = 2
INVARIANTS
    FailureAppliedOnce
CHECK_DEADLOCK FALSE
