SPECIFICATION FairSpec
CONSTANTS
    reply = reply
    named = named
    nameless = nameless
    check = check
    p = p
    Events <- AllEvents
    Bots <- OneBot
    BotOf <- AllOfP
    Keyed <- HaveKey
    Checks <- AreChecks
    Failures <- AreFailures
    Identified <- HaveIds
    BatchSize = 2
    MaxTasks = 1
    MaxChecks = 1
    MaxFaults = 2
CONSTRAINT
    NotBothFailures
INVARIANTS
    TypeOK
    Durable
    AppliedOnce
    HandedOnce
PROPERTIES
    InOrder
    KeepsLog
    EveryEventIsHandled
CHECK_DEADLOCK FALSE
