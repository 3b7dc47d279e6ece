SPECIFICATION SafeSpec
CONSTANTS
    a = a
    c1 = c1
    c2 = c2
    p1 = p1
    p2 = p2
    Nil = Nil
    Bots = {a}
    Clients = {c1, c2}
    OwnBot <- MCOwnBot
    Approvals = {p1, p2}
    Requester <- MCRequester
    Ttl = 2
    Life = 3
    MaxFence = 3
    MaxFaults = 1
INVARIANTS
    OneYesOneWindow
CHECK_DEADLOCK FALSE
