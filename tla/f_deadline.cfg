SPECIFICATION ShimSafeSpec
CONSTANTS
    s1 = s1
    s2 = s2
    s3 = s3
    b1 = b1
    b2 = b2
    t1 = t1
    t2 = t2
    t3 = t3
    Nil = Nil
    Holders = {s1, s2}
    Bots = {b1}
    Tokens = {t1, t2, t3}
    MaxHeld = 1
    MaxRowsPerBot = 2
    Ttl = 6
    LiveWaiter = 4
    StaleWaiting = 5
    Curl = 1
    Pause = 1
    PollEvery = 1
    RenewEvery = 2
    DownMax = 2
    Reuse = FALSE
    MaxFaults = 2
INVARIANTS
    BuildsWithinMax
CHECK_DEADLOCK FALSE
