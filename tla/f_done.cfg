\* A recovery whose start fails after the run was inserted calls the restart done.
CONSTANTS
    w1 = w1
    w2 = w2
    Workers <- OneWorker
    MaxAttempts = 2
    MaxOps = 1
    MaxFaults = 1
SPECIFICATION Spec
INVARIANTS
    DoneMeansBack
CHECK_DEADLOCK FALSE
