CONSTANTS
    w1 = w1
    w2 = w2
    a = a
    b = b
    c = c
    t1 = t1
    t2 = t2
    t3 = t3
    none = none
    user = user
    root = root
    Worker <- TwoWorkers
    Job <- Jobs
    Task <- TwoSlots
    Rounds <- OneRound
SPECIFICATION Spec
CHECK_DEADLOCK FALSE
INVARIANT WaitAssertionHolds
