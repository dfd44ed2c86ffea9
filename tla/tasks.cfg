CONSTANTS
    w1 = w1
    w2 = w2
    a = a
    b = b
    c = c
    t1 = t1
    t2 = t2
    t3 = t3
    none = none
    user = user
    root = root
    Worker <- OneWorker
    Job <- Jobs
    Task <- ThreeSlots
    Rounds <- Nested
SPECIFICATION FairSpec
CHECK_DEADLOCK FALSE
INVARIANTS TasksTypeOK RefsCountReferences EachTaskHasOneExecutor WaitMeansDone UnlinkedChildrenAreEnded
    NobodyWaitsInACircle
PROPERTY WaitsEnd
