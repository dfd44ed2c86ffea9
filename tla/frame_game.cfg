CONSTANTS
    Editor = FALSE
    MaxSets = 1
    MaxLag = 2
    PatientUser = FALSE
    MaxToggles = 0
SPECIFICATION FairSpec
INVARIANTS Inv NobodyPushesAfterPurge NoOrderLeaks
PROPERTIES OrdersAreExecuted EngineStops
