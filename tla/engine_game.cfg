CONSTANTS
    Thread <- MCThread
    Slot <- MCSlot
    Caller <- MCCaller
    Call <- MCCall
    none = none
    MaxLead = 4
    MaxDelays = 1
    Foreground = TRUE
    Asking = {"logic", "render"}
    Editor = FALSE
SPECIFICATION FairEngineSpec
INVARIANTS EngineTypeOK NobodyTicksDuringClearing NothingIsLeftBehind TheAwaitedGoOn
PROPERTY EngineStops
