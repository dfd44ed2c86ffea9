CONSTANTS
    Thread <- MCThread
    Slot <- MCSlot
    Caller <- MCCaller
    Call <- MCCall
    none = none
    MaxLead = 4
    MaxDelays = 1
    Foreground = TRUE
    Asking = {}
    Editor = TRUE
SPECIFICATION FairEngineSpec
INVARIANT WorldsOutliveTheirUsers
PROPERTIES RpcDiscipline EngineStarts
