CONSTANTS
    Slot = {"logic", "sound"}
    Thread = {"render"}
    Caller <- OneRenderThread
    Ids = {1}
    Call <- MCCall
    none = none
SPECIFICATION FairSpec
INVARIANT RpcInv
PROPERTIES FilledSlotIsStable EachCallIsExecutedOnce CompletionMeansExecuted LoopEndsByItsCall CallersProceed
