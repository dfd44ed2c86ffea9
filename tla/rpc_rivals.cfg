CONSTANTS
    Slot = {"logic"}
    Thread = {"render", "editor"}
    Caller <- Rivals
    Ids = {1}
    Call <- MCCall
    none = none
SPECIFICATION Spec
INVARIANT SlotAssertionHolds
