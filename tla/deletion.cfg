CONSTANTS
    User <- MCUser
    resources = "resources"
    cooker = "cooker"
    Resource <- MCResource
    Cached = {"material"}
    Owner <- MCOwner
    Inner <- MCInner
    Pointers <- MCPointers
    Wanted <- MCWanted
    Mounting = {"user"}
    Leaving = {"loader"}
    none = "none"
SPECIFICATION FairSpec
INVARIANTS DeletionInv HeldIsAlive FinalizedMeansTransferred SleepersHaveNothingToDo
PROPERTIES ImplementsLife PendingEnds
CHECK_DEADLOCK FALSE
