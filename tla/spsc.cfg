SPECIFICATION FairSpec
CONSTANTS
    n1 = n1
    n2 = n2
    n3 = n3
    n4 = n4
    null = null
    Node <- MCNode
INVARIANTS Inv NoUseAfterDelete NullNodeIsAlone
PROPERTIES ImplementsFifo EveryElementIsPopped
