CONSTANTS
    Editor = TRUE
    MaxSets = 0
    MaxLag = 1
    PatientUser = TRUE
    MaxToggles = 2
SPECIFICATION FairSpec
INVARIANT FrameAccounting
PROPERTIES NoTornFrame CallsAreServed
