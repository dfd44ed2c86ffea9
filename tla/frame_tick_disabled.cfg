CONSTANTS
    Editor = TRUE
    MaxSets = 0
    MaxLag = 1
    PatientUser = FALSE
    MaxToggles = 2
SPECIFICATION Spec
INVARIANT GameTicksOnlyWhenEnabled
