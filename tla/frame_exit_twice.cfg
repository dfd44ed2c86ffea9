CONSTANTS
    Editor = FALSE
    MaxSets = 0
    MaxLag = 1
    PatientUser = FALSE
    MaxToggles = 0
SPECIFICATION Spec
INVARIANT ExitIsCalledOnce
