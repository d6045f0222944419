SPECIFICATION Spec
CONSTANTS
    Total = 3
    Window = 2
    CkptEvery = 2
    MaxRuns = 1
INVARIANT NeverPanics
CHECK_DEADLOCK FALSE
