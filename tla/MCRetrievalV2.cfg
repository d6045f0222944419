SPECIFICATION Spec
CONSTANTS
    Total = 4
    Window = 2
    CkptEvery = 2
    MaxRuns = 3
INVARIANT TypeOK
INVARIANT OutputInOrder
INVARIANT CkptWithinFile
INVARIANT ResumeSucceeds
PROPERTY Returns
PROPERTY NoLeak
CHECK_DEADLOCK FALSE
