SPECIFICATION Spec
CONSTANTS
    Stream = {s1}
    Scanner = {x1, x2}
    File = {f1, f2, f3, f4}
    MaxFaults = 1
    Request <- Requests
    None = None
INVARIANT TypeOK
INVARIANT HealthyIsHosted
INVARIANT AckedIsStored
PROPERTY GoodMovedForAReason
PROPERTY EventuallyClean
