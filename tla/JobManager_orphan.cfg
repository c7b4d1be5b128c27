SPECIFICATION Spec
CONSTANTS
    Size = 2
    Null = Null
    Jobs = {j1, j2}
    Disks = {d1, d2}
    Backends = {"diskpart"}
    MaxWorkers = 1
    MaxLaunches = 2
    OtherInstance = FALSE
CHECK_DEADLOCK FALSE
INVARIANT
    OneDiskPartAtATime
