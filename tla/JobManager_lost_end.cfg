SPECIFICATION Spec
CONSTANTS
    Size = 1
    Null = Null
    Jobs = {j1}
    Disks = {d1}
    Backends = {"native"}
    MaxWorkers = 1
    MaxLaunches = 1
    OtherInstance = FALSE
CHECK_DEADLOCK FALSE
INVARIANT
    EndedJobsAreClosed
