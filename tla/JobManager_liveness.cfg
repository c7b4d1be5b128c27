SPECIFICATION FairSpec
CONSTANTS
    Size = 1
    Null = Null
    Jobs = {j1, j2}
    Disks = {d1, d2}
    Backends = {"simulation"}
    MaxWorkers = 1
    MaxLaunches = 1
    OtherInstance = FALSE
CHECK_DEADLOCK FALSE
PROPERTIES
    SubmittedJobsAreForgotten
    EndsAreShown
