SPECIFICATION Spec
CONSTANTS
    Size = 3
    Null = Null
    Jobs = {j1}
    Disks = {d1}
    Backends = {"simulation", "diskpart", "native"}
    MaxWorkers = 1
    MaxLaunches = 2
    OtherInstance = TRUE
CHECK_DEADLOCK FALSE
INVARIANTS
    CompletionIsReal
    CancellationIsIncomplete
    NeverOverreported
    CancelStopsWriting
    EndsAreRecordedFirst
