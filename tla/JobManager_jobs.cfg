SPECIFICATION Spec
CONSTANTS
    Size = 1
    Null = Null
    Jobs = {j1, j2}
    Disks = {d1, d2}
    Backends = {"diskpart", "native"}
    MaxWorkers = 2
    MaxLaunches = 2
    OtherInstance = FALSE
SYMMETRY JobSymmetry
VIEW JobView
CHECK_DEADLOCK FALSE
INVARIANTS
    TypeOK
    OneLiveJobPerDisk
    RealOverlapIsParallel
    CloseFindsNothingRunning
    OpenRowsAreLive
PROPERTIES
    FinishedRowsAreFinal
    LedgerSpec
