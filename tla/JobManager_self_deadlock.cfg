SPECIFICATION FairSpec
CONSTANTS
    Size = 1
    Null = Null
    Jobs = {j1}
    Disks = {d1}
    Backends = {"diskpart"}
    MaxWorkers = 1
    MaxLaunches = 1
    OtherInstance = FALSE
CHECK_DEADLOCK FALSE
PROPERTY
    GuiStaysResponsive
