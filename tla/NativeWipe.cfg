SPECIFICATION FairSpec
CONSTANTS
    Size = 2
    Null = Null
    Gone = Gone
    Devices = {t, x, y}
    Target = t
    Twins = {t, x}
    Armed = {t, x}
    Numbers = {1, 2}
    Number = 1
    Partitions = {v, u}
    Lockable = {v}
    Unlockable = {u}
INVARIANTS
    TypeOK
    WrongDiskOnlyUnlocked
    LocksCoverLayout
    NothingStaysOpen
    CompletionIsReal
PROPERTIES
    ProtectionIsHonoured
    RunEnds
    RunSpec
