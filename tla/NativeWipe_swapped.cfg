SPECIFICATION Spec
CONSTANTS
    Size = 2
    Null = Null
    Gone = Gone
    Devices = {t, x}
    Target = t
    Twins = {t, x}
    Armed = {t, x}
    Numbers = {1, 2}
    Number = 1
    Partitions = {v}
    Lockable = {v}
    Unlockable = {}
INVARIANT
    OnlyTargetIsWritten
