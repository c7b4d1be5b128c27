SPECIFICATION Spec
CONSTANTS
    Size = 3
    Null = Null
    Gone = Gone
    Devices = {t, x, y}
    Target = t
    Numbers = {1, 2}
    Number = 1
INVARIANTS
    TypeOK
    StraysAreRenumbered
    CompletionIsReal
PROPERTIES
    ProtectionIsHonoured
    RunSpec
