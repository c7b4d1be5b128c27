SPECIFICATION FairSpec
CONSTANTS
    Disks = {a, b, c}
    Numbers = {1, 2}
    Shifting = {c}
    Parallel = FALSE
    Null = Null
INVARIANTS
    TypeOK
    BusyRowsOfferNoWipe
PROPERTIES
    JobsAreAgreed
    ProtectedAreSpared
    RefreshGoesOn
