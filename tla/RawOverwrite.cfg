CONSTANTS
    Geometries <- MCGeometries
    Interval = 3
SPECIFICATION Spec
INVARIANTS
    TypeOK
    RequestsAreSound
    ZeroesAreCounted
    EndsAreExact
    ReportsKeepUp
CHECK_DEADLOCK FALSE
