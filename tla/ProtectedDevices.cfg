SPECIFICATION Spec
CONSTANTS
    Normal <- MCNormal
    Blank = ""
    Programs = {p, q}
    Disks <- MCDisks
    Typed <- MCTyped
    Buses = {"USB"}
    Letters = {"C"}
SYMMETRY ProgramSymmetry
INVARIANTS
    TypeOK
    PromisesAreKept
PROPERTY
    ProgramsDropNothing
