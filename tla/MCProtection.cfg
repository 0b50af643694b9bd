SPECIFICATION Spec
CONSTANTS
    Unit <- MCUnit
    Documents <- MCDocuments
INVARIANTS
    ClosedWhenDrained
    DirectDependenciesKept
    Explained
    WorkBound
PROPERTIES
    NeverLowered
CHECK_DEADLOCK FALSE
