SPECIFICATION Spec
CONSTANTS
    Key <- MCKey
    Documents <- SectionOnly
INVARIANTS
    DependenciesClosed
CHECK_DEADLOCK FALSE
