SPECIFICATION Spec
CONSTANTS
    Key <- MCKey
    Documents <- AdaptiveOnly
INVARIANTS
    RepairedCriticalKept
CHECK_DEADLOCK FALSE
