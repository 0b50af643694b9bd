SPECIFICATION FairSpec
CONSTANTS
    Key <- MCKey
    Documents <- MCDocuments
INVARIANTS
    ProtectionHeld
    RepairBounded
    RepairsStick
    OutputIsCurrent
    RepairExhausted
PROPERTIES
    RepairOnlyAdds
    Terminates
CHECK_DEADLOCK FALSE
